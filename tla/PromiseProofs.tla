---------------------------- MODULE PromiseProofs ----------------------------
(***************************************************************************)
(* What a session keeps as long as no command is killed half way: daemons  *)
(* may die at any moment or hold on after a kill, and every statement that *)
(* can raise may raise, but every command comes to its end.  The inductive invariant is built in    *)
(* three layers, kernel, resolver and units, each of which uses the one    *)
(* before it.                                                              *)
(***************************************************************************)
EXTENDS TeardownProofs

USE DEF procVars, hostVars

UninterruptedAssumption ==
  /\ Faults \subseteq {"death", "linger"}
  /\ \A h \in Hosts : h.phys # {} /\ {"ip6tables", "iptables"} \subseteq h.tools

-----------------------------------------------------------------------------
\* Kernel.
NetClean == NetRestored /\ net.pinned = {}

\* The statements of up and of the full speed test where drkvl0 has not been touched.
Outside == {"pick", "stop_clash", "record_xray", "await_socks", "up_dev", "up_snapshot"}
Undone == {"down_dns", "down_resolv", "down_done"} \cup Clearing
Successes == {"down", "cleaned", "failed", "tested"}

Ground == LoopInv /\ BlockInv /\ WayBackInv /\ DaemonsInv

\* What the layers take from the invariants of the other modules.
Known ==
  /\ TypeInv
  /\ pc \in {"up_done"} \cup BeforePin \cup AfterPin => Snap
  /\ ~Snap \/ pc \in NotYetRerouted \cup Restored => PhysDefaults # {}
  /\ pc \in Rerouted => PhysDefaults = {}
  /\ pc \in Reopened => net.ip6 = "open"
  /\ pc \in {"up_snapshot"} \cup BeforePin \cup AfterPin => snap.server = server
  /\ pc \in BeforePin \cup AfterPin => disk.backup.server = server
  /\ pc = "up_done" => server \in net.pinned
  /\ pc \in {"up_snapshot", "down_link", "down_unpin"} \cup BeforePin => Tun \notin net.defaults
  /\ pc \in Reopened \cup {"pkill", "down_t2", "down_v6"} => snap = disk.backup
  /\ pc \in {"up_done"} \cup Outside \cup BeforePin \cup AfterPin => cmd \in {"up", "full"}
  /\ pc = "pkill" => cmd \in {"emergency", "sweep"}
  /\ pc # "down_raised"
  /\ pc \in Outside \cup Reopened => proc["tun2socks"] = "none"
  /\ pc \in Undone => AllStopped \/ outcome = "interrupted"
  /\ pc = "pick" => AllStopped
  /\ pc # "idle" => outcome \in {"running", "interrupted", "rollback failed"}
  /\ pc = "stop_xray" /\ cmd = "sweep" => ~Snap

LEMMA KnownNow == Ground => Known
<1> SUFFICES ASSUME Ground PROVE Known
  OBVIOUS
<1>1. LoopInv /\ BlockInv /\ WayBackInv /\ DaemonsInv
  BY DEF Ground
<1>2. /\ TypeInv
      /\ pc \in {"up_snapshot"} \cup BeforePin \cup AfterPin => snap.server = server
      /\ pc \in {"up_snapshot", "down_link", "down_unpin"} \cup BeforePin => Tun \notin net.defaults
      /\ pc \in BeforePin \cup AfterPin /\ Snap => disk.backup.server = server
      /\ pc = "up_done" => server \in net.pinned
  BY <1>1 DEF LoopInv
<1>3. (pc \in Rerouted => PhysDefaults = {}) /\ (pc \in Reopened => net.ip6 = "open")
  BY <1>1 DEF BlockInv
<1>4. /\ pc \in {"up_done"} \cup BeforePin \cup AfterPin => Snap
      /\ ~Snap \/ pc \in NotYetRerouted \cup Restored => PhysDefaults # {}
      /\ pc \in Reopened \cup {"pkill", "down_t2", "down_v6"} => snap = disk.backup
      /\ pc = "pkill" => cmd \in {"emergency", "sweep"}
      /\ pc # "down_raised"
      /\ pc = "stop_xray" /\ cmd = "sweep" => ~Snap
  BY <1>1 DEF WayBackInv, DefaultRecoverable
<1>5. pc \in {"up_done"} \cup Outside \cup BeforePin \cup AfterPin => cmd \in {"up", "full"}
  BY <1>1 DEF WayBackInv, Outside, Attempting
<1>6. /\ pc \in Outside \cup Reopened => proc["tun2socks"] = "none"
      /\ pc \in Undone => AllStopped \/ outcome = "interrupted"
      /\ pc = "pick" => AllStopped
      /\ pc # "idle" => outcome \in {"running", "interrupted", "rollback failed"}
  BY <1>1 DEF DaemonsInv, Outside, Reopened, Undone, Torn, Clearing, AllStopped, Daemons
<1> QED
  BY <1>2, <1>3, <1>4, <1>5, <1>6 DEF Known

LEMMA KnownNext == Ground' => Known'
  BY KnownNow, PTL

LEMMA GroundNext ==
  ASSUME UninterruptedAssumption
  PROVE  Ground /\ [Next]_vars => Ground'
<1>1. {"renew", "unchecked"} \cap Faults = {} /\ WayBackAssumption
  BY DEF UninterruptedAssumption, WayBackAssumption
<1> QED
  BY <1>1, NextLoop, NextBlock, NextWayBack, NextDaemons DEF Ground

NetInv ==
  /\ pc \in Outside \cup Undone => NetClean
  /\ ~Snap => NetClean /\ proc["tun2socks"] = "none"
  /\ pc = "idle" /\ Snap =>
       PhysDefaults = {} /\ net.ip6 # "open" /\ net.pinned = {disk.backup.server}
  /\ PinsAccounted
  /\ pc \in BeforePin \cup {"down_default"} => net.pinned = {}
  /\ pc \in Blocked => net.ip6 # "open"
  /\ pc \in Reopened \ {"down_policy"} => net.policy = {}
  /\ pc \in {"down_link", "down_unpin", "down_default"} => Tun \notin net.defaults
  /\ pc \in {"down_unpin", "down_default"} => net.link = "absent"
  /\ pc \in {"stop_clash", "clear_bak"} => ~Snap
  /\ pc = "start_clash" /\ cmd = "emergency" => ~Snap
  /\ pc \in Outside /\ cmd = "up" => ~Snap
  /\ cmd = "sweep" => ~Snap
  /\ outcome \in Successes => pc = "idle" /\ ~Snap
  /\ outcome = "up" => pc = "idle" /\ Snap
  /\ outcome # "interrupted" /\ orphans = {}

LEMMA StopXraySame ==
  ASSUME TypeInv, StopDaemon("xray")
  PROVE  UNCHANGED <<orphans, net, dns>> /\ proc'["tun2socks"] = proc["tun2socks"]
  BY Shapes DEF StopDaemon, Dies, Lingers, Frees, Daemons

LEMMA NetUp ==
  ASSUME UninterruptedAssumption, Known, Known', NetInv, ApplyUp,
         UNCHANGED <<cmd, cand, stopped, outcome>>
  PROVE  NetInv'
<1> USE Shapes DEF Known, NetInv, NetClean, NetRestored, PinsAccounted, PhysDefaults, Snap, Goto,
      Outside, Undone, Clearing, Blocked, Reopened, BeforePin, AfterPin, Ineffective,
      UninterruptedAssumption
<1>1. CASE TakeSnapshot
  <2>1. /\ pc = "up_dev" /\ pc' = "up_snapshot"
        /\ UNCHANGED <<net, proc, orphans>> /\ disk'.backup = disk.backup
    BY <1>1 DEF TakeSnapshot
  <2> QED
    BY <2>1
<1>2. ASSUME NEW a, NEW p, NEW q,
             Install(a, p, q), <<p, q>> \in {<<"up_main", "up_spawn">>, <<"up_verify", "up_verify">>,
               <<"up_table", "up_direct">>, <<"up_direct", "up_marks">>,
               <<"up_marks", "up_verify_final">>}
      PROVE  NetInv'
  BY <1>2 DEF Install
<1>3. CASE SpawnTun2socks \/ RecordTun2socks \/ DevAppeared \/ BringLinkUp
  BY <1>3 DEF SpawnTun2socks, RecordTun2socks, DevAppeared, BringLinkUp
<1>4. CASE WriteSnapshot \/ PinServer \/ PinVerified
  <2>1. CASE WriteSnapshot
    BY <2>1 DEF WriteSnapshot
  <2>2. CASE PinServer
    BY <2>2 DEF PinServer
  <2>3. CASE PinVerified
    BY <2>3 DEF PinVerified
  <2> QED
    BY <1>4, <2>1, <2>2, <2>3
<1>5. CASE DeleteDefault \/ DefaultsDeleted \/ AddTunDefault
  BY ZenonT(30), <1>5 DEF DeleteDefault, DefaultsDeleted, AddTunDefault
<1>6. CASE PinStillHolds \/ BlockIpv6 \/ SteerTunDns \/ FallBackToResolv
  BY <1>6 DEF PinStillHolds, BlockIpv6, SteerTunDns, FallBackToResolv
<1>7. CASE SteerPhysOff \/ WriteResolv \/ StopResolved \/ SaveDnsMode
  BY <1>7 DEF SteerPhysOff, WriteResolv, StopResolved, SaveDnsMode
<1>8. CASE Tun2socksExits
  BY <1>8, DiesRoutes, LinkGoneFields DEF Tun2socksExits, Daemons, Dies
<1>9. CASE ApplyUpRaises \/ SnapshotWriteFails
  BY ZenonT(30), <1>9 DEF ApplyUpRaises, SnapshotWriteFails
<1> QED
  BY <1>1, <1>2, <1>3, <1>4, <1>5, <1>6, <1>7, <1>8, <1>9 DEF ApplyUp

LEMMA NetDown ==
  ASSUME UninterruptedAssumption, Known, Known', NetInv, ApplyDown,
         UNCHANGED <<cmd, cand, stopped, outcome>>
  PROVE  NetInv'
<1> USE Shapes DEF Known, NetInv, NetClean, NetRestored, PinsAccounted, PhysDefaults, Snap, Goto,
      Outside, Undone, Clearing, Blocked, Reopened, BeforePin, AfterPin, Ineffective,
      UninterruptedAssumption
<1>1. CASE StopTun2socks
  BY ZenonT(30), <1>1, StopRoutes, LinkGoneFields DEF StopTun2socks, Daemons, StopDaemon, Dies, Lingers, LinkGone
<1>2. CASE UnblockIpv6 \/ RemoveArtefact \/ PolicyRemoved
  BY ZenonT(30), <1>2 DEF UnblockIpv6, RemoveArtefact, PolicyRemoved
<1>3. CASE ApplyDownRaises
  BY <1>3 DEF ApplyDownRaises
<1>4. CASE DeleteTunDefault \/ UnpinServer
  <2>1. CASE DeleteTunDefault
    BY <2>1 DEF DeleteTunDefault
  <2>2. CASE UnpinServer
    <3>1. /\ pc = "down_unpin" /\ pc' = "down_default"
          /\ net' = [net EXCEPT !.pinned = @ \ {snap.server}]
          /\ UNCHANGED <<proc, orphans, disk, snap>>
      BY <2>2 DEF UnpinServer
    <3>2. net'.pinned = {}
      BY <3>1
    <3> QED
      BY <3>1, <3>2
  <2> QED
    BY <1>4, <2>1, <2>2
<1>5. CASE DeleteLink
  BY ZenonT(30), <1>5, LinkGoneFields DEF DeleteLink, LinkGone
<1>6. CASE RestoreDefault
  <2>1. /\ pc = "down_default" /\ pc' = "down_dns"
        /\ UNCHANGED <<disk, proc, orphans>>
        /\ net' = [net EXCEPT !.defaults =
                     IF PhysDefaults = {} THEN @ \cup ({snap.default} \cap ViaGateway) ELSE @]
    BY <1>6 DEF RestoreDefault
  <2>2. Tun \notin net'.defaults
    BY <2>1, ConstantsAssumption
  <2>3. PhysDefaults' # {}
    BY <2>1 DEF Restored
  <2> QED
    BY <2>1, <2>2, <2>3
<1>7. CASE RevertResolved \/ StartResolved \/ RestoreResolv
  BY <1>7 DEF RevertResolved, StartResolved, RestoreResolv
<1> QED
  BY <1>1, <1>2, <1>3, <1>4, <1>5, <1>6, <1>7 DEF ApplyDown

LEMMA NetSession ==
  ASSUME UninterruptedAssumption, Known, Known', NetInv, Command,
         ~((ApplyUp \/ ApplyDown) /\ UNCHANGED <<cmd, cand, stopped, outcome>>)
  PROVE  NetInv'
<1> USE Shapes DEF Known, NetInv, NetClean, NetRestored, PinsAccounted, PhysDefaults, Snap, Goto,
      Outside, Undone, Clearing, Blocked, Reopened, BeforePin, AfterPin, Successes
<1>1. CASE CandidateFails \/ SpawnXray \/ RecordXray \/ SocksAnswers
  BY <1>1 DEF CandidateFails, SpawnXray, RecordXray, SocksAnswers
<1>2. CASE SocksTimeout
  BY <1>2, StopXraySame DEF SocksTimeout
<1>3. CASE NoneConnects \/ UnitsStopped \/ NoSystemctl
  BY <1>3 DEF NoneConnects, UnitsStopped, NoSystemctl, End
<1>4. CASE SaveActive \/ RollBack
  <2>1. CASE SaveActive
    BY <2>1 DEF SaveActive, End, Rerouted
  <2>2. CASE RollBack
    BY <2>2 DEF RollBack
  <2> QED
    BY <1>4, <2>1, <2>2
<1>5. ASSUME NEW u \in Units, StopUnit(u) \/ StartUnit(u) PROVE NetInv'
  BY <1>5 DEF StopUnit, StartUnit
<1>6. CASE StopXray
  BY ZenonT(30), <1>6, StopXraySame DEF StopXray
<1>7. CASE Pkill
  BY ZenonT(30), <1>7, LinkGoneFields DEF Pkill, LinkGone, Daemons
<1>8. CASE TornDown \/ TeardownRaised \/ Measured \/ AllTested
  BY ZenonT(30), <1>8 DEF TornDown, TeardownRaised, Measured, AllTested
<1>9. CASE UnitsStarted
  BY ZenonT(30), <1>9 DEF UnitsStarted, End, Report
<1>10. CASE ClearPids \/ ClearActive
  <2>1. CASE ClearPids
    <3>1. /\ pc = "clear_pids" /\ pc' \in {"clear_active", "clear_backup"}
          /\ proc'["tun2socks"] = "none" /\ orphans' = {}
          /\ UNCHANGED <<net, disk, cmd, outcome>>
      <4>1. AllStopped
        BY <2>1 DEF ClearPids
      <4>2. PICK cleared \in SUBSET Daemons :
              /\ orphans' = orphans \cup {d \in cleared : Running(d)}
              /\ proc' = [d \in Daemons |-> IF d \in cleared THEN "none" ELSE proc[d]]
        BY <2>1, PidsCleared
      <4>3. proc'["tun2socks"] = "none" /\ orphans' = {}
        BY <4>1, <4>2 DEF AllStopped, Running, Daemons
      <4> QED
        BY <2>1, <4>3 DEF ClearPids
    <3> QED
      BY <3>1
  <2>2. CASE ClearActive
    BY <2>2 DEF ClearActive
  <2> QED
    BY <1>10, <2>1, <2>2
<1>11. CASE ClearBackup
  BY <1>11 DEF ClearBackup, AllStopped, Daemons
<1>12. CASE ClearResolvBak
  BY <1>12 DEF ClearResolvBak, End, Report
<1> QED
  BY <1>1, <1>2, <1>3, <1>4, <1>5, <1>6, <1>7, <1>8, <1>9, <1>10, <1>11, <1>12 DEF Command

LEMMA NetElse ==
  ASSUME UninterruptedAssumption, Known, Known', NetInv,
         User \/ (Environment /\ UNCHANGED localVars) \/ Crash \/ Interrupt \/ Reboot \/ UNCHANGED vars
  PROVE  NetInv'
<1> USE Shapes DEF Known, NetInv, NetClean, NetRestored, PinsAccounted, PhysDefaults, Snap, Goto,
      Outside, Undone, Clearing, Blocked, Reopened, BeforePin, AfterPin, Successes
<1>1. CASE User
  <2>1. CASE \E C \in SUBSET Servers : UpBegins(C) \/ FullBegins(C)
    BY <2>1 DEF UpBegins, FullBegins, Begin
  <2>2. CASE DownNotRunning \/ DownBegins \/ NothingToClean
    BY <2>2 DEF DownNotRunning, DownBegins, NothingToClean, Begin, End
  <2>3. CASE EmergencyBegins
    BY <2>3 DEF EmergencyBegins, Leftovers, Begin, DevExists
  <2> QED
    BY <1>1, <2>1, <2>2, <2>3 DEF User
<1>2. CASE (XrayBinds \/ TunAppears) /\ UNCHANGED localVars
  <2>1. CASE XrayBinds
    BY ZenonT(30), <1>2, <2>1 DEF XrayBinds, localVars
  <2>2. CASE TunAppears
    BY <1>2, <2>2 DEF TunAppears, DevExists, localVars, AllStopped, Daemons
  <2> QED
    BY <1>2, <2>1, <2>2
<1>3. ASSUME NEW d \in Daemons, DaemonDies(d) \/ OrphanEnds(d) \/ DyingEnds(d),
             UNCHANGED localVars
      PROVE  NetInv'
  <2>1. /\ proc["tun2socks"] = "none" => proc'["tun2socks"] = "none"
        /\ orphans' \subseteq orphans
        /\ UNCHANGED <<disk, pc, cmd, server, snap, outcome, host>>
    BY <1>3 DEF DaemonDies, OrphanEnds, DyingEnds, localVars, Dies, Daemons
  <2>2. net' = net \/ net' = LinkGone
    BY <1>3, EndsAlone
  <2>3. /\ PhysDefaults' = PhysDefaults
        /\ net'.pinned = net.pinned /\ net'.policy = net.policy /\ net'.ip6 = net.ip6
        /\ net.link = "absent" => net'.link = "absent"
        /\ Tun \notin net.defaults => Tun \notin net'.defaults
    BY ZenonT(30), <2>2, LinkGoneFields DEF LinkGone
  <2> QED
    BY ZenonT(30), <2>1, <2>3
<1>4. CASE UNCHANGED vars
  BY ZenonT(30), <1>4 DEF vars, localVars
<1> QED
  BY <1>1, <1>2, <1>3, <1>4
     DEF Environment, LinkRenew, Crash, Interrupt, Reboot, UninterruptedAssumption

-----------------------------------------------------------------------------
\* Resolver: what a snapshot s allows to put back.
DnsPlain ==
  /\ dns.resolv = host.resolv
  /\ dns.resolved = host.resolved
  /\ dns.flag = host.flag
  /\ ~dns.tun

Genuine(s) == s.resolv = host.resolv /\ (host.resolv = "file" => disk.bak)

Undoable(s) ==
  /\ s.mode = "" => DnsPlain /\ ~s.stopped
  /\ s.mode = "resolvectl" =>
       /\ dns.resolv = host.resolv /\ dns.resolved = host.resolved
       /\ s.phys = host.flag
       /\ s.phys = "unknown" => dns.flag = host.flag
  /\ s.mode = "resolv" =>
       /\ dns.resolv \in {"placeholder", host.resolv}
       /\ dns.resolved => host.resolved
       /\ s.stopped = host.resolved
       /\ dns.flag = host.flag /\ ~dns.tun

BeforeDns ==
  (BeforePin \cup AfterPin) \ {"up_steer", "up_stop_resolved", "up_save_dns"}
Snapped == BeforePin \cup AfterPin

DnsInv ==
  /\ pc \in Outside \cup BeforeDns \cup Clearing \cup {"down_done"} => DnsPlain
  /\ ~Snap => DnsPlain
  /\ Snap => Genuine(disk.backup)
  /\ Snap /\ pc \notin Snapped => Undoable(disk.backup)
  /\ pc \in {"up_snapshot"} \cup Snapped => Genuine(snap)
  /\ pc \in {"up_snapshot", "up_steer"} \cup BeforeDns => snap.mode = "" /\ ~snap.stopped
  /\ pc \in Snapped =>
       /\ disk.backup.mode = "" /\ ~disk.backup.stopped
       /\ disk.backup.default = snap.default
  /\ pc = "up_steer" =>
       /\ dns.resolv = host.resolv /\ dns.resolved = host.resolved /\ dns.flag = host.flag
       /\ Tun \in net.defaults => dns.tun
  /\ pc = "up_stop_resolved" =>
       /\ snap.mode = "resolv"
       /\ dns.resolv = "placeholder" /\ dns.resolved = host.resolved
       /\ dns.flag = host.flag /\ ~dns.tun
  /\ pc = "up_save_dns" => Undoable(snap)
  /\ pc \in {"down_dns", "down_resolv"} => snap = disk.backup
  /\ pc = "down_resolv" =>
       /\ dns.resolv = host.resolv \/ (dns.resolv = "placeholder" /\ Snap)
       /\ dns.resolved = host.resolved /\ dns.flag = host.flag /\ ~dns.tun
  /\ (pc \in {"up_save_dns", "up_done"} \/ outcome = "up") /\ Tun \in net.defaults => DnsSteered

\* The shape of what the resolver layer looks at.
LEMMA DnsShapes ==
  ASSUME TypeInv
  PROVE  /\ dns \in [resolv: {"symlink", "file", "placeholder"}, resolved: BOOLEAN,
              flag: {"yes", "no", "unknown"}, tun: BOOLEAN]
         /\ disk \in [backup: Snapshots \cup {NoSnap}, bak: BOOLEAN, active: SUBSET Units]
         /\ host.resolv \in {"symlink", "file"} /\ host.resolved \in BOOLEAN
         /\ host.flag \in {"yes", "no", "unknown"}
         /\ Snap => /\ disk.backup.mode \in {"", "resolvectl", "resolv"}
                    /\ disk.backup.stopped \in BOOLEAN
         /\ pc \in {"up_snapshot"} \cup Snapped => snap \in Snapshots
         /\ NoSnap \notin Snapshots
  BY Shapes DEF HostSetup, Snapshots, Snap, TypeInv, TypeOK, HostTypeOK, Snapped

LEMMA LinkDnsGoneFields ==
  ASSUME TypeInv
  PROVE  /\ LinkDnsGone.resolv = dns.resolv /\ LinkDnsGone.resolved = dns.resolved
         /\ LinkDnsGone.flag = dns.flag /\ LinkDnsGone.tun = FALSE
         /\ Tun \notin LinkGone.defaults
  BY DnsShapes, LinkGoneFields DEF LinkDnsGone

\* A daemon's end takes the device, its default route and its DNS away together.
LEMMA DiesDns ==
  ASSUME NEW d \in Daemons, Dies(d) \/ StopDaemon(d)
  PROVE  \/ UNCHANGED <<net, dns>>
         \/ net' = LinkGone /\ dns' = LinkDnsGone
  BY DEF Dies, Lingers, Frees, StopDaemon

\* What a step that at most removes drkvl0 keeps of the resolver.
LEMMA DnsKept ==
  ASSUME TypeInv, UNCHANGED <<net, dns>> \/ (net' = LinkGone /\ dns' = LinkDnsGone),
         host' = host
  PROVE  /\ dns'.resolv = dns.resolv /\ dns'.resolved = dns.resolved /\ dns'.flag = dns.flag
         /\ ~dns.tun => ~dns'.tun
         /\ Tun \in net'.defaults => dns' = dns /\ Tun \in net.defaults
         /\ DnsPlain => DnsPlain'
         /\ Tun \in net'.defaults /\ DnsSteered => DnsSteered'
  BY LinkDnsGoneFields DEF DnsPlain, DnsSteered

\* A step that leaves the resolver, the snapshot on disk and the default routes alone.
LEMMA UndoableKept ==
  ASSUME NEW s, Undoable(s), host' = host,
         dns'.resolv = dns.resolv, dns'.resolved = dns.resolved, dns'.flag = dns.flag,
         ~dns.tun => ~dns'.tun, s' = s
  PROVE  Undoable(s)'
  BY DEF Undoable, DnsPlain

LEMMA TunnelBusy == ApplyUp \/ ApplyDown => pc # "idle" /\ pc' # "idle"
<1>1. ApplyUp => pc # "idle" /\ pc' # "idle"
  BY DEF ApplyUp, TakeSnapshot, WriteSnapshot, Install, SpawnTun2socks, RecordTun2socks,
     DevAppeared, BringLinkUp, PinServer, PinVerified, DeleteDefault, DefaultsDeleted,
     AddTunDefault, PinStillHolds, BlockIpv6, SteerTunDns, FallBackToResolv, SteerPhysOff,
     WriteResolv, StopResolved, SaveDnsMode, Tun2socksExits, ApplyUpRaises,
     SnapshotWriteFails, Goto
<1>2. ApplyDown => pc # "idle" /\ pc' # "idle"
  BY DEF ApplyDown, StopTun2socks, UnblockIpv6, RemoveArtefact, PolicyRemoved, ApplyDownRaises,
     DeleteTunDefault, DeleteLink, UnpinServer, RestoreDefault, RevertResolved, StartResolved,
     RestoreResolv, Goto
<1> QED
  BY <1>1, <1>2

LEMMA DnsUp ==
  ASSUME UninterruptedAssumption, Known, NetInv, DnsInv, ApplyUp, Known', NetInv',
         UNCHANGED <<cmd, cand, stopped, outcome>>
  PROVE  DnsInv'
<1> USE DnsShapes DEF DnsInv, DnsPlain, Genuine, Undoable, Snap, Goto, Outside, Clearing,
      BeforeDns, Snapped, BeforePin, AfterPin, Ineffective, UninterruptedAssumption
<1>0. TypeInv /\ outcome # "up" /\ (pc \in Snapped => Snap)
  BY TunnelBusy DEF Known, NetInv
<1>1. CASE TakeSnapshot
  <2>1. PICK d : snap' = Seen(d, GenuineKind)
    BY <1>1, Zenon DEF TakeSnapshot
  <2>2. snap'.resolv = dns.resolv /\ snap'.mode = "" /\ ~snap'.stopped
    BY <1>0, <1>1, <2>1 DEF TakeSnapshot, Seen, GenuineKind
  <2>3. /\ pc = "up_dev" /\ pc' = "up_snapshot" /\ UNCHANGED <<host, net, dns>>
        /\ disk'.backup = disk.backup
        /\ dns.resolv = "file" \/ disk.bak => disk'.bak
    BY <1>0, <1>1 DEF TakeSnapshot
  <2> QED
    BY <1>0, <2>2, <2>3 DEF DnsSteered
<1>2. CASE WriteSnapshot
  BY <1>0, <1>2 DEF WriteSnapshot
<1>3. ASSUME UNCHANGED <<host, dns, disk, snap>>, net'.defaults = net.defaults,
             pc \in BeforeDns, pc' \in BeforeDns
      PROVE  DnsInv'
  BY <1>0, <1>3
<1>4. ASSUME NEW a, NEW p, NEW q,
             Install(a, p, q), <<p, q>> \in {<<"up_main", "up_spawn">>, <<"up_verify", "up_verify">>,
               <<"up_table", "up_direct">>, <<"up_direct", "up_marks">>,
               <<"up_marks", "up_verify_final">>}
      PROVE  DnsInv'
  BY <1>0, <1>4 DEF Install
<1>5. CASE SpawnTun2socks \/ RecordTun2socks \/ DevAppeared \/ BringLinkUp
  BY <1>0, <1>5 DEF SpawnTun2socks, RecordTun2socks, DevAppeared, BringLinkUp
<1>6. CASE PinServer \/ PinVerified \/ DeleteDefault \/ DefaultsDeleted \/ AddTunDefault
  BY ZenonT(30), <1>0, <1>6 DEF PinServer, PinVerified, DeleteDefault, DefaultsDeleted, AddTunDefault
<1>7. CASE PinStillHolds \/ BlockIpv6 \/ FallBackToResolv
  BY <1>0, <1>7 DEF PinStillHolds, BlockIpv6, FallBackToResolv
<1>8. CASE SteerTunDns
  <2>1. /\ pc = "up_dns" /\ pc' = "up_steer" /\ UNCHANGED <<host, net, disk, snap>>
        /\ dns'.resolv = dns.resolv /\ dns'.resolved = dns.resolved
        /\ dns'.flag = dns.flag /\ dns'.tun
    BY <1>0, <1>8 DEF SteerTunDns
  <2> QED
    BY <1>0, <2>1
<1>9. CASE SteerPhysOff
  <2>1. /\ pc = "up_steer" /\ pc' = "up_save_dns" /\ UNCHANGED <<host, net, disk>>
        /\ dns'.resolv = dns.resolv /\ dns'.resolved = dns.resolved /\ dns'.tun = dns.tun
        /\ dns'.flag = IF dns.flag = "unknown" THEN "unknown" ELSE "no"
    BY <1>0, <1>9 DEF SteerPhysOff
  <2>2. /\ snap'.mode = "resolvectl" /\ snap'.phys = dns.flag
        /\ snap'.resolv = snap.resolv /\ snap'.default = snap.default
    BY <1>0, <1>9 DEF SteerPhysOff, Snapshots
  <2> QED
    BY ZenonT(30), <1>0, <2>1, <2>2 DEF DnsSteered
<1>10. CASE WriteResolv
  <2>1. /\ pc = "up_resolv" /\ pc' = "up_stop_resolved" /\ UNCHANGED <<host, net, disk>>
        /\ dns'.resolv = "placeholder" /\ dns'.resolved = dns.resolved
        /\ dns'.tun = dns.tun /\ dns'.flag = dns.flag
    BY <1>0, <1>10 DEF WriteResolv
  <2>2. /\ snap'.mode = "resolv" /\ snap'.stopped = snap.stopped
        /\ snap'.resolv = snap.resolv /\ snap'.default = snap.default
    BY <1>0, <1>10 DEF WriteResolv, Snapshots
  <2> QED
    BY ZenonT(60), <1>0, <2>1, <2>2
<1>11. CASE StopResolved
  <2>1. /\ pc = "up_stop_resolved" /\ pc' = "up_save_dns" /\ UNCHANGED <<host, net, disk>>
        /\ dns'.resolv = dns.resolv /\ dns'.flag = dns.flag
        /\ ~dns'.resolved /\ ~dns'.tun
    BY <1>0, <1>11 DEF StopResolved
  <2>2. /\ snap'.mode = snap.mode /\ snap'.stopped = dns.resolved
        /\ snap'.resolv = snap.resolv /\ snap'.default = snap.default
    BY <1>0, <1>11 DEF StopResolved, Snapshots
  <2> QED
    BY <1>0, <2>1, <2>2 DEF DnsSteered
<1>12. CASE SaveDnsMode
  BY <1>0, <1>12 DEF SaveDnsMode, DnsSteered
<1>13. CASE Tun2socksExits
  <2>1. UNCHANGED <<net, dns>> \/ (net' = LinkGone /\ dns' = LinkDnsGone)
    BY <1>13, DiesDns DEF Tun2socksExits, Daemons
  <2>2. DnsPlain' /\ UNCHANGED <<host, disk>> /\ pc' = "up_raised" /\ pc = "up_record"
    BY <1>0, <1>13, <2>1, DnsKept DEF Tun2socksExits
  <2> QED
    BY <1>0, <2>2
<1>14. CASE ApplyUpRaises \/ SnapshotWriteFails
  BY ZenonT(30), <1>0, <1>14 DEF ApplyUpRaises, SnapshotWriteFails
<1> QED
  BY <1>1, <1>2, <1>4, <1>5, <1>6, <1>7, <1>8, <1>9, <1>10, <1>11, <1>12, <1>13, <1>14 DEF ApplyUp

LEMMA DnsDown ==
  ASSUME UninterruptedAssumption, Known, NetInv, DnsInv, ApplyDown, Known', NetInv',
         UNCHANGED <<cmd, cand, stopped, outcome>>
  PROVE  DnsInv'
<1> USE DnsShapes DEF DnsInv, Genuine, Snap, Goto, Outside, Clearing,
      BeforeDns, Snapped, BeforePin, AfterPin, Ineffective, UninterruptedAssumption
<1>0. /\ TypeInv /\ outcome # "up"
      /\ pc \in Reopened \cup {"pkill", "down_t2", "down_v6"} => snap = disk.backup
      /\ UNCHANGED <<host, snap, disk>>
  BY TunnelBusy DEF Known, NetInv, ApplyDown, StopTun2socks, UnblockIpv6, RemoveArtefact,
     PolicyRemoved, ApplyDownRaises, DeleteTunDefault, DeleteLink, UnpinServer, RestoreDefault,
     RevertResolved, StartResolved, RestoreResolv
<1>1. CASE StopTun2socks \/ DeleteLink
  <2>1. UNCHANGED <<net, dns>> \/ (net' = LinkGone /\ dns' = LinkDnsGone)
    BY <1>1, DiesDns DEF StopTun2socks, DeleteLink, Daemons
  <2>2. /\ dns'.resolv = dns.resolv /\ dns'.resolved = dns.resolved /\ dns'.flag = dns.flag
        /\ ~dns.tun => ~dns'.tun
        /\ DnsPlain => DnsPlain'
    BY <1>0, <2>1, DnsKept
  <2>3. pc \in {"down_t2", "down_link"} /\ pc' \in {"down_v6", "down_dns", "down_unpin"}
    BY <1>1 DEF StopTun2socks, DeleteLink
  <2>4. Snap => Undoable(disk.backup)'
    BY <1>0, <2>2, <2>3, UndoableKept
  <2> QED
    BY <1>0, <2>2, <2>3, <2>4 DEF Reopened
<1>2. CASE UnblockIpv6 \/ RemoveArtefact \/ PolicyRemoved \/ DeleteTunDefault \/ UnpinServer
  <2>1. /\ pc \in {"down_v6", "down_policy", "down_tun_default", "down_unpin"}
        /\ pc' \in {"down_policy", "down_tun_default", "down_link", "down_default"}
        /\ UNCHANGED dns
    BY <1>2 DEF UnblockIpv6, RemoveArtefact, PolicyRemoved, DeleteTunDefault, UnpinServer
  <2> QED
    BY ZenonT(30), <1>0, <2>1 DEF DnsPlain, Undoable
<1>3. CASE ApplyDownRaises
  BY <1>3 DEF ApplyDownRaises, Known
<1>4. CASE RestoreDefault
  BY <1>0, <1>4 DEF RestoreDefault, Reopened, DnsPlain, Undoable
<1>5. CASE RevertResolved
  <2>1. /\ pc = "down_dns" /\ pc' = "down_done" /\ Snap /\ disk.backup.mode = "resolvectl"
        /\ dns'.resolv = dns.resolv /\ dns'.resolved = dns.resolved /\ ~dns'.tun
        /\ dns'.flag = IF disk.backup.phys = "unknown" THEN dns.flag ELSE disk.backup.phys
    BY <1>0, <1>5 DEF RevertResolved
  <2> QED
    BY <1>0, <2>1 DEF DnsPlain, Undoable
<1>6. CASE StartResolved
  <2>1. /\ pc = "down_dns" /\ pc' = "down_resolv"
        /\ Snap => disk.backup.mode # "resolvectl"
        /\ dns'.resolv = dns.resolv /\ dns'.flag = dns.flag /\ dns'.tun = dns.tun
    BY <1>0, <1>6 DEF StartResolved
  <2>2. dns'.resolved = (dns.resolved \/ (Snap /\ disk.backup.stopped))
    <3>1. (dns.resolved \/ (snap # NoSnap /\ snap.stopped)) \in BOOLEAN
      OBVIOUS
    <3>2. dns' = [dns EXCEPT !.resolved = dns.resolved \/ (snap # NoSnap /\ snap.stopped)]
      BY <1>6 DEF StartResolved
    <3>3. dns'.resolved = (dns.resolved \/ (snap # NoSnap /\ snap.stopped))
      BY <1>0, <3>1, <3>2
    <3> QED
      BY <1>0, <2>1, <3>3
  <2>3. dns'.resolved = host.resolved /\ dns'.flag = host.flag /\ ~dns'.tun
    BY <1>0, <2>1, <2>2 DEF DnsPlain, Undoable
  <2> QED
    BY <1>0, <2>1, <2>3 DEF DnsPlain, Undoable
<1>7. CASE RestoreResolv
  <2>1. /\ pc = "down_resolv" /\ pc' = "down_done"
        /\ dns'.resolved = dns.resolved /\ dns'.flag = dns.flag /\ dns'.tun = dns.tun
        /\ dns'.resolv =
             IF Snap /\ (disk.backup.resolv = "symlink"
                          \/ (disk.backup.resolv = "file" /\ disk.bak))
             THEN disk.backup.resolv ELSE dns.resolv
    BY <1>0, <1>7 DEF RestoreResolv
  <2> QED
    BY ZenonT(30), <1>0, <2>1 DEF DnsPlain, Undoable
<1> QED
  BY <1>1, <1>2, <1>3, <1>4, <1>5, <1>6, <1>7 DEF ApplyDown

LEMMA DnsSession ==
  ASSUME UninterruptedAssumption, Known, NetInv, DnsInv, Command, Known', NetInv',
         ~((ApplyUp \/ ApplyDown) /\ UNCHANGED <<cmd, cand, stopped, outcome>>)
  PROVE  DnsInv'
<1> USE DnsShapes DEF DnsInv, DnsPlain, Genuine, Undoable, Snap, Goto, Outside, Clearing,
      BeforeDns, Snapped, BeforePin, AfterPin, End
<1>0. TypeInv /\ (outcome = "up" => pc = "idle") /\ (pc \in Snapped => Snap)
  BY DEF Known, NetInv
<1>1. CASE CandidateFails \/ SpawnXray \/ RecordXray \/ SocksAnswers
  BY ZenonT(30), <1>0, <1>1 DEF CandidateFails, SpawnXray, RecordXray, SocksAnswers
<1>2. CASE SocksTimeout \/ StopXray
  <2>1. UNCHANGED <<host, net, dns, disk>>
    BY <1>0, <1>2, StopXraySame DEF SocksTimeout, StopXray
  <2> QED
    BY <1>0, <1>2, <2>1 DEF SocksTimeout, StopXray
<1>3. CASE NoneConnects \/ NoSystemctl
  BY <1>0, <1>3 DEF NoneConnects, NoSystemctl, NetInv
<1>4. CASE UnitsStopped \/ RollBack
  BY ZenonT(30), <1>0, <1>4 DEF UnitsStopped, RollBack
<1>5. CASE SaveActive
  BY <1>0, <1>5 DEF SaveActive, DnsSteered
<1>6. ASSUME NEW u \in Units, StopUnit(u) \/ StartUnit(u) PROVE DnsInv'
  BY ZenonT(30), <1>0, <1>6 DEF StopUnit, StartUnit
<1>7. CASE Pkill
  <2>1. /\ dns'.resolv = dns.resolv /\ dns'.resolved = dns.resolved /\ dns'.flag = dns.flag
        /\ ~dns.tun => ~dns'.tun
        /\ UNCHANGED <<host, disk, snap>> /\ outcome' # "up"
        /\ pc = "pkill" /\ pc' = IF cmd = "emergency" THEN "down_t2" ELSE "clear_pids"
    BY <1>0, <1>7, LinkDnsGoneFields DEF Pkill
  <2>2. pc' = "clear_pids" => ~Snap
    BY <2>1 DEF Known, NetInv
  <2> QED
    BY ZenonT(30), <1>0, <2>1, <2>2
<1>8. CASE TornDown \/ TeardownRaised \/ Measured \/ AllTested
  <2>1. pc # "down_raised"
    BY DEF Known
  <2> QED
    BY ZenonT(30), <1>0, <1>8, <2>1 DEF TornDown, TeardownRaised, Measured, AllTested
<1>9. CASE UnitsStarted
  BY ZenonT(30), <1>0, <1>9 DEF UnitsStarted, Report, NetInv
<1>10. CASE ClearPids \/ ClearActive \/ ClearBackup
  BY ZenonT(30), <1>0, <1>10 DEF ClearPids, ClearActive, ClearBackup
<1>11. CASE ClearResolvBak
  BY <1>0, <1>11 DEF ClearResolvBak, Report, NetInv
<1> QED
  BY <1>1, <1>2, <1>3, <1>4, <1>5, <1>6, <1>7, <1>8, <1>9, <1>10, <1>11 DEF Command

\* No command moves, and at most drkvl0 goes.
LEMMA DnsStill ==
  ASSUME TypeInv, DnsInv, UNCHANGED <<host, disk, pc, snap, outcome>>,
         dns'.resolv = dns.resolv, dns'.resolved = dns.resolved, dns'.flag = dns.flag,
         ~dns.tun => ~dns'.tun,
         Tun \in net'.defaults => dns' = dns /\ Tun \in net.defaults,
         DnsPlain => DnsPlain',
         Tun \in net'.defaults /\ DnsSteered => DnsSteered'
  PROVE  DnsInv'
<1>1. /\ Snap /\ pc \notin Snapped => Undoable(disk.backup)'
      /\ pc = "up_save_dns" => Undoable(snap)'
  BY UndoableKept DEF DnsInv
<1>2. /\ Snap' = Snap
      /\ Genuine(disk.backup)' = Genuine(disk.backup)
      /\ Genuine(snap)' = Genuine(snap)
  BY DEF Snap, Genuine
<1>3. pc = "up_steer" /\ Tun \in net'.defaults => dns'.tun
  BY DEF DnsInv
<1> QED
  BY <1>1, <1>2, <1>3 DEF DnsInv

LEMMA DnsElse ==
  ASSUME UninterruptedAssumption, Known, NetInv, DnsInv, Known', NetInv',
         User \/ (Environment /\ UNCHANGED localVars) \/ Crash \/ Interrupt \/ Reboot \/ UNCHANGED vars
  PROVE  DnsInv'
<1> USE DnsShapes DEF DnsInv, Genuine, Snap, Goto, Outside, Clearing,
      BeforeDns, Snapped, BeforePin, AfterPin
<1>0. TypeInv
  BY DEF Known
<1>1. CASE User
  <2> USE DEF DnsPlain, Undoable, DnsSteered
  <2>1. CASE \E C \in SUBSET Servers : UpBegins(C) \/ FullBegins(C)
    <3>1. ~Snap
      BY <2>1 DEF UpBegins, FullBegins, NetInv, Begin
    <3> QED
      BY <1>0, <2>1, <3>1 DEF UpBegins, FullBegins, Begin
  <2>2. CASE DownNotRunning \/ DownBegins \/ NothingToClean
    BY ZenonT(30), <1>0, <2>2 DEF DownNotRunning, DownBegins, NothingToClean, Begin, End
  <2>3. CASE EmergencyBegins
    BY <1>0, <2>3 DEF EmergencyBegins, Leftovers, Begin
  <2> QED
    BY <1>1, <2>1, <2>2, <2>3 DEF User
<1>2. CASE (XrayBinds \/ TunAppears) /\ UNCHANGED localVars
  <2>1. UNCHANGED <<host, dns, disk, pc, snap, outcome>> /\ net'.defaults = net.defaults
    BY <1>0, <1>2, Shapes DEF XrayBinds, TunAppears, localVars
  <2> QED
    BY <1>0, <2>1, DnsStill DEF DnsSteered, DnsPlain
<1>3. ASSUME NEW d \in Daemons, DaemonDies(d) \/ OrphanEnds(d) \/ DyingEnds(d),
             UNCHANGED localVars
      PROVE  DnsInv'
  <2>1. UNCHANGED <<net, dns>> \/ (net' = LinkGone /\ dns' = LinkDnsGone)
    BY <1>3, EndsAlone
  <2>2. UNCHANGED <<host, disk, pc, cmd, snap, outcome>>
    BY <1>3, EndsAlone DEF localVars
  <2>3. /\ dns'.resolv = dns.resolv /\ dns'.resolved = dns.resolved /\ dns'.flag = dns.flag
        /\ ~dns.tun => ~dns'.tun
        /\ Tun \in net'.defaults => dns' = dns /\ Tun \in net.defaults
        /\ DnsPlain => DnsPlain'
        /\ Tun \in net'.defaults /\ DnsSteered => DnsSteered'
    BY <1>0, <2>1, <2>2, DnsKept
  <2> QED
    BY <1>0, <2>2, <2>3, DnsStill
<1>4. CASE UNCHANGED vars
  <2>1. UNCHANGED <<host, dns, disk, pc, snap, outcome, net>>
    BY <1>4 DEF vars, localVars
  <2> QED
    BY <1>0, <2>1, DnsStill DEF DnsSteered, DnsPlain
<1> QED
  BY <1>1, <1>2, <1>3, <1>4
     DEF Environment, LinkRenew, Crash, Interrupt, Reboot, UninterruptedAssumption

-----------------------------------------------------------------------------
\* Units: the running command, or ACTIVE between two commands, knows what is stopped.
Stopped == IF pc = "idle" THEN disk.active ELSE stopped

UnitsInv ==
  /\ Stopped \subseteq host.units
  /\ clash = host.units \ Stopped
  /\ pc \in {"idle", "pick", "record_xray", "await_socks"} /\ cmd # "full" => stopped = {}
  /\ pc \in Clearing \ {"start_clash"} /\ cmd \in {"up", "down", "full"} => stopped = {}
  /\ pc = "stop_clash" /\ "systemctl" \notin host.tools => stopped = {}
  /\ cmd \in {"up", "full"} \/ pc \in {"clear_backup", "clear_bak"} => disk.active = {}
  /\ pc = "start_clash" /\ cmd \in {"emergency", "sweep"} => disk.active = {}
  /\ pc = "idle" /\ ~Snap => disk.active = {}
  /\ pc = "idle" <=> cmd = "none"
  /\ cmd = "sweep" => pc \in {"stop_xray", "pkill"} \cup Clearing
  /\ disk.bak => Snap \/ pc \in {"up_snapshot", "clear_bak"}
  /\ pc = "idle" /\ ~Snap /\ "systemctl" \in host.tools => AllStopped

\* apply_up and apply_down touch neither the units nor ACTIVE; their own file is
\* written only between two snapshots.
LEMMA TunnelUnits ==
  ASSUME UninterruptedAssumption, TypeInv, TypeInv', ApplyUp \/ ApplyDown
  PROVE  /\ UNCHANGED <<host, clash>> /\ disk'.active = disk.active
         /\ pc \notin {"idle", "stop_clash", "stop_xray", "pkill"} \cup Clearing
         /\ pc' \notin {"idle", "stop_clash", "pick", "record_xray", "await_socks"} \cup Clearing
         /\ disk'.bak => disk.bak \/ pc' = "up_snapshot"
         /\ Snap => Snap'
         /\ pc = "up_snapshot" => Snap'
<1> USE DnsShapes DEF Goto, Clearing, Snap, Snapped, BeforePin, AfterPin
<1>1. CASE TakeSnapshot
  <2>1. /\ pc = "up_dev" /\ pc' = "up_snapshot" /\ UNCHANGED <<host, clash>>
        /\ disk'.backup = disk.backup /\ disk'.active = disk.active
    BY <1>1 DEF TakeSnapshot
  <2> QED
    BY <2>1
<1>2. CASE WriteSnapshot \/ SaveDnsMode
  <2>1. CASE WriteSnapshot
    BY <2>1 DEF WriteSnapshot
  <2>2. CASE SaveDnsMode
    BY <2>2 DEF SaveDnsMode
  <2> QED
    BY <1>2, <2>1, <2>2
<1>3. ASSUME UNCHANGED <<host, clash, disk>>,
             pc \notin {"idle", "stop_clash", "stop_xray", "pkill", "up_snapshot"} \cup Clearing,
             pc' \notin {"idle", "stop_clash", "pick", "record_xray", "await_socks"} \cup Clearing
      PROVE  /\ UNCHANGED <<host, clash>> /\ disk'.active = disk.active
             /\ pc \notin {"idle", "stop_clash", "stop_xray", "pkill"} \cup Clearing
             /\ pc' \notin {"idle", "stop_clash", "pick", "record_xray", "await_socks"} \cup Clearing
             /\ disk'.bak => disk.bak \/ pc' = "up_snapshot"
             /\ Snap => Snap'
             /\ pc = "up_snapshot" => Snap'
  BY <1>3
<1>4. ASSUME NEW a, NEW p, NEW q,
             Install(a, p, q), <<p, q>> \in {<<"up_main", "up_spawn">>, <<"up_verify", "up_verify">>,
               <<"up_table", "up_direct">>, <<"up_direct", "up_marks">>,
               <<"up_marks", "up_verify_final">>}
      PROVE  /\ UNCHANGED <<host, clash, disk>>
             /\ pc \notin {"idle", "stop_clash", "stop_xray", "pkill", "up_snapshot"} \cup Clearing
             /\ pc' \notin {"idle", "stop_clash", "pick", "record_xray", "await_socks"} \cup Clearing
  BY <1>4 DEF Install
<1>5. CASE ApplyUp /\ ~TakeSnapshot /\ ~WriteSnapshot /\ ~SaveDnsMode
  <2>1. /\ UNCHANGED <<host, clash, disk>>
        /\ pc \notin {"idle", "stop_clash", "stop_xray", "pkill", "up_snapshot"} \cup Clearing
        /\ pc' \notin {"idle", "stop_clash", "pick", "record_xray", "await_socks"} \cup Clearing
    BY <1>4, <1>5 DEF ApplyUp, SpawnTun2socks, RecordTun2socks,
     DevAppeared, BringLinkUp, PinServer, PinVerified, DeleteDefault, DefaultsDeleted,
     AddTunDefault, PinStillHolds, BlockIpv6, SteerTunDns, FallBackToResolv, SteerPhysOff,
     WriteResolv, StopResolved, Tun2socksExits, ApplyUpRaises,
     SnapshotWriteFails, UninterruptedAssumption
  <2> QED
    BY <1>3, <2>1
<1>6. CASE ApplyDown
  <2>1. /\ UNCHANGED <<host, clash, disk>>
        /\ pc \notin {"idle", "stop_clash", "stop_xray", "pkill", "up_snapshot"} \cup Clearing
        /\ pc' \notin {"idle", "stop_clash", "pick", "record_xray", "await_socks"} \cup Clearing
    BY <1>6 DEF ApplyDown, StopTun2socks, UnblockIpv6, RemoveArtefact, PolicyRemoved,
     ApplyDownRaises, DeleteTunDefault, DeleteLink, UnpinServer, RestoreDefault, RevertResolved,
     StartResolved, RestoreResolv
  <2> QED
    BY <1>3, <2>1
<1> QED
  BY <1>1, <1>2, <1>5, <1>6

LEMMA UnitsTunnel ==
  ASSUME UninterruptedAssumption, Known, NetInv, UnitsInv, ApplyUp \/ ApplyDown, Known', NetInv',
         UNCHANGED <<cmd, cand, stopped, outcome>>
  PROVE  UnitsInv'
<1>1. TypeInv /\ TypeInv'
  BY DEF Known
<1> QED
  BY <1>1, TunnelUnits DEF UnitsInv, Stopped, Clearing, AllStopped

LEMMA UnitsSession ==
  ASSUME UninterruptedAssumption, Known, NetInv, UnitsInv, Command, Known', NetInv',
         ~((ApplyUp \/ ApplyDown) /\ UNCHANGED <<cmd, cand, stopped, outcome>>)
  PROVE  UnitsInv'
<1> USE DnsShapes DEF UnitsInv, Stopped, Clearing, Snap, Goto, End
<1>0. /\ TypeInv /\ pc # "down_raised"
      /\ cmd \in {"none", "up", "down", "emergency", "sweep", "full"}
      /\ pc = "pick" => AllStopped
      /\ pc \in Undone => AllStopped
      /\ pc = "pkill" => cmd \in {"emergency", "sweep"}
      /\ pc \in {"up_done"} \cup Outside => cmd \in {"up", "full"}
      /\ pc = "up_done" => Snap
      /\ pc \in {"stop_clash", "clear_bak"} => ~Snap
      /\ pc \in Outside /\ cmd = "up" => ~Snap
      /\ pc = "start_clash" /\ cmd = "emergency" => ~Snap
      /\ cmd = "sweep" => ~Snap
  BY DEF Known, NetInv, TypeInv, TypeOK
<1>1. CASE CandidateFails \/ SpawnXray
  BY <1>0, <1>1 DEF CandidateFails, SpawnXray
<1>2. CASE RecordXray \/ SocksAnswers \/ SocksTimeout
  BY <1>0, <1>2 DEF RecordXray, SocksAnswers, SocksTimeout
<1>3. CASE NoneConnects
  BY <1>0, <1>3 DEF NoneConnects, AllStopped, Outside
<1>4. CASE NoSystemctl
  BY <1>0, <1>4 DEF NoSystemctl, Outside
<1>5. CASE UnitsStopped \/ RollBack \/ Measured \/ AllTested
  BY <1>0, <1>5 DEF UnitsStopped, RollBack, Measured, AllTested, Outside
<1>6. CASE SaveActive
  BY <1>0, <1>6 DEF SaveActive
<1>7. ASSUME NEW u \in Units, StopUnit(u) PROVE UnitsInv'
  <2>1. /\ pc = "stop_clash" /\ u \in clash \ stopped /\ stopped' = stopped \cup {u}
        /\ clash' = clash \ {u}
        /\ UNCHANGED <<host, procVars, disk, pc, cmd>>
        /\ "systemctl" \in host.tools
    BY <1>7 DEF StopUnit, Ineffective, UninterruptedAssumption
  <2> QED
    BY <1>0, <2>1
<1>8. ASSUME NEW u \in Units, StartUnit(u) PROVE UnitsInv'
  <2>1. /\ pc = "start_clash" /\ u \in stopped /\ stopped' = stopped \ {u}
        /\ clash' = clash \cup {u}
        /\ UNCHANGED <<host, procVars, disk, pc, cmd>>
    BY <1>8 DEF StartUnit, Ineffective, UninterruptedAssumption
  <2> QED
    BY ZenonT(30), <1>0, <2>1
<1>9. CASE StopXray \/ Pkill
  BY <1>0, <1>9 DEF StopXray, Pkill
<1>10. CASE TornDown \/ TeardownRaised
  BY <1>0, <1>10 DEF TornDown, TeardownRaised
<1>11. CASE UnitsStarted
  BY <1>0, <1>11 DEF UnitsStarted, Undone, AllStopped
<1>12. CASE ClearPids \/ ClearActive \/ ClearBackup
  BY <1>0, <1>12 DEF ClearPids, ClearActive, ClearBackup
<1>13. CASE ClearResolvBak
  BY <1>0, <1>13 DEF ClearResolvBak, Undone, AllStopped
<1> QED
  BY <1>1, <1>2, <1>3, <1>4, <1>5, <1>6, <1>7, <1>8, <1>9, <1>10, <1>11, <1>12, <1>13 DEF Command

LEMMA UnitsElse ==
  ASSUME UninterruptedAssumption, Known, NetInv, UnitsInv, Known', NetInv',
         User \/ (Environment /\ UNCHANGED localVars) \/ Crash \/ Interrupt \/ Reboot \/ UNCHANGED vars
  PROVE  UnitsInv'
<1> USE DEF UnitsInv, Stopped, Clearing, Snap
<1>1. CASE \E C \in SUBSET Servers : UpBegins(C) \/ FullBegins(C)
  <2>1. ~Snap
    BY <1>1 DEF UpBegins, FullBegins, NetInv, Begin
  <2> QED
    BY <1>1, <2>1 DEF UpBegins, FullBegins, Begin
<1>2. CASE DownNotRunning \/ NothingToClean
  BY <1>2 DEF DownNotRunning, NothingToClean, End, AllStopped
<1>3. CASE DownBegins
  BY <1>3 DEF DownBegins, Begin
<1>4. CASE EmergencyBegins
  BY <1>4 DEF EmergencyBegins, Leftovers, Begin
<1>5. CASE (XrayBinds \/ TunAppears) /\ UNCHANGED localVars
  BY <1>5 DEF XrayBinds, TunAppears, localVars, AllStopped
<1>6. ASSUME NEW d \in Daemons, DaemonDies(d) \/ OrphanEnds(d) \/ DyingEnds(d),
             UNCHANGED localVars
      PROVE  UnitsInv'
  <2>1. AllStopped => AllStopped'
    BY <1>6 DEF DaemonDies, OrphanEnds, DyingEnds, Dies, AllStopped, Daemons
  <2> QED
    BY <1>6, <2>1, EndsAlone DEF localVars
<1>7. CASE UNCHANGED vars
  BY <1>7 DEF vars, localVars, AllStopped
<1> QED
  BY <1>1, <1>2, <1>3, <1>4, <1>5, <1>6, <1>7
     DEF User, Environment, LinkRenew, Crash, Interrupt, Reboot, UninterruptedAssumption

-----------------------------------------------------------------------------
\* The whole invariant and what follows from it.
PromiseInv == Ground /\ NetInv /\ DnsInv /\ UnitsInv

LEMMA InitPromise == UninterruptedAssumption /\ Init => PromiseInv
<1> SUFFICES ASSUME UninterruptedAssumption, Init PROVE PromiseInv
  OBVIOUS
<1>1. WayBackAssumption
  BY DEF UninterruptedAssumption, WayBackAssumption
<1>2. Ground
  BY <1>1, InitLoop, InitBlock, InitWayBack, InitDaemons DEF Ground
<1>3. Known
  BY <1>2, KnownNow
<1>4. pc = "idle" /\ cmd = "none" /\ outcome = "none" /\ ~Snap /\ ~disk.bak /\ stopped = {}
      /\ disk.active = {} /\ orphans = {} /\ proc["xray"] = "none" /\ proc["tun2socks"] = "none"
  BY DEF Init, HostInit, Snap, Daemons
<1>5. NetClean
  <2>1. net = PlainNet(host) /\ host \in HostSetup /\ PhysDefaults # {}
    BY <1>3, <1>4, Shapes DEF Init, HostInit, Known
  <2> QED
    BY <1>3, <2>1, Shapes DEF NetClean, NetRestored, PlainNet, HostSetup, Known
<1>6. NetInv
  BY <1>4, <1>5 DEF NetInv, NetClean, PinsAccounted, Outside, Undone, Clearing, Blocked, Reopened,
     BeforePin, Successes
<1>7. DnsPlain
  BY DEF Init, HostInit, PlainDns, DnsPlain
<1>8. DnsInv
  BY <1>4, <1>7 DEF DnsInv, Outside, BeforeDns, Clearing, Snapped, BeforePin, AfterPin
<1>9. UnitsInv
  BY <1>4 DEF UnitsInv, Stopped, Clearing, AllStopped, Daemons, Init, HostInit
<1> QED
  BY <1>2, <1>6, <1>8, <1>9 DEF PromiseInv

LEMMA NextPromise == UninterruptedAssumption /\ PromiseInv /\ [Next]_vars => PromiseInv'
<1> SUFFICES ASSUME UninterruptedAssumption, PromiseInv, [Next]_vars PROVE PromiseInv'
  OBVIOUS
<1>1. Ground /\ Ground' /\ Known /\ Known' /\ NetInv /\ DnsInv /\ UnitsInv
  BY GroundNext, KnownNow, KnownNext DEF PromiseInv
<1>2. NetInv'
  BY <1>1, NetUp, NetDown, NetSession, NetElse DEF Next, Command
<1>3. DnsInv'
  BY <1>1, <1>2, DnsUp, DnsDown, DnsSession, DnsElse DEF Next, Command
<1>4. UnitsInv'
  BY <1>1, <1>2, UnitsTunnel, UnitsSession, UnitsElse DEF Next, Command
<1> QED
  BY <1>1, <1>2, <1>3, <1>4 DEF PromiseInv

\* A plain resolver is the one that was found, field by field.
LEMMA PlainAgain == TypeInv /\ NetClean /\ DnsPlain => Untouched
  BY DnsShapes DEF NetClean, Untouched, DnsPlain, PlainDns

\* A command that reports that it took the connection down, could not bring it up, or
\* how fast the profiles are, has put back everything drkvl ever changes, on every
\* machine with a default route, ip6tables and iptables, whatever daemon died when and
\* whichever statement raised: routes, pin, IPv6, resolver, units and daemons.
THEOREM FoundAgain ==
  ASSUME UninterruptedAssumption
  PROVE  Spec => []AsFound
<1>1. PromiseInv => AsFound
  <2> SUFFICES ASSUME PromiseInv, outcome \in Successes
               PROVE  /\ Untouched /\ clash = host.units
                      /\ \A d \in Daemons : proc[d] = "none" /\ d \notin orphans
    BY DEF AsFound, Successes
  <2>1. pc = "idle" /\ ~Snap /\ orphans = {} /\ NetClean /\ DnsPlain /\ disk.active = {}
    BY DEF PromiseInv, NetInv, DnsInv, UnitsInv
  <2>2. clash = host.units
    BY <2>1 DEF PromiseInv, UnitsInv, Stopped
  <2>3. TypeInv /\ \A d \in Daemons : proc[d] = "none"
    BY DEF PromiseInv, Ground, DaemonsInv, StoppedWhenOver, AllStopped, Successes
  <2> QED
    BY <2>1, <2>2, <2>3, PlainAgain
<1> QED
  BY <1>1, InitPromise, NextPromise, PTL DEF Spec

\* The host route to a server never outlives the BACKUP that names the server.
THEOREM PinsKnown ==
  ASSUME UninterruptedAssumption
  PROVE  Spec => []PinsAccounted
<1>1. PromiseInv => PinsAccounted
  BY DEF PromiseInv, NetInv
<1> QED
  BY <1>1, InitPromise, NextPromise, PTL DEF Spec

\* The user's resolv.conf is never lost: as long as drkvl's own lies in its place,
\* BACKUP says what it was and RESOLV_BAK holds it if it was a file.
THEOREM ResolvRecoverable ==
  ASSUME UninterruptedAssumption
  PROVE  Spec => []ResolvKept
<1>1. PromiseInv => ResolvKept
  <2> SUFFICES ASSUME PromiseInv, dns.resolv = "placeholder" PROVE Snap /\ Genuine(disk.backup)
    BY DEF ResolvKept, Genuine
  <2>1. TypeInv
    BY DEF PromiseInv, Ground, DaemonsInv
  <2>2. ~DnsPlain
    BY <2>1, DnsShapes DEF DnsPlain
  <2> QED
    BY <2>2 DEF PromiseInv, DnsInv
<1> QED
  BY <1>1, InitPromise, NextPromise, PTL DEF Spec

-----------------------------------------------------------------------------
\* Three statements write or delete BACKUP.
LEMMA BackupStays ==
  ASSUME UninterruptedAssumption, TypeInv, [Next]_vars, ~WriteSnapshot, ~SaveDnsMode, ~ClearBackup
  PROVE  disk'.backup = disk.backup
<1> USE Shapes
<1>1. CASE ApplyUp
  <2>1. CASE TakeSnapshot
    BY <2>1 DEF TakeSnapshot
  <2>2. ASSUME NEW a, NEW p, NEW q, Install(a, p, q) PROVE UNCHANGED disk
    BY <2>2 DEF Install
  <2>3. CASE ~TakeSnapshot
    BY <1>1, <2>2, <2>3 DEF ApplyUp, SpawnTun2socks, RecordTun2socks,
       DevAppeared, BringLinkUp, PinServer, PinVerified, DeleteDefault, DefaultsDeleted,
       AddTunDefault, PinStillHolds, BlockIpv6, SteerTunDns, FallBackToResolv, SteerPhysOff,
       WriteResolv, StopResolved, Tun2socksExits, ApplyUpRaises,
       SnapshotWriteFails, UninterruptedAssumption
  <2> QED
    BY <2>1, <2>3
<1>2. CASE ApplyDown
  BY <1>2 DEF ApplyDown, StopTun2socks, UnblockIpv6, RemoveArtefact, PolicyRemoved,
     ApplyDownRaises, DeleteTunDefault, DeleteLink, UnpinServer, RestoreDefault, RevertResolved,
     StartResolved, RestoreResolv
<1>3. CASE SaveActive \/ ClearPids \/ ClearActive \/ ClearResolvBak
  BY <1>3 DEF SaveActive, ClearPids, ClearActive, ClearResolvBak
<1>4. ASSUME NEW u \in Units, StopUnit(u) \/ StartUnit(u) PROVE UNCHANGED disk
  BY <1>4 DEF StopUnit, StartUnit
<1>5. CASE Command /\ ~ApplyUp /\ ~ApplyDown /\ ~SaveActive /\ ~ClearPids
          /\ ~ClearActive /\ ~ClearResolvBak
  BY <1>4, <1>5 DEF Command, CandidateFails, SpawnXray, RecordXray, SocksAnswers, SocksTimeout,
     NoneConnects, UnitsStopped, NoSystemctl, RollBack, StopXray, Pkill, TornDown,
     TeardownRaised, UnitsStarted, Measured, AllTested
<1>6. CASE User
  BY <1>6 DEF User, UpBegins, FullBegins, DownNotRunning, DownBegins, NothingToClean,
     EmergencyBegins
<1>7. CASE Environment
  BY <1>7 DEF Environment, XrayBinds, TunAppears, DaemonDies, OrphanEnds,
     DyingEnds, LinkRenew
<1>8. CASE UNCHANGED vars
  BY <1>8 DEF vars
<1> QED
  BY <1>1, <1>2, <1>3, <1>5, <1>6, <1>7, <1>8
     DEF Next, Crash, Interrupt, Reboot, UninterruptedAssumption

\* While anything is left to undo, BACKUP is neither deleted nor overwritten by a
\* description of another machine state: a second write of it says the same of the
\* route, the server and resolv.conf.
THEOREM BackupKept ==
  ASSUME UninterruptedAssumption
  PROVE  Spec => SnapshotNotClobbered
<1>1. PromiseInv /\ [Next]_vars =>
        [disk.backup # NoSnap /\ ~Untouched =>
           /\ disk.backup' # NoSnap
           /\ \A f \in {"default", "resolv", "server"} : disk.backup'[f] = disk.backup[f]]_vars
  <2> SUFFICES ASSUME PromiseInv, [Next]_vars, Snap, ~Untouched
               PROVE  /\ disk'.backup # NoSnap
                      /\ disk'.backup.default = disk.backup.default
                      /\ disk'.backup.resolv = disk.backup.resolv
                      /\ disk'.backup.server = disk.backup.server
    BY DEF Snap
  <2>1. Known /\ TypeInv /\ NetInv /\ DnsInv /\ ~(NetClean /\ DnsPlain)
    BY KnownNow, PlainAgain DEF PromiseInv, Known
  <2>2. ~WriteSnapshot /\ ~ClearBackup
    BY <2>1 DEF NetInv, DnsInv, WriteSnapshot, ClearBackup, Goto, Outside, Undone, Clearing
  <2>3. CASE SaveDnsMode
    <3>1. pc = "up_save_dns" /\ disk'.backup = snap /\ snap # NoSnap
      BY <2>1, <2>3, Shapes DEF SaveDnsMode, Goto, AfterPin
    <3>2. snap.server = disk.backup.server /\ snap.default = disk.backup.default
      BY <2>1, <3>1 DEF Known, DnsInv, Snapped, AfterPin
    <3>3. snap.resolv = disk.backup.resolv
      BY <2>1, <3>1 DEF DnsInv, Snapped, AfterPin, Genuine
    <3> QED
      BY <3>1, <3>2, <3>3
  <2>4. CASE ~SaveDnsMode
    BY <2>1, <2>2, <2>4, BackupStays DEF Snap
  <2> QED
    BY <2>3, <2>4
<1> QED
  BY <1>1, InitPromise, NextPromise, PTL DEF Spec, SnapshotNotClobbered

-----------------------------------------------------------------------------
\* The refinement of Connection, as far as safety goes.
Systemd == \A h \in Hosts : "systemctl" \in h.tools

\* Between two commands BACKUP tells a sealed or cut machine from a plain one.
LEMMA RestingMode ==
  ASSUME Known, NetInv, UnitsInv, pc = "idle"
  PROVE  /\ Mode = Resting
         /\ ~Snap => Mode = "plain"
         /\ Snap => Mode = IF Tun \in net.defaults THEN "sealed" ELSE "cut"
<1>1. net.defaults \subseteq Routes \cup {Tun} /\ Tun \notin Routes
  BY Shapes DEF Known
<1>2. Mode = Resting
  BY DEF Mode, UnitsInv
<1>3. CASE ~Snap
  BY <1>2, <1>3 DEF NetInv, NetClean, NetRestored, Resting
<1>4. CASE Snap
  <2>1. PhysDefaults = {} /\ net.ip6 # "open"
    BY <1>4 DEF NetInv
  <2>2. net.defaults = IF Tun \in net.defaults THEN {Tun} ELSE {}
    BY <1>1, <2>1 DEF PhysDefaults
  <2> QED
    BY <1>2, <1>4, <2>1, <2>2 DEF Resting
<1> QED
  BY <1>2, <1>3, <1>4

LEMMA RestingModeNext ==
  Known' /\ NetInv' /\ UnitsInv' /\ pc' = "idle" =>
    /\ ~Snap' => Mode' = "plain"
    /\ Snap' => Mode' = IF Tun \in net'.defaults THEN "sealed" ELSE "cut"
<1>1. Known /\ NetInv /\ UnitsInv /\ pc = "idle" =>
        /\ ~Snap => Mode = "plain"
        /\ Snap => Mode = IF Tun \in net.defaults THEN "sealed" ELSE "cut"
  BY RestingMode
<1>2. (Known /\ NetInv /\ UnitsInv /\ pc = "idle")' =>
        (/\ ~Snap => Mode = "plain"
         /\ Snap => Mode = IF Tun \in net.defaults THEN "sealed" ELSE "cut")'
  BY <1>1, PTL
<1> QED
  BY <1>2

\* A command keeps its name until it ends, and only up ends with a BACKUP.
LEMMA CommandNamed ==
  ASSUME UninterruptedAssumption, Known, NetInv, Command
  PROVE  /\ pc # "idle"
         /\ pc' # "idle" => cmd' = cmd
         /\ pc' = "idle" /\ cmd # "up" => ~Snap'
<1> USE DEF Goto, End, Snap
<1>1. CASE (ApplyUp \/ ApplyDown) /\ UNCHANGED <<cmd, cand, stopped, outcome>>
  BY <1>1, TunnelBusy
<1>2. CASE CandidateFails \/ SpawnXray \/ RecordXray \/ SocksAnswers \/ SocksTimeout
  BY <1>2 DEF CandidateFails, SpawnXray, RecordXray, SocksAnswers, SocksTimeout
<1>3. CASE NoneConnects \/ NoSystemctl \/ SaveActive
  BY <1>3 DEF NoneConnects, NoSystemctl, SaveActive, NetInv
<1>4. CASE UnitsStopped \/ RollBack \/ Measured \/ AllTested \/ StopXray \/ Pkill
  BY <1>4 DEF UnitsStopped, RollBack, Measured, AllTested, StopXray, Pkill
<1>5. ASSUME NEW u \in Units, StopUnit(u) \/ StartUnit(u)
      PROVE  pc # "idle" /\ pc' # "idle" /\ cmd' = cmd
  BY <1>5 DEF StopUnit, StartUnit
<1>6. CASE TornDown \/ TeardownRaised
  BY <1>6 DEF TornDown, TeardownRaised, Known
<1>7. CASE UnitsStarted
  BY <1>7 DEF UnitsStarted, NetInv
<1>8. CASE ClearPids \/ ClearActive \/ ClearBackup
  BY <1>8 DEF ClearPids, ClearActive, ClearBackup
<1>9. CASE ClearResolvBak
  <2>1. disk'.backup = disk.backup
    BY <1>9, Shapes DEF ClearResolvBak, Known
  <2> QED
    BY <1>9, <2>1 DEF ClearResolvBak, NetInv
<1> QED
  BY <1>1, <1>2, <1>3, <1>4, <1>5, <1>6, <1>7, <1>8, <1>9 DEF Command

LEMMA ModeStep ==
  ASSUME UninterruptedAssumption, Systemd, PromiseInv, [Next]_vars, PromiseInv'
  PROVE  [Promise!Next]_Mode
<1>1. Known /\ Known' /\ NetInv /\ NetInv' /\ UnitsInv /\ UnitsInv' /\ TypeInv
  BY KnownNow, KnownNext DEF PromiseInv, Known
<1>2. CASE Command
  <2>1. pc # "idle"
    BY <1>1, <1>2, CommandNamed
  <2>2. CASE pc' # "idle"
    BY <1>1, <1>2, <2>1, <2>2, CommandNamed DEF Mode
  <2>3. CASE pc' = "idle" /\ cmd = "up"
    <3>1. Mode = "connecting" /\ Mode' \in {"plain", "sealed", "cut"}
      BY <1>1, <2>1, <2>3, RestingModeNext DEF Mode
    <3> QED
      BY <3>1 DEF Promise!Next, Promise!ConnectEnds
  <2>4. CASE pc' = "idle" /\ cmd # "up"
    <3>1. Mode \in {"disconnecting", "measuring"} /\ Mode' = "plain"
      BY <1>1, <1>2, <2>1, <2>4, RestingModeNext, CommandNamed DEF Mode
    <3> QED
      BY <3>1 DEF Promise!Next, Promise!Disconnected, Promise!Measured
  <2> QED
    BY <2>2, <2>3, <2>4
<1>3. CASE User
  <2>1. CASE \E C \in SUBSET Servers : UpBegins(C) \/ FullBegins(C)
    <3>1. Mode = "plain" /\ Mode' \in {"connecting", "measuring"}
      BY <1>1, <2>1, RestingMode DEF UpBegins, FullBegins, Begin, NetInv, Mode
    <3> QED
      BY <3>1 DEF Promise!Next, Promise!Connect, Promise!Measure
  <2>2. CASE DownNotRunning \/ NothingToClean
    <3>1. pc = "idle" /\ pc' = "idle" /\ UNCHANGED <<net, disk>>
      BY <2>2 DEF DownNotRunning, NothingToClean, End
    <3> QED
      BY <1>1, <3>1, RestingMode, RestingModeNext DEF Snap
  <2>3. CASE DownBegins \/ EmergencyBegins
    <3>1. pc = "idle" /\ "systemctl" \in host.tools /\ (~Snap => ~disk.bak)
      BY <1>1, <2>3 DEF DownBegins, EmergencyBegins, Begin, Systemd, TypeInv, TypeOK, HostTypeOK,
         UnitsInv
    <3>2. Snap
      BY <1>1, <2>3, <3>1 DEF DownBegins, EmergencyBegins, UnitsInv, NetInv, NetClean, NetRestored,
         AllStopped, Daemons, Running, DevExists, Leftovers
    <3>3. Mode \in {"sealed", "cut"}
      BY <1>1, <3>1, <3>2, RestingMode
    <3>4. Mode' = "disconnecting"
      BY <2>3 DEF DownBegins, EmergencyBegins, Begin, Mode
    <3> QED
      BY <3>3, <3>4 DEF Promise!Next, Promise!Disconnect
  <2> QED
    BY <1>3, <2>1, <2>2, <2>3 DEF User
<1>4. CASE Environment /\ UNCHANGED localVars
  <2>1. pc' = pc /\ cmd' = cmd /\ disk' = disk
    BY <1>4 DEF localVars, Environment, XrayBinds, TunAppears, DaemonDies, OrphanEnds,
     DyingEnds, LinkRenew
  <2>2. CASE pc # "idle"
    BY <2>1, <2>2 DEF Mode
  <2>3. CASE pc = "idle"
    <3>1. net'.defaults \subseteq net.defaults
      BY ZenonT(30), <1>1, <1>4, Shapes DEF Environment, XrayBinds, TunAppears, DaemonDies, OrphanEnds,
         DyingEnds, Dies, Frees, LinkGone, LinkRenew, UninterruptedAssumption
    <3>2. Mode' = Mode \/ (Mode = "sealed" /\ Mode' = "cut")
      BY <1>1, <2>1, <2>3, <3>1, RestingMode, RestingModeNext DEF Snap
    <3> QED
      BY <3>2 DEF Promise!Next, Promise!TunnelBreaks
  <2> QED
    BY <2>2, <2>3
<1>5. CASE UNCHANGED vars
  BY <1>5 DEF vars, localVars, Mode, Resting, PhysDefaults
<1> QED
  BY <1>2, <1>3, <1>4, <1>5 DEF Next, Crash, Interrupt, Reboot, UninterruptedAssumption

\* drkvl keeps the promise of Connection, step by step: only a plain machine is
\* connected or measured, no command but down and emergency-off makes a sealed one
\* plain again, and each of these always does.  That every command ends is left to TLC.
THEOREM ConnectionSafe ==
  ASSUME UninterruptedAssumption, Systemd
  PROVE  Spec => Promise!Init /\ [][Promise!Next]_Mode
<1>1. PromiseInv /\ Init => Promise!Init
  BY KnownNow, RestingMode DEF PromiseInv, Init, HostInit, Snap, Promise!Init
<1>2. PromiseInv /\ [Next]_vars /\ PromiseInv' => [Promise!Next]_Mode
  BY ModeStep
<1> QED
  BY <1>1, <1>2, InitPromise, NextPromise, PTL DEF Spec
=============================================================================
