--------------------------- MODULE SessionProofs ---------------------------
(***************************************************************************)
(* Proofs about the Session for every choice of servers, routes, machines  *)
(* and faults.                                                             *)
(***************************************************************************)
EXTENDS SessionProps, TLAPS

\* The statements of apply_up, from the dev_exists check to the last write.
BeforePin ==
  {"up_main", "up_spawn", "up_record", "up_wait", "up_link", "up_pin"}
AfterPin ==
  {"up_verify", "up_del_defaults", "up_tun_default", "up_table", "up_direct", "up_marks",
   "up_verify_final", "up_block_v6", "up_dns", "up_steer", "up_resolv",
   "up_stop_resolved", "up_save_dns"}
Attempting == {"record_xray", "await_socks", "up_dev", "up_snapshot"}

\* Type correctness is inductive once the control state tells when the server
\* and the snapshot of the running command are set.
TypeInv ==
  /\ TypeOK
  /\ pc \in Attempting \cup BeforePin \cup AfterPin => server \in Servers
  /\ pc = "stop_clash" => server \in Servers \/ cmd = "full"
  /\ pc \in {"up_snapshot"} \cup BeforePin \cup AfterPin => snap \in Snapshots

USE DEF procVars, hostVars

-----------------------------------------------------------------------------
\* The machine as it was found is well-typed.
LEMMA PlainType ==
  ASSUME host \in Hosts
  PROVE  /\ PlainNet(host) \in [link: {"absent", "down", "up"},
              defaults: SUBSET (Routes \cup {Tun}), pinned: SUBSET Servers,
              policy: SUBSET ArtefactSet, ip6: {"open", "dropped", "disabled"}]
         /\ PlainDns(host) \in [resolv: {"symlink", "file", "placeholder"},
              resolved: BOOLEAN, flag: {"yes", "no", "unknown"}, tun: BOOLEAN]
         /\ host.units \in SUBSET Units
<1>1. host \in HostSetup
  BY ConstantsAssumption
<1> QED
  BY <1>1 DEF HostSetup, PlainNet, PlainDns

LEMMA InitType == Init => TypeInv
<1> SUFFICES ASSUME Init PROVE TypeInv
  OBVIOUS
<1>1. HostTypeOK
  BY PlainType DEF Init, HostInit, HostTypeOK, Daemons
<1> QED
  BY <1>1 DEF Init, TypeInv, TypeOK, Attempting, BeforePin, AfterPin

\* A step that leaves the machine alone, and a step that ends the command.
LEMMA HostSame == HostTypeOK /\ UNCHANGED hostVars => HostTypeOK'
  BY DEF HostTypeOK

LEMMA EndType ==
  ASSUME HostTypeOK', NEW o, End(o)
  PROVE  TypeInv'
BY DEF End, TypeInv, TypeOK, Attempting, BeforePin, AfterPin

LEMMA LinkGoneType ==
  ASSUME TypeInv
  PROVE  /\ LinkGone \in [link: {"absent", "down", "up"}, defaults: SUBSET (Routes \cup {Tun}),
              pinned: SUBSET Servers, policy: SUBSET ArtefactSet,
              ip6: {"open", "dropped", "disabled"}]
         /\ LinkDnsGone \in [resolv: {"symlink", "file", "placeholder"}, resolved: BOOLEAN,
              flag: {"yes", "no", "unknown"}, tun: BOOLEAN]
BY DEF LinkGone, LinkDnsGone, TypeInv, TypeOK, HostTypeOK

\* A daemon's end, or its lingering on, leaves the machine well-typed.
LEMMA FreesType ==
  ASSUME TypeInv, NEW d \in Daemons, NEW last, Frees(d, last)
  PROVE  /\ socks' \in BOOLEAN
         /\ net' \in [link: {"absent", "down", "up"}, defaults: SUBSET (Routes \cup {Tun}),
              pinned: SUBSET Servers, policy: SUBSET ArtefactSet,
              ip6: {"open", "dropped", "disabled"}]
         /\ dns' \in [resolv: {"symlink", "file", "placeholder"}, resolved: BOOLEAN,
              flag: {"yes", "no", "unknown"}, tun: BOOLEAN]
<1> USE DEF TypeInv, TypeOK, HostTypeOK
<1>1. CASE socks' \in BOOLEAN /\ net' = net /\ dns' = dns
  BY <1>1
<1>2. CASE net' = LinkGone /\ dns' = LinkDnsGone /\ socks' = socks
  BY <1>2, LinkGoneType
<1> QED
  BY <1>1, <1>2 DEF Frees

LEMMA DiesType ==
  ASSUME TypeInv, NEW d \in Daemons, Dies(d) \/ Lingers(d)
  PROVE  /\ proc' \in [Daemons -> {"none", "spawned", "known"}]
         /\ orphans' = orphans /\ dying' \in SUBSET Daemons /\ socks' \in BOOLEAN
         /\ net' \in [link: {"absent", "down", "up"}, defaults: SUBSET (Routes \cup {Tun}),
              pinned: SUBSET Servers, policy: SUBSET ArtefactSet,
              ip6: {"open", "dropped", "disabled"}]
         /\ dns' \in [resolv: {"symlink", "file", "placeholder"}, resolved: BOOLEAN,
              flag: {"yes", "no", "unknown"}, tun: BOOLEAN]
<1>1. /\ proc' \in [Daemons -> {"none", "spawned", "known"}]
      /\ orphans' = orphans /\ dying' \in SUBSET Daemons
  BY DEF Dies, Lingers, TypeInv, TypeOK, HostTypeOK
<1>2. CASE Dies(d)
  BY <1>1, <1>2, FreesType DEF Dies
<1>3. CASE Lingers(d)
  BY <1>1, <1>3 DEF Lingers, TypeInv, TypeOK, HostTypeOK
<1> QED
  BY <1>2, <1>3

LEMMA EnvironmentType ==
  ASSUME TypeInv, Environment /\ UNCHANGED localVars
  PROVE  TypeInv'
<1>1. CASE XrayBinds
  BY <1>1 DEF XrayBinds, localVars, TypeInv, TypeOK, HostTypeOK
<1>2. CASE TunAppears
  BY <1>2 DEF TunAppears, localVars, TypeInv, TypeOK, HostTypeOK
<1>3. ASSUME NEW d \in Daemons, DaemonDies(d) PROVE TypeInv'
  BY <1>3, DiesType DEF DaemonDies, localVars, TypeInv, TypeOK, HostTypeOK
<1>4. ASSUME NEW d \in Daemons, OrphanEnds(d) \/ DyingEnds(d) PROVE TypeInv'
  BY <1>4, FreesType DEF OrphanEnds, DyingEnds, localVars, TypeInv, TypeOK, HostTypeOK
<1>5. ASSUME NEW r \in Routes, LinkRenew(r) PROVE TypeInv'
  BY <1>5 DEF LinkRenew, localVars, TypeInv, TypeOK, HostTypeOK
<1> QED
  BY <1>1, <1>2, <1>3, <1>4, <1>5 DEF Environment
-----------------------------------------------------------------------------
LEMMA ApplyUpType ==
  ASSUME TypeInv, ApplyUp, UNCHANGED <<cmd, cand, stopped, outcome>>
  PROVE  TypeInv'
<1> USE DEF TypeInv, TypeOK, HostTypeOK, Goto, Attempting, BeforePin, AfterPin
<1>1. CASE TakeSnapshot
  <2>1. PICK d \in IF PhysDefaults = {} THEN {NoRoute} ELSE PhysDefaults :
          \/ snap' = Seen(d, GenuineKind) /\ disk' = [disk EXCEPT !.bak = @ \/ dns.resolv = "file"]
          \/ snap' = Seen(d, "none") /\ UNCHANGED disk
    BY <1>1 DEF TakeSnapshot
  <2>2. d \in Routes \cup {NoRoute}
    BY <2>1 DEF PhysDefaults
  <2>3. server \in Servers /\ server' = server
    BY <1>1 DEF TakeSnapshot
  <2>4. snap' \in Snapshots
    <3>1. GenuineKind \in {"symlink", "file", "none"}
      BY DEF GenuineKind
    <3>2. PICK k \in {"symlink", "file", "none"} : snap' = Seen(d, k)
      BY <2>1, <3>1
    <3> QED
      BY <2>2, <2>3, <3>2 DEF Seen, Snapshots
  <2>5. disk' \in [backup: Snapshots \cup {NoSnap}, bak: BOOLEAN, active: SUBSET Units]
    <3>1. (disk.bak \/ dns.resolv = "file") \in BOOLEAN
      OBVIOUS
    <3> QED
      BY <2>1, <3>1
  <2> QED
    <3>1. UNCHANGED <<host, procVars, net, dns, clash, server>> /\ pc' = "up_snapshot"
      BY <1>1 DEF TakeSnapshot
    <3> QED
      BY <2>3, <2>4, <2>5, <3>1
<1>2. CASE WriteSnapshot
  BY <1>2 DEF WriteSnapshot
<1>3. ASSUME NEW a \in ArtefactSet, NEW p, NEW q \in BeforePin \cup AfterPin,
             p \in BeforePin \cup AfterPin, Install(a, p, q)
      PROVE  TypeInv'
  BY <1>3 DEF Install
<1>4. CASE SpawnTun2socks \/ RecordTun2socks
  <2>1. CASE SpawnTun2socks
    BY <2>1 DEF SpawnTun2socks, Daemons
  <2>2. CASE RecordTun2socks
    BY <2>2 DEF RecordTun2socks, Daemons
  <2> QED
    BY <1>4, <2>1, <2>2
<1>5. CASE DevAppeared \/ BringLinkUp \/ PinServer \/ PinVerified
  BY <1>5 DEF DevAppeared, BringLinkUp, PinServer, PinVerified
<1>6. CASE DeleteDefault \/ DefaultsDeleted \/ AddTunDefault
  BY <1>6 DEF DeleteDefault, DefaultsDeleted, AddTunDefault
<1>7. CASE PinStillHolds \/ BlockIpv6
  BY <1>7 DEF PinStillHolds, BlockIpv6
<1>8. CASE SteerTunDns \/ FallBackToResolv
  <2>1. CASE SteerTunDns
    BY ZenonT(30), <2>1 DEF SteerTunDns
  <2>2. CASE FallBackToResolv
    BY <2>2 DEF FallBackToResolv
  <2> QED
    BY <1>8, <2>1, <2>2
<1>9. CASE SteerPhysOff \/ WriteResolv \/ StopResolved
  <2>1. snap' \in Snapshots
    <3>1. CASE SteerPhysOff
      BY <3>1 DEF SteerPhysOff, Snapshots
    <3>2. CASE WriteResolv
      BY <3>2 DEF WriteResolv, Snapshots
    <3>3. CASE StopResolved
      BY <3>3 DEF StopResolved, Snapshots
    <3> QED
      BY <1>9, <3>1, <3>2, <3>3
  <2>2. dns' \in [resolv: {"symlink", "file", "placeholder"}, resolved: BOOLEAN,
          flag: {"yes", "no", "unknown"}, tun: BOOLEAN]
    BY <1>9 DEF SteerPhysOff, WriteResolv, StopResolved
  <2> QED
    BY <1>9, <2>1, <2>2 DEF SteerPhysOff, WriteResolv, StopResolved
<1>10. CASE SaveDnsMode
  BY <1>10 DEF SaveDnsMode
<1>11. CASE Tun2socksExits
  BY <1>11, DiesType DEF Tun2socksExits, Daemons
<1>12. CASE ApplyUpRaises \/ SnapshotWriteFails
  BY <1>12 DEF ApplyUpRaises, SnapshotWriteFails
<1> QED
  BY <1>1, <1>2, <1>3, <1>4, <1>5, <1>6, <1>7, <1>8, <1>9, <1>10, <1>11, <1>12
     DEF ApplyUp, ArtefactSet

LEMMA ApplyDownType ==
  ASSUME TypeInv, ApplyDown, UNCHANGED <<cmd, cand, stopped, outcome>>
  PROVE  TypeInv'
<1> USE DEF TypeInv, TypeOK, HostTypeOK, Goto, Attempting, BeforePin, AfterPin
<1>1. CASE StopTun2socks
  BY <1>1, DiesType DEF StopTun2socks, StopDaemon, Daemons
<1>2. CASE UnblockIpv6 \/ RemoveArtefact \/ PolicyRemoved \/ ApplyDownRaises
  BY <1>2 DEF UnblockIpv6, RemoveArtefact, PolicyRemoved, ApplyDownRaises
<1>3. CASE DeleteTunDefault \/ UnpinServer
  BY <1>3 DEF DeleteTunDefault, UnpinServer
<1>4. CASE DeleteLink
  <2>1. /\ net' \in {net, LinkGone, [net EXCEPT !.link = "down", !.defaults = @ \ {Tun}]}
        /\ dns' \in {dns, LinkDnsGone}
        /\ UNCHANGED <<host, procVars, disk, clash, server, snap>>
    BY <1>4 DEF DeleteLink
  <2>2. net' \in [link: {"absent", "down", "up"}, defaults: SUBSET (Routes \cup {Tun}),
              pinned: SUBSET Servers, policy: SUBSET ArtefactSet,
              ip6: {"open", "dropped", "disabled"}]
    <3>1. CASE net' = [net EXCEPT !.link = "down", !.defaults = @ \ {Tun}]
      BY <3>1
    <3> QED
      BY <2>1, <3>1, LinkGoneType
  <2>3. dns' \in [resolv: {"symlink", "file", "placeholder"}, resolved: BOOLEAN,
              flag: {"yes", "no", "unknown"}, tun: BOOLEAN]
    BY <2>1, LinkGoneType
  <2>4. pc' \in {"down_dns", "down_unpin"}
    BY <1>4 DEF DeleteLink
  <2> QED
    BY <2>1, <2>2, <2>3, <2>4
<1>5. CASE RestoreDefault
  BY <1>5, ConstantsAssumption DEF RestoreDefault
<1>6. CASE RevertResolved \/ StartResolved \/ RestoreResolv
  <2>1. dns' \in [resolv: {"symlink", "file", "placeholder"}, resolved: BOOLEAN,
          flag: {"yes", "no", "unknown"}, tun: BOOLEAN]
    <3>1. CASE RevertResolved
      BY <1>6, <3>1 DEF RevertResolved, Snapshots
    <3>2. CASE StartResolved
      <4>1. (dns.resolved \/ (snap # NoSnap /\ snap.stopped)) \in BOOLEAN
        OBVIOUS
      <4>2. dns' \in {dns, [dns EXCEPT !.resolved = @ \/ (snap # NoSnap /\ snap.stopped)]}
        BY <3>2 DEF StartResolved
      <4> QED
        BY <4>1, <4>2
    <3>3. CASE RestoreResolv
      BY <1>6, <3>3 DEF RestoreResolv, Snapshots
    <3> QED
      BY <1>6, <3>1, <3>2, <3>3
  <2> QED
    BY <1>6, <2>1 DEF RevertResolved, StartResolved, RestoreResolv
<1> QED
  BY <1>1, <1>2, <1>3, <1>4, <1>5, <1>6 DEF ApplyDown
\* Clearing pid files hides the daemons they name.
LEMMA PidsCleared ==
  ClearPids => \E cleared \in SUBSET Daemons :
                 /\ orphans' = orphans \cup {d \in cleared : Running(d)}
                 /\ proc' = [d \in Daemons |-> IF d \in cleared THEN "none" ELSE proc[d]]
BY Zenon DEF ClearPids, Daemons

\* The statements of cmd_up, cmd_down and cmd_emergency around the tunnel.
LEMMA SessionStepType ==
  ASSUME TypeInv, Command, ~((ApplyUp \/ ApplyDown) /\ UNCHANGED <<cmd, cand, stopped, outcome>>)
  PROVE  TypeInv'
<1> USE DEF TypeInv, TypeOK, HostTypeOK, Goto, Attempting, BeforePin, AfterPin, End
<1>1. CASE CandidateFails \/ SpawnXray
  <2>1. CASE CandidateFails
    BY <2>1 DEF CandidateFails
  <2>2. CASE SpawnXray
    BY <2>2 DEF SpawnXray, Daemons
  <2> QED
    BY <1>1, <2>1, <2>2
<1>2. CASE RecordXray \/ SocksAnswers
  <2>1. CASE RecordXray
    BY <2>1 DEF RecordXray, Daemons
  <2>2. CASE SocksAnswers
    BY <2>2 DEF SocksAnswers
  <2> QED
    BY <1>2, <2>1, <2>2
<1>3. CASE SocksTimeout
  BY <1>3, DiesType DEF SocksTimeout, StopDaemon, Daemons
<1>4. CASE NoneConnects \/ UnitsStopped \/ NoSystemctl \/ SaveActive \/ RollBack
  BY <1>4 DEF NoneConnects, UnitsStopped, NoSystemctl, SaveActive, RollBack
<1>5. ASSUME NEW u \in Units, StopUnit(u) \/ StartUnit(u) PROVE TypeInv'
  BY <1>5 DEF StopUnit, StartUnit
<1>6. CASE StopXray
  BY <1>6, DiesType DEF StopXray, StopDaemon, Daemons
<1>7. CASE Pkill
  <2>1. /\ dying' \in SUBSET Daemons /\ socks' \in BOOLEAN
        /\ net' \in {net, LinkGone} /\ dns' \in {dns, LinkDnsGone}
    BY <1>7 DEF Pkill
  <2>2. net' \in [link: {"absent", "down", "up"}, defaults: SUBSET (Routes \cup {Tun}),
              pinned: SUBSET Servers, policy: SUBSET ArtefactSet,
              ip6: {"open", "dropped", "disabled"}]
    BY <2>1, LinkGoneType
  <2>3. dns' \in [resolv: {"symlink", "file", "placeholder"}, resolved: BOOLEAN,
              flag: {"yes", "no", "unknown"}, tun: BOOLEAN]
    BY <2>1, LinkGoneType
  <2>4. proc' \in [Daemons -> {"none", "spawned", "known"}] /\ orphans' = {}
        /\ pc' \in {"down_t2", "clear_pids"}
        /\ UNCHANGED <<host, disk, clash, cmd, cand, server, snap, stopped, outcome>>
    BY <1>7 DEF Pkill
  <2> QED
    BY <2>1, <2>2, <2>3, <2>4
<1>8. CASE TornDown \/ TeardownRaised \/ UnitsStarted
  <2>1. CASE TornDown
    BY <2>1 DEF TornDown
  <2>2. CASE TeardownRaised
    <3>1. HostTypeOK'
      BY <2>2, HostSame DEF TeardownRaised
    <3>2. CASE cmd = "down"
      BY <2>2, <3>1, <3>2, EndType DEF TeardownRaised
    <3>3. CASE cmd # "down"
      <4> HIDE DEF HostTypeOK, End
      <4> QED
        BY <2>2, <3>1, <3>3 DEF TeardownRaised
    <3> QED
      BY <3>2, <3>3
  <2>3. CASE UnitsStarted
    BY <2>3 DEF UnitsStarted
  <2> QED
    BY <1>8, <2>1, <2>2, <2>3
<1>9. CASE ClearActive \/ ClearBackup \/ ClearResolvBak
  <2>1. CASE ClearActive
    BY <2>1 DEF ClearActive
  <2>2. CASE ClearBackup
    BY <2>2 DEF ClearBackup
  <2>3. CASE ClearResolvBak
    <3>1. HostTypeOK'
      BY <2>3 DEF ClearResolvBak
    <3> HIDE DEF HostTypeOK, End
    <3> QED
      BY <2>3, <3>1, EndType DEF ClearResolvBak
  <2> QED
    BY <1>9, <2>1, <2>2, <2>3
<1>10. CASE Measured \/ AllTested
  BY <1>10 DEF Measured, AllTested
<1>11. CASE ClearPids
  <2>1. /\ proc' \in [Daemons -> {"none", "spawned", "known"}]
        /\ orphans' \in SUBSET Daemons
        /\ pc' \in {"clear_backup", "clear_active"}
    <3>1. PICK cleared \in SUBSET Daemons :
            /\ orphans' = orphans \cup {d \in cleared : Running(d)}
            /\ proc' = [d \in Daemons |-> IF d \in cleared THEN "none" ELSE proc[d]]
      BY <1>11, PidsCleared
    <3>2. pc' \in {"clear_backup", "clear_active"}
      BY <1>11 DEF ClearPids
    <3> QED
      BY <3>1, <3>2
  <2>2. UNCHANGED <<host, dying, socks, net, dns, disk, clash,
                    cmd, cand, server, snap, stopped, outcome>>
    BY <1>11 DEF ClearPids
  <2> QED
    BY <2>1, <2>2
<1> QED
  BY <1>1, <1>2, <1>3, <1>4, <1>5, <1>6, <1>7, <1>8, <1>9, <1>10, <1>11 DEF Command

LEMMA CommandType == TypeInv /\ Command => TypeInv'
  BY ApplyUpType, ApplyDownType, SessionStepType

LEMMA UserType == TypeInv /\ User => TypeInv'
<1> SUFFICES ASSUME TypeInv, User PROVE TypeInv'
  OBVIOUS
<1> USE DEF TypeInv, TypeOK, HostTypeOK, Begin, End, Attempting, BeforePin, AfterPin
<1>1. ASSUME NEW C \in SUBSET Servers, UpBegins(C) \/ FullBegins(C) PROVE TypeInv'
  BY <1>1 DEF UpBegins, FullBegins
<1>2. CASE DownNotRunning \/ DownBegins \/ NothingToClean
  <2>1. CASE DownNotRunning
    <3>1. HostTypeOK'
      BY <2>1, HostSame DEF DownNotRunning
    <3> HIDE DEF HostTypeOK, End, TypeInv
    <3> QED
      BY <2>1, <3>1, EndType DEF DownNotRunning
  <2>2. CASE DownBegins
    BY <2>2 DEF DownBegins
  <2>3. CASE NothingToClean
    <3>1. HostTypeOK'
      BY <2>3, HostSame DEF NothingToClean
    <3> HIDE DEF HostTypeOK, End, TypeInv
    <3> QED
      BY <2>3, <3>1, EndType DEF NothingToClean
  <2> QED
    BY <1>2, <2>1, <2>2, <2>3
<1>3. CASE EmergencyBegins
  BY <1>3 DEF EmergencyBegins
<1> QED
  BY <1>1, <1>2, <1>3 DEF User

LEMMA StopType == TypeInv /\ (Crash \/ Interrupt \/ Reboot) => TypeInv'
<1> SUFFICES ASSUME TypeInv, Crash \/ Interrupt \/ Reboot PROVE TypeInv'
  OBVIOUS
<1> USE DEF TypeInv, TypeOK, HostTypeOK, End, Attempting, BeforePin, AfterPin
<1>1. CASE Crash \/ Interrupt
  <2>1. proc' \in [Daemons -> {"none", "spawned", "known"}] /\ orphans' \in SUBSET Daemons
    BY <1>1 DEF Crash, Interrupt, Unrecorded
  <2>2. disk' \in [backup: Snapshots \cup {NoSnap}, bak: BOOLEAN, active: SUBSET Units]
    BY <1>1 DEF Crash, Interrupt
  <2>3. net' \in [link: {"absent", "down", "up"}, defaults: SUBSET (Routes \cup {Tun}),
          pinned: SUBSET Servers, policy: SUBSET ArtefactSet,
          ip6: {"open", "dropped", "disabled"}]
    BY <1>1 DEF Crash, Interrupt, Unrecorded
  <2> QED
    BY <1>1, <2>1, <2>2, <2>3 DEF Crash, Interrupt
<1>2. CASE Reboot
  BY <1>2, PlainType DEF Reboot, MachineRestarts, PlainDns, Daemons
<1> QED
  BY <1>1, <1>2

LEMMA NextType == TypeInv /\ [Next]_vars => TypeInv'
<1>1. TypeInv /\ UNCHANGED vars => TypeInv'
  BY DEF vars, localVars, TypeInv, TypeOK, HostTypeOK
<1> QED
  BY <1>1, CommandType, UserType, StopType, EnvironmentType DEF Next

\* Every reachable state of every session on every machine is well-typed, whatever
\* faults occur: no command leaves a record field or a set outside its range.
THEOREM TypeCorrect == Spec => []TypeOK
<1>1. TypeInv => TypeOK
  BY DEF TypeInv
<1> QED
  BY <1>1, InitType, NextType, PTL DEF Spec
=============================================================================
