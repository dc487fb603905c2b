-------------------------------- MODULE Host --------------------------------
(***************************************************************************)
(* The machine drkvl runs on, as far as drkvl reads or changes it: the two *)
(* daemons it starts, the kernel's routing state, the resolver, the proxy  *)
(* units of clash.py and drkvl's own files below ~/.config/drkvl.  The     *)
(* actions of this module are what happens without a drkvl command: a      *)
(* daemon finishes its start or dies, a network manager re-adds a default  *)
(* route, the machine reboots.                                             *)
(*                                                                         *)
(* Abstraction: a route is a name; an address, a device or a metric is     *)
(* never looked at.  A pid file that names no live daemon of its kind is   *)
(* the same as none (proc._alive compares the name of the process).        *)
(***************************************************************************)

CONSTANTS
  Servers,      \* IPv4 addresses of VPN servers
  Routes,       \* default routes of the physical network
  ViaGateway,   \* those of Routes that name a gateway and a device
  Units,        \* clash.CANDIDATES
  Hosts,        \* the machines a behaviour may start on, see HostSetup
  Faults,       \* what may go wrong, see FaultKinds
  Tun,          \* the default route through drkvl0
  NoRoute,      \* default_route() returned None
  NoSnap        \* there is no readable BACKUP file

Tools == {"systemctl", "resolvectl", "ip6tables", "iptables"}
Daemons == {"xray", "tun2socks"}

HostSetup ==
  [tools: SUBSET Tools,                  \* what is in PATH
   phys: SUBSET Routes,                  \* default routes before the first up
   resolved: BOOLEAN,                    \* systemd-resolved runs
   resolv: {"symlink", "file"},          \* /etc/resolv.conf
   flag: {"yes", "no", "unknown"},       \* resolved's Default Route of the link
   units: SUBSET Units]                  \* proxy units that run

\* crash: a command ends between two of its steps (killed, Ctrl-C, exception);
\* interrupt: Ctrl-C during speedtest --full, the one command that cleans up then;
\* torn: the crash hits a file that is truncated and not yet written;
\* death: a daemon dies; renew: a network manager re-adds a default route;
\* reboot: the machine restarts; linger: a killed daemon holds its port or its
\* device a moment longer; unchecked: a helper whose return code (or a write whose
\* OSError) the code ignores does nothing.
FaultKinds ==
  {"crash", "interrupt", "torn", "death", "renew", "reboot", "linger", "unchecked"}

\* The Snapshot written to BACKUP: server_route is never read.
Snapshots ==
  [default: Routes \cup {NoRoute},
   resolv: {"symlink", "file", "none"},
   server: Servers,
   mode: {"", "resolvectl", "resolv"},
   phys: {"yes", "no", "unknown"},
   stopped: BOOLEAN]

ASSUME ConstantsAssumption ==
  /\ ViaGateway \subseteq Routes
  /\ Tun \notin Routes /\ NoRoute \notin Routes
  /\ NoSnap \notin Snapshots
  /\ Hosts \subseteq HostSetup
  /\ Faults \subseteq FaultKinds

VARIABLES
  host,      \* the machine: a member of Hosts, never changed
  proc,      \* proc[d]: "none", "spawned" (no pid file yet) or "known"
  orphans,   \* daemons that run and that no pid file names
  dying,     \* killed daemons that still hold the SOCKS port or drkvl0
  socks,     \* the SOCKS port accepts connections
  net,       \* kernel routing state
  dns,       \* resolver state
  disk,      \* BACKUP, RESOLV_BAK and the stopped_clash list of ACTIVE
  clash      \* proxy units that run

procVars == <<proc, orphans, dying, socks>>
hostVars == <<host, procVars, net, dns, disk, clash>>

\* drkvl's own policy routing, in the order apply_down removes it.
Artefacts == <<"pin", "main", "marks", "direct", "table">>
ArtefactSet == {"pin", "main", "marks", "direct", "table"}

HostTypeOK ==
  /\ host \in Hosts
  /\ proc \in [Daemons -> {"none", "spawned", "known"}]
  /\ orphans \in SUBSET Daemons
  /\ dying \in SUBSET Daemons
  /\ socks \in BOOLEAN
  /\ net \in [link: {"absent", "down", "up"}, defaults: SUBSET (Routes \cup {Tun}),
              pinned: SUBSET Servers, policy: SUBSET ArtefactSet,
              ip6: {"open", "dropped", "disabled"}]
  /\ dns \in [resolv: {"symlink", "file", "placeholder"}, resolved: BOOLEAN,
              flag: {"yes", "no", "unknown"}, tun: BOOLEAN]
  /\ disk \in [backup: Snapshots \cup {NoSnap}, bak: BOOLEAN, active: SUBSET Units]
  /\ clash \in SUBSET Units

\* The kernel and the services of a machine drkvl has not touched.
PlainNet(h) == [link |-> "absent", defaults |-> h.phys, pinned |-> {},
                policy |-> {}, ip6 |-> "open"]
PlainDns(h) == [resolv |-> h.resolv, resolved |-> h.resolved,
                flag |-> h.flag, tun |-> FALSE]

HostInit ==
  /\ host \in Hosts
  /\ proc = [d \in Daemons |-> "none"]
  /\ orphans = {}
  /\ dying = {}
  /\ socks = FALSE
  /\ net = PlainNet(host)
  /\ dns = PlainDns(host)
  /\ disk = [backup |-> NoSnap, bak |-> FALSE, active |-> {}]
  /\ clash = host.units

-----------------------------------------------------------------------------
\* What drkvl asks the machine.

PhysDefaults == net.defaults \cap Routes       \* default_route(): any of these
DevExists == net.link # "absent"
Running(d) == proc[d] = "known"                \* xray_running, tun2socks_running
Snap == disk.backup # NoSnap

\* How a daemon's end shows: drkvl0 and the routes over it live as long as
\* tun2socks holds the device, the SOCKS port as long as xray does.
LinkGone == [net EXCEPT !.link = "absent", !.defaults = @ \ {Tun}]
LinkDnsGone == [dns EXCEPT !.tun = FALSE]

Frees(d, last) ==
  \/ last /\ d = "xray" /\ socks' = FALSE /\ UNCHANGED <<net, dns>>
  \/ last /\ d = "tun2socks" /\ net' = LinkGone /\ dns' = LinkDnsGone /\ UNCHANGED socks
  \/ ~last /\ UNCHANGED <<socks, net, dns>>

Dies(d) ==
  /\ proc' = [proc EXCEPT ![d] = "none"]
  /\ Frees(d, d = "tun2socks" \/ d \notin orphans \cup dying)
  /\ UNCHANGED <<orphans, dying>>

\* The SIGKILL of proc._stop is not waited for.
Lingers(d) ==
  /\ "linger" \in Faults
  /\ IF d = "xray" THEN socks ELSE DevExists
  /\ proc' = [proc EXCEPT ![d] = "none"]
  /\ dying' = dying \cup {d}
  /\ UNCHANGED <<orphans, socks, net, dns>>

\* proc._stop: SIGTERM, then SIGKILL, the process the pid file names.
StopDaemon(d) ==
  \/ Running(d) /\ (Dies(d) \/ Lingers(d))
  \/ ~Running(d) /\ UNCHANGED <<procVars, net, dns>>

-----------------------------------------------------------------------------
\* What happens without a command.

XrayBinds ==
  /\ ~socks
  /\ proc["xray"] # "none" \/ "xray" \in orphans
  /\ socks' = TRUE
  /\ UNCHANGED <<host, proc, orphans, dying, net, dns, disk, clash>>

TunAppears ==
  /\ proc["tun2socks"] # "none"
  /\ ~DevExists
  /\ net' = [net EXCEPT !.link = "down"]
  /\ UNCHANGED <<host, procVars, dns, disk, clash>>

DaemonDies(d) ==
  /\ "death" \in Faults
  /\ proc[d] # "none"
  /\ Dies(d)
  /\ UNCHANGED <<host, disk, clash>>

OrphanEnds(d) ==
  /\ "death" \in Faults
  /\ d \in orphans
  /\ orphans' = orphans \ {d}
  /\ Frees(d, proc[d] = "none" /\ d \notin dying)
  /\ UNCHANGED <<host, proc, dying, disk, clash>>

\* No other xray can have bound the port meanwhile.
DyingEnds(d) ==
  /\ d \in dying
  /\ dying' = dying \ {d}
  /\ Frees(d, d = "xray" \/ (proc[d] = "none" /\ d \notin orphans))
  /\ UNCHANGED <<host, proc, orphans, disk, clash>>

LinkRenew(r) ==
  /\ "renew" \in Faults
  /\ r \in host.phys \ net.defaults
  /\ net' = [net EXCEPT !.defaults = @ \cup {r}]
  /\ UNCHANGED <<host, procVars, dns, disk, clash>>

\* Files stay, a rewritten resolv.conf among them; the rest starts afresh.
MachineRestarts ==
  /\ proc' = [d \in Daemons |-> "none"]
  /\ orphans' = {}
  /\ dying' = {}
  /\ socks' = FALSE
  /\ net' = PlainNet(host)
  /\ dns' = [PlainDns(host) EXCEPT !.resolv = dns.resolv]
  /\ clash' = host.units
  /\ UNCHANGED <<host, disk>>

Environment ==
  \/ XrayBinds
  \/ TunAppears
  \/ \E d \in Daemons : DaemonDies(d) \/ OrphanEnds(d) \/ DyingEnds(d)
  \/ \E r \in Routes : LinkRenew(r)
=============================================================================
