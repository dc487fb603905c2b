---------------------------- MODULE SessionProps ----------------------------
(***************************************************************************)
(* What a drkvl session must keep, stated over the Session module.         *)
(***************************************************************************)
EXTENDS Session

\* Type invariant of the Session module.
TypeOK ==
  /\ HostTypeOK
  /\ server \in Servers \cup {NoServer}
  /\ snap \in Snapshots \cup {NoSnap}
  /\ cmd \in {"none", "up", "down", "emergency", "sweep", "full"}
  /\ cand \in SUBSET Servers
  /\ stopped \in SUBSET Units

-----------------------------------------------------------------------------
\* No drkvl0, policy routing or IPv6 block is left; traffic goes out as before.
NetRestored ==
  /\ net.link = "absent" /\ net.policy = {} /\ net.ip6 = "open"
  /\ Tun \notin net.defaults /\ PhysDefaults # {}

\* Nothing is left that a snapshot is needed for.
Untouched == NetRestored /\ net.pinned = {} /\ dns = PlainDns(host)

\* A command that reports that it took the connection down, that it could not
\* bring it up, or how fast the profiles are, left the machine as it was before
\* the first up: routes, IPv6, DNS, resolv.conf, the proxy units and no daemon
\* (cmd_down, cmd_emergency, the rollback of cmd_up, _speedtest_full although it
\* ignores what a profile's set-up and teardown raise).
AsFound ==
  outcome \in {"down", "cleaned", "failed", "tested"} =>
    /\ Untouched
    /\ clash = host.units
    /\ \A d \in Daemons : proc[d] = "none" /\ d \notin orphans

\* While the last thing the user was told is "up", no default route leads past
\* the tunnel, IPv6 is blocked and, as long as drkvl0 carries the default, every
\* resolver sends its queries there, whether or not the daemons still live.
DnsSteered ==
  \/ dns.tun /\ dns.flag # "yes"
  \/ dns.resolv = "placeholder" /\ ~dns.resolved
KillSwitch ==
  outcome = "up" =>
    /\ PhysDefaults = {}
    /\ net.ip6 # "open"
    /\ Tun \in net.defaults => DnsSteered

\* When the machine's own default route is gone, BACKUP on disk names one that
\* apply_down can add again: whatever stops a command, the way back is known.
DefaultRecoverable ==
  PhysDefaults = {} => Snap /\ disk.backup.default \in ViaGateway

\* IPv6 is blocked only while no IPv4 default leads past the tunnel: block_ipv6
\* comes after the old defaults went, unblock_ipv6 before one comes back.
BlockedOnlyWhenTunnelled ==
  net.ip6 # "open" => PhysDefaults = {}

\* The default never leads into drkvl0 unless a server is pinned to the physical
\* network, the one BACKUP names if it is readable: no routing loop.
NoRoutingLoop ==
  Tun \in net.defaults =>
    /\ net.pinned # {}
    /\ Snap => disk.backup.server \in net.pinned

\* Every host route to a VPN server can be undone from BACKUP; while no command
\* was killed, that is (a second up after such a kill forgets the first pin).
PinsAccounted ==
  net.pinned # {} => Snap /\ net.pinned = {disk.backup.server}

\* While /etc/resolv.conf holds drkvl's placeholder, BACKUP and RESOLV_BAK know
\* the genuine one (_backup_resolv).
ResolvKept ==
  dns.resolv = "placeholder" =>
    /\ Snap
    /\ disk.backup.resolv = host.resolv
    /\ host.resolv = "file" => disk.bak

\* A snapshot on disk is replaced only by a later version of itself or when there
\* is nothing left that it is needed to undo, as between two profiles of the full
\* speed test; it goes only then, or when its teardown has put the network back
\* (tun.snapshot, storage.clear).
SnapshotNotClobbered ==
  [][disk.backup # NoSnap /\ ~Untouched =>
       /\ disk.backup' # NoSnap
       /\ \A f \in {"default", "resolv", "server"} : disk.backup'[f] = disk.backup[f]]_vars

\* After down or emergency-off reported success no device, policy routing or IPv6
\* block of drkvl is left and traffic goes out again, even if an earlier command
\* was killed half way.
KernelClean ==
  outcome \in {"down", "cleaned"} => NetRestored

\* A command that is over and does not say "up" has stopped the daemons it knew, even
\* if its teardown or rollback failed half way; and a daemon gets out of sight of the
\* later commands only when a command is killed or interrupted by a Ctrl-C: nobody
\* clears the pid file of one that runs (cmd_up, cmd_down, emergency, _speedtest_full).
NoDaemonLeft ==
  [][/\ outcome' \in {"down", "down failed", "cleaned", "failed", "rollback failed", "tested"} =>
          \A d \in Daemons : proc'[d] = "none"
     /\ outcome' \in {"crashed", "interrupted"} \/ orphans' \subseteq orphans]_vars

-----------------------------------------------------------------------------
\* Two statements of the repository's texts that the code does not keep.

\* cmd_down: "Tear down the tunnel and restore the prior routing/DNS state": after
\* every down, whatever it reports, traffic has a way out again.
DownRestoresDefault ==
  outcome \in {"down", "down failed", "not running"} => PhysDefaults # {}

\* cmd_up: "routing may be inconsistent - run 'sudo drkvl emergency-off'": after a
\* failed rollback the default route is there, or BACKUP can still bring it back.
FailedRollbackRecoverable ==
  outcome = "rollback failed" => PhysDefaults # {} \/ Snap

-----------------------------------------------------------------------------
\* Every command ends.
CommandsEnd == pc # "idle" ~> pc = "idle"

\* A session implements the promise of Connection.
Resting ==
  CASE PhysDefaults # {} /\ Tun \notin net.defaults /\ net.ip6 = "open" -> "plain"
    [] net.defaults = {Tun} /\ net.ip6 # "open" -> "sealed"
    [] net.defaults = {} /\ net.ip6 # "open" -> "cut"
    [] OTHER -> "broken"

Mode ==
  IF pc = "idle" THEN Resting
  ELSE CASE cmd = "up" -> "connecting"
         [] cmd = "full" -> "measuring"
         [] OTHER -> "disconnecting"

Promise == INSTANCE Connection WITH mode <- Mode
ConnectionKept == Promise!Spec
=============================================================================
