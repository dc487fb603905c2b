------------------------------- MODULE Tunnel -------------------------------
(***************************************************************************)
(* tun.apply_up and tun.apply_down, one action per statement that changes  *)
(* the machine.  A caller enters at pc = "up_dev" or "down_t2" and goes on *)
(* at "up_done", "up_raised", "down_done" or "down_raised".                *)
(***************************************************************************)
EXTENDS Host, Integers

CONSTANT NoServer   \* no server_ip is set

VARIABLES
  pc,       \* the next statement of the running command, "idle" for none
  server,   \* the server_ip argument of apply_up
  snap      \* the Snapshot held in memory

Goto(from, to) == pc = from /\ pc' = to

\* An unchecked helper did its work, or its failure went unnoticed: every statement
\* below whose failure the code ignores has both alternatives.
Effective == TRUE
Ineffective == "unchecked" \in Faults

-----------------------------------------------------------------------------
\* apply_up

Seen(route, resolv) ==
  [default |-> route, resolv |-> resolv, server |-> server,
   mode |-> "", phys |-> "unknown", stopped |-> FALSE]

\* Our own placeholder is not a genuine resolv.conf.
GenuineKind == IF dns.resolv = "placeholder" THEN "none" ELSE dns.resolv

\* Mutant: the genuine resolv.conf is noted but never copied.
TakeSnapshotWithoutCopy ==
  /\ Goto("up_dev", "up_snapshot")
  /\ ~DevExists
  /\ \E d \in IF PhysDefaults = {} THEN {NoRoute} ELSE PhysDefaults :
       snap' = Seen(d, GenuineKind)
  /\ UNCHANGED <<hostVars, server>>

\* Captures default_route() and resolv.conf; RESOLV_BAK is written here, unless it
\* is there already or the original cannot be read or copied.
TakeSnapshot ==
  /\ Goto("up_dev", "up_snapshot")
  /\ ~DevExists
  /\ \E d \in IF PhysDefaults = {} THEN {NoRoute} ELSE PhysDefaults :
       \/ /\ Effective
          /\ snap' = Seen(d, GenuineKind)
          /\ disk' = [disk EXCEPT !.bak = @ \/ dns.resolv = "file"]
       \/ /\ Ineffective
          /\ snap' = Seen(d, "none")
          /\ UNCHANGED disk
  /\ UNCHANGED <<host, procVars, net, dns, clash, server>>

\* Mutant: the snapshot reaches the disk only at the end of apply_up.
WriteSnapshotLate ==
  /\ Goto("up_snapshot", IF snap.default \in ViaGateway THEN "up_main" ELSE "up_raised")
  /\ UNCHANGED <<hostVars, server, snap>>

\* Mutant: an existing BACKUP is kept, as an existing RESOLV_BAK is.
WriteFirstSnapshot ==
  /\ Goto("up_snapshot", IF snap.default \in ViaGateway THEN "up_main" ELSE "up_raised")
  /\ disk' = [disk EXCEPT !.backup = IF Snap THEN @ ELSE snap]
  /\ UNCHANGED <<host, procVars, net, dns, clash, server, snap>>

WriteSnapshot ==
  /\ Goto("up_snapshot", IF snap.default \in ViaGateway THEN "up_main" ELSE "up_raised")
  /\ disk' = [disk EXCEPT !.backup = snap]
  /\ UNCHANGED <<host, procVars, net, dns, clash, server, snap>>

\* One `ip rule add`, `ip route add ... table` or mark rule of the up sequence.
Install(artefact, from, to) ==
  /\ Goto(from, to)
  /\ artefact = "marks" => "iptables" \in host.tools
  /\ net' = [net EXCEPT !.policy = @ \cup {artefact}]
  /\ UNCHANGED <<host, procVars, dns, disk, clash, server, snap>>

SpawnTun2socks ==
  /\ Goto("up_spawn", "up_record")
  /\ ~Running("tun2socks")
  /\ proc' = [proc EXCEPT !["tun2socks"] = "spawned"]
  /\ UNCHANGED <<host, orphans, dying, socks, net, dns, disk, clash, server, snap>>

\* The poll 0.15 s after Popen found it alive: the pid file is written.
RecordTun2socks ==
  /\ Goto("up_record", "up_wait")
  /\ proc["tun2socks"] = "spawned"
  /\ proc' = [proc EXCEPT !["tun2socks"] = "known"]
  /\ UNCHANGED <<host, orphans, dying, socks, net, dns, disk, clash, server, snap>>

DevAppeared ==
  /\ Goto("up_wait", "up_link")
  /\ DevExists
  /\ UNCHANGED <<hostVars, server, snap>>

BringLinkUp ==
  /\ Goto("up_link", "up_pin")
  /\ DevExists
  /\ net' = [net EXCEPT !.link = "up"]
  /\ UNCHANGED <<host, procVars, dns, disk, clash, server, snap>>

PinServer ==
  /\ Goto("up_pin", "up_verify")
  /\ net' = [net EXCEPT !.pinned = @ \cup {server}]
  /\ UNCHANGED <<host, procVars, dns, disk, clash, server, snap>>

\* The kernel confirms the pin at once, or after the prio-100 rule was added.
PinVerified ==
  /\ Goto("up_verify", "up_del_defaults")
  /\ server \in net.pinned
  /\ UNCHANGED <<hostVars, server, snap>>

DeleteDefault ==
  /\ pc = "up_del_defaults"
  /\ \E r \in net.defaults : net' = [net EXCEPT !.defaults = @ \ {r}]
  /\ UNCHANGED <<host, procVars, dns, disk, clash, pc, server, snap>>

\* Mutant: `ip route del default` is run once instead of until it fails.
OneDefaultDeleted ==
  /\ Goto("up_del_defaults", "up_tun_default")
  /\ UNCHANGED <<hostVars, server, snap>>

\* No default is left, a deletion failed for another reason, or all sixteen were
\* made (not counted here: without renewals there are fewer routes than that).
DefaultsDeleted ==
  /\ Goto("up_del_defaults", "up_tun_default")
  /\ net.defaults = {} \/ Ineffective \/ "renew" \in Faults
  /\ UNCHANGED <<hostVars, server, snap>>

AddTunDefault ==
  /\ Goto("up_tun_default", "up_table")
  /\ net.link = "up"
  /\ net' = [net EXCEPT !.defaults = @ \cup {Tun}]
  /\ UNCHANGED <<host, procVars, dns, disk, clash, server, snap>>

PinStillHolds ==
  /\ Goto("up_verify_final", "up_block_v6")
  /\ server \in net.pinned
  /\ UNCHANGED <<hostVars, server, snap>>

BlockIpv6 ==
  /\ Goto("up_block_v6", "up_dns")
  /\ \/ Effective /\ net' = [net EXCEPT !.ip6 =
          IF "ip6tables" \in host.tools THEN "dropped" ELSE "disabled"]
     \/ Ineffective /\ UNCHANGED net
  /\ UNCHANGED <<host, procVars, dns, disk, clash, server, snap>>

\* _setup_dns_resolvectl: drkvl0 becomes resolved's catch-all.
SteerTunDns ==
  /\ Goto("up_dns", "up_steer")
  /\ "resolvectl" \in host.tools /\ dns.resolved /\ DevExists
  /\ \/ Effective /\ dns' = [dns EXCEPT !.tun = TRUE]
     \/ Ineffective /\ UNCHANGED dns
  /\ UNCHANGED <<host, procVars, net, disk, clash, server, snap>>

\* resolved is not there, or did not accept drkvl0 within the 20 retries.
FallBackToResolv ==
  /\ Goto("up_dns", "up_resolv")
  /\ UNCHANGED <<hostVars, server, snap>>

\* Mutant: _steer_phys_off reads the flag and leaves it as it is.
SteerNothing ==
  /\ Goto("up_steer", "up_save_dns")
  /\ snap' = [snap EXCEPT !.mode = "resolvectl", !.phys = dns.flag]
  /\ UNCHANGED <<hostVars, server>>

SteerPhysOff ==
  /\ Goto("up_steer", "up_save_dns")
  /\ snap' = [snap EXCEPT !.mode = "resolvectl", !.phys = dns.flag]
  /\ \/ Effective /\ dns' = [dns EXCEPT !.flag = IF @ = "unknown" THEN @ ELSE "no"]
     \/ Ineffective /\ UNCHANGED dns
  /\ UNCHANGED <<host, procVars, net, disk, clash, server>>

WriteResolv ==
  /\ Goto("up_resolv", "up_stop_resolved")
  /\ dns' = [dns EXCEPT !.resolv = "placeholder"]
  /\ snap' = [snap EXCEPT !.mode = "resolv"]
  /\ UNCHANGED <<host, procVars, net, disk, clash, server>>

StopResolved ==
  /\ Goto("up_stop_resolved", "up_save_dns")
  /\ \/ Effective /\ dns' = [dns EXCEPT !.resolved = FALSE, !.tun = FALSE]
     \/ Ineffective /\ UNCHANGED dns
  /\ snap' = [snap EXCEPT !.stopped = dns.resolved]
  /\ UNCHANGED <<host, procVars, net, disk, clash, server>>

SaveDnsMode ==
  /\ Goto("up_save_dns", "up_done")
  /\ disk' = [disk EXCEPT !.backup = snap]
  /\ UNCHANGED <<host, procVars, net, dns, clash, server, snap>>

\* proc._start: tun2socks was gone at the poll.
Tun2socksExits ==
  /\ Goto("up_record", "up_raised")
  /\ Dies("tun2socks")
  /\ UNCHANGED <<host, disk, clash, server, snap>>

\* `ip ...` with check=True failed, a program is missing, a device did not
\* appear or is there already, the kernel does not confirm the pin.
ApplyUpRaises ==
  /\ pc \in {"up_dev", "up_main", "up_spawn", "up_wait", "up_link", "up_pin", "up_verify",
             "up_tun_default", "up_table", "up_direct", "up_marks", "up_verify_final",
             "up_resolv"}
  /\ pc' = "up_raised"
  /\ UNCHANGED <<hostVars, server, snap>>

\* storage.write_json fails after O_TRUNC emptied BACKUP (disk full).
SnapshotWriteFails ==
  /\ "torn" \in Faults
  /\ pc \in {"up_snapshot", "up_save_dns"}
  /\ pc' = "up_raised"
  /\ disk' = [disk EXCEPT !.backup = NoSnap]
  /\ UNCHANGED <<host, procVars, net, dns, clash, server, snap>>

ApplyUp ==
  \/ TakeSnapshot \/ WriteSnapshot
  \/ Install("main", "up_main", "up_spawn")
  \/ SpawnTun2socks \/ RecordTun2socks \/ DevAppeared \/ BringLinkUp
  \/ PinServer \/ Install("pin", "up_verify", "up_verify") \/ PinVerified
  \/ DeleteDefault \/ DefaultsDeleted \/ AddTunDefault
  \/ Install("table", "up_table", "up_direct")
  \/ Install("direct", "up_direct", "up_marks")
  \/ Install("marks", "up_marks", "up_verify_final")
  \/ PinStillHolds \/ BlockIpv6
  \/ SteerTunDns \/ FallBackToResolv \/ SteerPhysOff
  \/ WriteResolv \/ StopResolved \/ SaveDnsMode
  \/ Tun2socksExits \/ ApplyUpRaises \/ SnapshotWriteFails

-----------------------------------------------------------------------------
\* apply_down(snap), snap = NoSnap when BACKUP was not there

StopTun2socks ==
  /\ Goto("down_t2", "down_v6")
  /\ StopDaemon("tun2socks")
  /\ UNCHANGED <<host, disk, clash, server, snap>>

\* Mutant: unblock_ipv6 forgets the ip6tables rules.
UnblockNothing ==
  /\ Goto("down_v6", "down_policy")
  /\ UNCHANGED <<hostVars, server, snap>>

\* Runs ip6tables whether or not block_ipv6 had it.
UnblockIpv6 ==
  /\ Goto("down_v6", "down_policy")
  /\ "ip6tables" \in host.tools
  /\ \/ Effective /\ net' = [net EXCEPT !.ip6 = "open"]
     \/ Ineffective /\ UNCHANGED net
  /\ UNCHANGED <<host, procVars, dns, disk, clash, server, snap>>

\* The next of Artefacts that is installed, or can be removed, goes.
RemoveArtefact ==
  /\ pc = "down_policy"
  /\ \E i \in DOMAIN Artefacts :
       /\ Artefacts[i] \in net.policy
       /\ Ineffective \/ \A j \in 1 .. i - 1 : Artefacts[j] \notin net.policy
       /\ i > 2 => "iptables" \in host.tools
       /\ net' = [net EXCEPT !.policy = @ \ {Artefacts[i]}]
  /\ UNCHANGED <<host, procVars, dns, disk, clash, pc, server, snap>>

\* Mutant: _teardown_direct_table is not called.
SomePolicyRemoved ==
  /\ Goto("down_policy", "down_tun_default")
  /\ net.policy \cap {"pin", "main"} = {}
  /\ UNCHANGED <<hostVars, server, snap>>

PolicyRemoved ==
  /\ Goto("down_policy", "down_tun_default")
  /\ net.policy = {} \/ Ineffective
  /\ "iptables" \in host.tools
  /\ UNCHANGED <<hostVars, server, snap>>

\* FileNotFoundError of _run: nothing after this statement is undone.
ApplyDownRaises ==
  /\ \/ pc = "down_v6" /\ "ip6tables" \notin host.tools
     \/ /\ pc = "down_policy" /\ "iptables" \notin host.tools
        /\ net.policy \cap {"pin", "main"} = {} \/ Ineffective
  /\ pc' = "down_raised"
  /\ UNCHANGED <<hostVars, server, snap>>

DeleteTunDefault ==
  /\ Goto("down_tun_default", "down_link")
  /\ \/ Effective /\ net' = [net EXCEPT !.defaults = @ \ {Tun}]
     \/ Ineffective /\ UNCHANGED net
  /\ UNCHANGED <<host, procVars, dns, disk, clash, server, snap>>

\* `ip link set down`, which takes the routes over drkvl0 away, and `ip link del`.
DeleteLink ==
  /\ Goto("down_link", IF snap = NoSnap THEN "down_dns" ELSE "down_unpin")
  /\ \/ Effective /\ net' = LinkGone /\ dns' = LinkDnsGone
     \/ /\ Ineffective /\ DevExists
        /\ net' \in {net, [net EXCEPT !.link = "down", !.defaults = @ \ {Tun}]}
        /\ UNCHANGED dns
  /\ UNCHANGED <<host, procVars, disk, clash, server, snap>>

\* Mutant: the host route to the server stays.
UnpinNothing ==
  /\ Goto("down_unpin", "down_default")
  /\ UNCHANGED <<hostVars, server, snap>>

UnpinServer ==
  /\ Goto("down_unpin", "down_default")
  /\ \/ Effective /\ net' = [net EXCEPT !.pinned = @ \ {snap.server}]
     \/ Ineffective /\ UNCHANGED net
  /\ UNCHANGED <<host, procVars, dns, disk, clash, server, snap>>

\* Only when no default route is there.
RestoreDefault ==
  /\ Goto("down_default", "down_dns")
  /\ \/ /\ Effective
        /\ net' = [net EXCEPT !.defaults =
                     IF PhysDefaults = {} THEN @ \cup ({snap.default} \cap ViaGateway) ELSE @]
     \/ Ineffective /\ UNCHANGED net
  /\ UNCHANGED <<host, procVars, dns, disk, clash, server, snap>>

\* Mutant: the Default Route flag of the physical link stays off.
RevertTunOnly ==
  /\ Goto("down_dns", "down_done")
  /\ snap # NoSnap /\ snap.mode = "resolvectl"
  /\ dns' = LinkDnsGone
  /\ UNCHANGED <<host, procVars, net, disk, clash, server, snap>>

\* _restore_phys puts a flag back that was read, then drkvl0 is reverted.
RevertResolved ==
  /\ Goto("down_dns", "down_done")
  /\ snap # NoSnap /\ snap.mode = "resolvectl"
  /\ \/ /\ Effective
        /\ dns' = [dns EXCEPT !.tun = FALSE,
                              !.flag = IF snap.phys = "unknown" THEN @ ELSE snap.phys]
     \/ Ineffective /\ UNCHANGED dns
  /\ UNCHANGED <<host, procVars, net, disk, clash, server, snap>>

StartResolved ==
  /\ Goto("down_dns", "down_resolv")
  /\ snap # NoSnap => snap.mode # "resolvectl"
  /\ \/ Effective /\ dns' = [dns EXCEPT !.resolved = @ \/ (snap # NoSnap /\ snap.stopped)]
     \/ Ineffective /\ UNCHANGED dns
  /\ UNCHANGED <<host, procVars, net, disk, clash, server, snap>>

RestoreResolv ==
  /\ Goto("down_resolv", "down_done")
  /\ \/ /\ Effective
        /\ dns' = [dns EXCEPT !.resolv =
             IF snap # NoSnap /\ (snap.resolv = "symlink" \/ (snap.resolv = "file" /\ disk.bak))
             THEN snap.resolv ELSE @]
     \/ Ineffective /\ UNCHANGED dns
  /\ UNCHANGED <<host, procVars, net, disk, clash, server, snap>>

ApplyDown ==
  \/ StopTun2socks \/ UnblockIpv6 \/ RemoveArtefact \/ PolicyRemoved \/ ApplyDownRaises
  \/ DeleteTunDefault \/ DeleteLink \/ UnpinServer \/ RestoreDefault
  \/ RevertResolved \/ StartResolved \/ RestoreResolv
=============================================================================
