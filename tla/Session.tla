------------------------------ MODULE Session ------------------------------
(***************************************************************************)
(* The commands that change the machine: drkvl up (with and without        *)
(* --fallback), down, emergency-off and speedtest --full, run one at a     *)
(* time on a Host, with the steps of the Tunnel in the middle, which the   *)
(* full speed test takes once per profile.  A command that refuses to start *)
(* changes nothing and is not an action, except down and emergency-off     *)
(* when they report that there is nothing to do.                           *)
(***************************************************************************)
EXTENDS Tunnel

CONSTANT Commands   \* what the user types: some of CommandNames

CommandNames == {"up", "down", "emergency", "full"}

ASSUME CommandsAssumption == Commands \subseteq CommandNames

VARIABLES
  cmd,       \* the running command; "sweep" is emergency-off without apply_down
  cand,      \* candidates of up, profiles of the full speed test not tried yet
  stopped,   \* cmd_up, cmd_down, cmd_emergency: stopped_clash
  outcome    \* what the last command told the user, "running" during one

localVars == <<pc, cmd, cand, server, snap, stopped, outcome>>
vars == <<hostVars, localVars>>

Init ==
  /\ HostInit
  /\ pc = "idle" /\ cmd = "none" /\ cand = {} /\ server = NoServer
  /\ snap = NoSnap /\ stopped = {} /\ outcome = "none"

\* A command ends: its local variables go, its result is o.
End(o) ==
  /\ pc' = "idle" /\ cmd' = "none" /\ cand' = {} /\ server' = NoServer
  /\ snap' = NoSnap /\ stopped' = {} /\ outcome' = o

Begin(c, at) ==
  /\ pc = "idle" /\ pc' = at
  /\ cmd' = c /\ outcome' = "running"

-----------------------------------------------------------------------------
\* cmd_up

\* C: the profile given, or the responders of --fallback that can be used here.
UpBegins(C) ==
  /\ Begin("up", "pick")
  /\ C # {}
  /\ ~Running("xray") /\ ~Running("tun2socks") /\ ~socks
  /\ PhysDefaults # {}
  /\ cand' = C
  /\ UNCHANGED <<hostVars, server, snap, stopped>>

\* The host does not resolve, xray is missing or exits within 0.15 s.
CandidateFails ==
  /\ pc = "pick"
  /\ \E s \in cand : cand' = cand \ {s}
  /\ UNCHANGED <<hostVars, pc, cmd, server, snap, stopped, outcome>>

\* Mutant: the server address of the attempt is not returned.
SpawnXrayOnly ==
  /\ Goto("pick", "record_xray")
  /\ \E s \in cand : cand' = cand \ {s}
  /\ proc' = [proc EXCEPT !["xray"] = "spawned"]
  /\ UNCHANGED <<host, orphans, dying, socks, net, dns, disk, clash,
                 cmd, server, snap, stopped, outcome>>

SpawnXray ==
  /\ Goto("pick", "record_xray")
  /\ \E s \in cand : server' = s /\ cand' = cand \ {s}
  /\ proc' = [proc EXCEPT !["xray"] = "spawned"]
  /\ UNCHANGED <<host, orphans, dying, socks, net, dns, disk, clash, cmd, snap, stopped, outcome>>

RecordXray ==
  /\ pc = "record_xray"
  /\ \/ /\ proc["xray"] = "spawned"
        /\ proc' = [proc EXCEPT !["xray"] = "known"]
        /\ pc' = "await_socks"
     \/ /\ proc["xray"] = "none"
        /\ pc' = "pick"
        /\ UNCHANGED proc
  /\ UNCHANGED <<host, orphans, dying, socks, net, dns, disk, clash,
                 cmd, cand, server, snap, stopped, outcome>>

SocksAnswers ==
  /\ Goto("await_socks", IF cmd = "full" THEN "up_dev" ELSE "stop_clash")
  /\ socks
  /\ UNCHANGED <<hostVars, cmd, cand, server, snap, stopped, outcome>>

\* Mutant: _await_socks gives up only when xray is dead.
SocksNoTimeout ==
  /\ Goto("await_socks", "pick")
  /\ ~socks /\ ~Running("xray")
  /\ UNCHANGED <<hostVars, cmd, cand, server, snap, stopped, outcome>>

\* xray died, or 3 s are over: the next candidate is tried.
SocksTimeout ==
  /\ Goto("await_socks", "pick")
  /\ ~socks
  /\ StopDaemon("xray")
  /\ UNCHANGED <<host, disk, clash, cmd, cand, server, snap, stopped, outcome>>

NoneConnects ==
  /\ pc = "pick" /\ cand = {} /\ cmd = "up"
  /\ End("failed")
  /\ UNCHANGED hostVars

\* clash.stop_active: every active unit, the ones that would not stop included.
StopUnit(u) ==
  /\ pc = "stop_clash"
  /\ "systemctl" \in host.tools
  /\ u \in clash \ stopped
  /\ stopped' = stopped \cup {u}
  /\ \/ Effective /\ clash' = clash \ {u}
     \/ Ineffective /\ UNCHANGED clash
  /\ UNCHANGED <<host, procVars, net, dns, disk, pc, cmd, cand, server, snap, outcome>>

UnitsStopped ==
  /\ Goto("stop_clash", IF cmd = "full" THEN "pick" ELSE "up_dev")
  /\ "systemctl" \in host.tools
  /\ clash \subseteq stopped
  /\ UNCHANGED <<hostVars, cmd, cand, server, snap, stopped, outcome>>

\* Popen raises FileNotFoundError, outside the try of cmd_up and _speedtest_full.
NoSystemctl ==
  /\ pc = "stop_clash" /\ "systemctl" \notin host.tools
  /\ End("traceback")
  /\ UNCHANGED hostVars

SaveActive ==
  /\ pc = "up_done" /\ cmd = "up"
  /\ disk' = [disk EXCEPT !.active = stopped]
  /\ End("up")
  /\ UNCHANGED <<host, procVars, net, dns, clash>>

\* Mutant: the rollback starts with apply_down and leaves xray running.
RollBackTunnelOnly ==
  /\ Goto("up_raised", "down_t2")
  /\ UNCHANGED <<hostVars, cmd, cand, server, snap, stopped, outcome>>

\* Mutant: a failed up only restarts the proxy units and clears its files.
RollBackNothing ==
  /\ Goto("up_raised", "start_clash")
  /\ UNCHANGED <<hostVars, cmd, cand, server, snap, stopped, outcome>>

RollBack ==
  /\ Goto("up_raised", "stop_xray")
  /\ UNCHANGED <<hostVars, cmd, cand, server, snap, stopped, outcome>>

-----------------------------------------------------------------------------
\* _speedtest_full: the units stop first, then every testable profile goes through
\* the steps of an up, is measured and torn down; C is empty if none is testable.
FullBegins(C) ==
  /\ Begin("full", "stop_clash")
  /\ ~Running("xray") /\ ~Running("tun2socks") /\ ~DevExists /\ ~socks
  /\ PhysDefaults # {}
  /\ cand' = C
  /\ UNCHANGED <<hostVars, server, snap, stopped>>

\* Mutant: a measured profile is not torn down before the next one.
MeasuredOnly ==
  /\ Goto("up_done", "pick")
  /\ cmd = "full"
  /\ UNCHANGED <<hostVars, cmd, cand, server, snap, stopped, outcome>>

\* curl_direct came to an end, with whatever result.
Measured ==
  /\ Goto("up_done", "stop_xray")
  /\ cmd = "full"
  /\ UNCHANGED <<hostVars, cmd, cand, server, snap, stopped, outcome>>

AllTested ==
  /\ Goto("pick", "start_clash")
  /\ cand = {} /\ cmd = "full"
  /\ UNCHANGED <<hostVars, cmd, cand, server, snap, stopped, outcome>>

-----------------------------------------------------------------------------
\* cmd_down, cmd_emergency

DownNotRunning ==
  /\ pc = "idle"
  /\ ~Running("xray") /\ ~Running("tun2socks") /\ ~DevExists
  /\ End("not running")
  /\ UNCHANGED hostVars

DownBegins ==
  /\ Begin("down", "stop_xray")
  /\ Running("xray") \/ Running("tun2socks") \/ DevExists
  /\ stopped' = disk.active
  /\ UNCHANGED <<hostVars, cand, server, snap>>

Leftovers == DevExists \/ Snap \/ disk.bak

NothingToClean ==
  /\ pc = "idle"
  /\ ~(Running("xray") \/ Running("tun2socks") \/ Leftovers) /\ disk.active = {}
  /\ End("nothing to clean")
  /\ UNCHANGED hostVars

\* tun.emergency returns at once when only stopped units are left over.
EmergencyBegins ==
  /\ \/ Leftovers /\ Begin("emergency", "stop_xray")
     \/ /\ ~Leftovers /\ (Running("xray") \/ Running("tun2socks"))
        /\ Begin("sweep", "stop_xray")
     \/ /\ ~Leftovers /\ ~Running("xray") /\ ~Running("tun2socks") /\ disk.active # {}
        /\ Begin("emergency", "start_clash")
  /\ stopped' = disk.active
  /\ UNCHANGED <<hostVars, cand, server, snap>>

\* Also the first step of cmd_up's rollback; BACKUP is loaded for apply_down.
StopXray ==
  /\ Goto("stop_xray", IF cmd \in {"emergency", "sweep"} THEN "pkill" ELSE "down_t2")
  /\ StopDaemon("xray")
  /\ snap' = disk.backup
  /\ UNCHANGED <<host, disk, clash, cmd, cand, server, stopped, outcome>>

\* Whatever is named xray or tun2socks, recorded or not.  pkill sends a SIGTERM and
\* does not wait: those in L hold what they have a moment longer.
Pkill ==
  /\ Goto("pkill", IF cmd = "emergency" THEN "down_t2" ELSE "clear_pids")
  /\ \E L \in SUBSET {d \in Daemons : proc[d] # "none" \/ d \in orphans \cup dying} :
       /\ L # {} => "linger" \in Faults
       /\ dying' = L
       /\ socks' = (socks /\ "xray" \in L)
       /\ IF "tun2socks" \in L THEN UNCHANGED <<net, dns>>
          ELSE net' = LinkGone /\ dns' = LinkDnsGone
  /\ proc' = [d \in Daemons |-> "none"]
  /\ orphans' = {}
  /\ UNCHANGED <<host, disk, clash, cmd, cand, server, snap, stopped, outcome>>

\* clash.start comes before the files are cleared, in emergency-off after it; the
\* full speed test goes on with the next profile, whether or not the teardown raised.
TornDown ==
  /\ Goto("down_done", CASE cmd = "emergency" -> "clear_pids"
                         [] cmd = "full" -> "pick"
                         [] OTHER -> "start_clash")
  /\ UNCHANGED <<hostVars, cmd, cand, server, snap, stopped, outcome>>

TeardownRaised ==
  /\ pc = "down_raised"
  /\ \/ cmd = "down" /\ End("down failed")
     \/ /\ cmd = "emergency" /\ pc' = "clear_pids"
        /\ UNCHANGED <<cmd, cand, server, snap, stopped, outcome>>
     \/ /\ cmd = "full" /\ pc' = "pick"
        /\ UNCHANGED <<cmd, cand, server, snap, stopped, outcome>>
     \/ /\ cmd = "up" /\ pc' = "start_clash" /\ outcome' = "rollback failed"
        /\ UNCHANGED <<cmd, cand, server, snap, stopped>>
  /\ UNCHANGED hostVars

StartUnit(u) ==
  /\ pc = "start_clash"
  /\ u \in stopped
  /\ stopped' = stopped \ {u}
  /\ \/ Effective /\ clash' = clash \cup {u}
     \/ Ineffective /\ UNCHANGED clash
  /\ UNCHANGED <<host, procVars, net, dns, disk, pc, cmd, cand, server, snap, outcome>>

Report ==
  CASE cmd = "down" -> "down"
    [] cmd = "up" -> IF outcome = "rollback failed" THEN outcome ELSE "failed"
    [] cmd = "full" -> IF outcome = "interrupted" THEN outcome ELSE "tested"
    [] OTHER -> "cleaned"

UnitsStarted ==
  /\ pc = "start_clash" /\ stopped = {}
  /\ IF cmd \in {"emergency", "sweep"}
     THEN End(Report)
     ELSE /\ pc' = "clear_pids"
          /\ UNCHANGED <<cmd, cand, server, snap, stopped, outcome>>
  /\ UNCHANGED hostVars

\* A daemon that still runs loses its pid file: tun2socks after a Ctrl-C in a full
\* test, whose finally clears this file, and not ACTIVE.
ClearPids ==
  LET cleared == IF cmd \in {"emergency", "sweep"} THEN Daemons ELSE {"tun2socks"}
  IN  /\ Goto("clear_pids", IF cmd = "full" THEN "clear_backup" ELSE "clear_active")
      /\ orphans' = orphans \cup {d \in cleared : Running(d)}
      /\ proc' = [d \in Daemons |-> IF d \in cleared THEN "none" ELSE proc[d]]
  /\ UNCHANGED <<host, dying, socks, net, dns, disk, clash,
                 cmd, cand, server, snap, stopped, outcome>>

ClearActive ==
  /\ Goto("clear_active", "clear_backup")
  /\ disk' = [disk EXCEPT !.active = {}]
  /\ UNCHANGED <<host, procVars, net, dns, clash, cmd, cand, server, snap, stopped, outcome>>

ClearBackup ==
  /\ Goto("clear_backup", "clear_bak")
  /\ disk' = [disk EXCEPT !.backup = NoSnap]
  /\ UNCHANGED <<host, procVars, net, dns, clash, cmd, cand, server, snap, stopped, outcome>>

ClearResolvBak ==
  /\ pc = "clear_bak"
  /\ disk' = [disk EXCEPT !.bak = FALSE]
  /\ IF cmd \in {"emergency", "sweep"}
     THEN pc' = "start_clash" /\ UNCHANGED <<cmd, cand, server, snap, stopped, outcome>>
     ELSE End(Report)
  /\ UNCHANGED <<host, procVars, net, dns, clash>>

-----------------------------------------------------------------------------
\* The command or the machine stops.

\* The daemons run in sessions of their own and survive: one whose pid was not
\* written yet stays behind unrecorded, and tun2socks goes on to make drkvl0.
Unrecorded ==
  /\ orphans' = orphans \cup {d \in Daemons : proc[d] = "spawned"}
  /\ proc' = [d \in Daemons |-> IF proc[d] = "spawned" THEN "none" ELSE proc[d]]
  /\ net' = [net EXCEPT !.link =
               IF proc["tun2socks"] = "spawned" /\ @ = "absent" THEN "down" ELSE @]

Crash ==
  /\ "crash" \in Faults
  /\ pc # "idle"
  /\ End("crashed")
  /\ Unrecorded
  /\ disk' \in {disk} \cup
       IF "torn" \in Faults /\ pc \in {"up_snapshot", "up_save_dns"}
       THEN {[disk EXCEPT !.backup = NoSnap]} ELSE {}
  /\ UNCHANGED <<host, dying, socks, dns, clash>>

\* Ctrl-C in the loop over the profiles: during the measurement the profile is torn
\* down first, elsewhere the finally of _speedtest_full comes at once, for
\* KeyboardInterrupt is neither a RuntimeError nor an Exception.
Interrupt ==
  /\ "interrupt" \in Faults
  /\ cmd = "full" /\ pc \notin {"stop_clash", "start_clash", "clear_pids", "clear_backup", "clear_bak"}
  /\ pc' = IF pc = "up_done" THEN "stop_xray" ELSE "start_clash"
  /\ cand' = {} /\ outcome' = "interrupted"
  /\ Unrecorded
  /\ UNCHANGED <<host, dying, socks, dns, disk, clash, cmd, server, snap, stopped>>

Reboot ==
  /\ "reboot" \in Faults
  /\ MachineRestarts
  /\ End("rebooted")

-----------------------------------------------------------------------------
Command ==
  \/ CandidateFails \/ SpawnXray \/ RecordXray \/ SocksAnswers \/ SocksTimeout
  \/ NoneConnects \/ UnitsStopped \/ NoSystemctl \/ SaveActive \/ RollBack
  \/ Measured \/ AllTested
  \/ \E u \in Units : StopUnit(u) \/ StartUnit(u)
  \/ StopXray \/ Pkill \/ TornDown \/ TeardownRaised \/ UnitsStarted
  \/ ClearPids \/ ClearActive \/ ClearBackup \/ ClearResolvBak
  \/ (ApplyUp \/ ApplyDown) /\ UNCHANGED <<cmd, cand, stopped, outcome>>

User ==
  \/ "up" \in Commands /\ \E C \in SUBSET Servers : UpBegins(C)
  \/ "full" \in Commands /\ \E C \in SUBSET Servers : FullBegins(C)
  \/ "down" \in Commands /\ (DownNotRunning \/ DownBegins)
  \/ "emergency" \in Commands /\ (NothingToClean \/ EmergencyBegins)

Next ==
  \/ Command
  \/ User
  \/ Environment /\ UNCHANGED localVars
  \/ Crash
  \/ Interrupt
  \/ Reboot

\* A command that was started keeps running; nobody has to type another one.
Spec == Init /\ [][Next]_vars /\ WF_vars(Command)
=============================================================================
