----------------------------- MODULE MCSession -----------------------------
(***************************************************************************)
(* Small instances of the Session for TLC: the machines a run starts from. *)
(***************************************************************************)
EXTENDS SessionProps, TLC

CONSTANTS s1, s2, eth, wlan, ppp, unit

Machine(tools, phys, resolved, resolv, flag, units) ==
  [tools |-> tools, phys |-> phys, resolved |-> resolved, resolv |-> resolv,
   flag |-> flag, units |-> units]

\* resolved or plain resolv.conf, a readable flag or none, one default route
\* or two, one of them without a gateway, a proxy unit or none.
MCHosts ==
  {Machine(Tools, {eth}, TRUE, "symlink", "yes", {unit}),
   Machine(Tools, {eth}, TRUE, "file", "unknown", {}),
   Machine(Tools, {eth, wlan}, FALSE, "file", "unknown", {unit}),
   Machine(Tools \ {"resolvectl"}, {eth}, TRUE, "symlink", "no", {}),
   Machine(Tools, {ppp}, FALSE, "file", "unknown", {})}

\* A machine with resolved and one without, one default route each.
FewHosts ==
  {Machine(Tools, {eth}, TRUE, "file", "yes", {unit}),
   Machine(Tools, {eth}, FALSE, "file", "unknown", {unit})}

\* Machines that lack programs the code runs: one of those it cannot do without, or
\* resolvectl, without which resolved is stopped.
NoIp6tables == {Machine(Tools \ {"ip6tables"}, {eth}, TRUE, "symlink", "unknown", {unit})}
NoIptables == {Machine(Tools \ {"iptables"}, {eth}, FALSE, "file", "unknown", {})}
NoSystemd == {Machine({"ip6tables", "iptables"}, {eth}, FALSE, "file", "unknown", {})}
NoResolvectl == {Machine(Tools \ {"resolvectl"}, {eth}, TRUE, "symlink", "unknown", {})}
PoorHosts == NoIp6tables \cup NoIptables \cup NoSystemd \cup NoResolvectl

MCServers == {s1, s2}
OneServer == {s1}
MCRoutes == {eth, wlan, ppp}
MCViaGateway == {eth, wlan}
MCUnits == {unit}
NoFaults == {}
Connecting == {"up", "down", "emergency"}
\* Daemons die at any moment, or outlive their SIGKILL for one.
Deaths == {"death", "linger"}
AllButLinger == FaultKinds \ {"linger"}
Crashes == {"crash"}
CrashesAndDeaths == {"crash", "death", "reboot"}

ServerSymmetry == Permutations(MCServers)
=============================================================================
