------------------------------- MODULE Bypass -------------------------------
(***************************************************************************)
(* The settings that decide what leaves outside the tunnel, and the        *)
(* configuration made of them: commands that replace the imported lists    *)
(* (bypass-import, bypass-clear) or the resolver for RU names (ru-dns),    *)
(* file by file, while an up looks for the geo data, reads the settings    *)
(* one after the other, the first two of them twice, writes XRAY_CONFIG    *)
(* and starts xray.                                                        *)
(*                                                                         *)
(* Abstraction: a file is truncated when it is opened, and written later   *)
(* through that descriptor; of two texts written over each other either    *)
(* may be the longer one.  The rest of up is in Session.                   *)
(***************************************************************************)
EXTENDS Rules, Geo, FiniteSets

CONSTANTS
  ImportFiles,   \* files given to bypass-import: sets of [host, ip]
  Resolvers,     \* IPv4 addresses given to ru-dns
  DomainPieces,  \* <<e, p>>: the text of entry e without its head reads as p
  NetPieces,
  Absent,        \* no file
  Torn,          \* a file that is truncated and not written yet, or no address
  Unknown        \* what the user asked for is not one command's word

ASSUME SettingsAssumption ==
  /\ {Absent, Torn} \cap Resolvers = {}
  /\ Unknown \notin ImportFiles \cup {{}} /\ Unknown \notin Resolvers \cup {DnsRu}
  /\ \A x \in DomainPieces : x = <<x[1], x[2]>>
  /\ \A x, y \in DomainPieces : x[2] = y[1] => <<x[1], y[2]>> \in DomainPieces

VARIABLES
  domains, ips,  \* the entries of BYPASS_DOMAINS, BYPASS_IPS
  ruFile,        \* RU_DNS
  cmd,           \* cmd[c]: the command client c is in, its next step and its locals
  running,       \* the running xray: what its configuration was built from
  asked,         \* [lists, ru]: what the last import or clear, the last ru-dns asked for
  apart          \* no two commands have changed the lists at the same time

vars == <<domains, ips, ruFile, cmd, running, asked, apart, geoVars>>
settings == <<domains, ips, ruFile>>

NoSeen == [dnsDomains |-> {}, dnsRu |-> DnsRu, ru |-> DnsRu, domains |-> {}, ips |-> {}]

\* arg: what is to be written, fd: where the open descriptor leads; alone: no other
\* command changed the same settings meanwhile; bypass, dir, seen, told: what an up was
\* given and has found; config: what XRAY_CONFIG holds now that it starts xray.
None == [op |-> "none", at |-> "none", arg |-> Nothing, fd |-> "file", alone |-> TRUE,
         bypass |-> FALSE, dir |-> "none", seen |-> NoSeen,
         told |-> [lists |-> Unknown, ru |-> Unknown], config |-> Nothing]

Init ==
  /\ GeoInit
  /\ domains = {} /\ ips = {} /\ ruFile = Absent
  /\ cmd = [c \in Clients |-> None]
  /\ running = Nothing
  /\ asked = [lists |-> {}, ru |-> DnsRu]
  /\ apart = TRUE

At(c, op, at) == cmd[c].op = op /\ cmd[c].at = at
Goto(c, at) == cmd' = [cmd EXCEPT ![c].at = at]
Done(c) == cmd' = [cmd EXCEPT ![c] = None]

\* A command whose open file was removed writes to no file any more.
Detached(k, op, at) == IF k.op = op /\ k.at = at THEN [k EXCEPT !.fd = "gone"] ELSE k

\* ru_dns(): what is not an address is the default.
RuDns == IF ruFile \in {Absent, Torn} THEN DnsRu ELSE ruFile

-----------------------------------------------------------------------------
\* The commands that change settings.

\* A command starts to change the lists or the resolver ("what"): until it is done
\* nobody can say what they are, and it does not know what another one made of them.
Begin(c, op, what, arg) ==
  LET Same(d) == cmd[d].op \in (IF what = "lists" THEN {"import", "clear"} ELSE {"ru-dns"})
      lone == \A d \in Clients : ~Same(d)
      Left(d) == IF op = "clear" THEN Detached(cmd[d], "import", "second") ELSE cmd[d]
  IN
  /\ cmd[c] = None
  /\ cmd' = [d \in Clients |->
       IF d = c THEN [None EXCEPT !.op = op, !.at = "second", !.arg = arg, !.alone = lone]
       ELSE IF Same(d) THEN [Left(d) EXCEPT !.alone = FALSE]
       ELSE [cmd[d] EXCEPT !.told[what] = Unknown]]
  /\ asked' = [asked EXCEPT ![what] = Unknown]
  /\ apart' = (apart /\ (what = "lists" => lone))
  /\ UNCHANGED <<running, geoVars>>

Finish(c, what, value) ==
  /\ asked' = [asked EXCEPT ![what] = IF cmd[c].alone THEN value ELSE Unknown]
  /\ UNCHANGED <<running, apart, geoVars>>

\* What may stick out of an old text whose head was overwritten.
Leftovers(old, pieces) ==
  {{}} \cup UNION {{S \cup P : S \in SUBSET (old \ {e}),
                         P \in {{}} \cup {{x[2]} : x \in {y \in pieces : y[1] = e}}} : e \in old}

\* The text is written at the start of what another command wrote in the meantime.
Overwritten(old, new, pieces) ==
  IF new = {} THEN {old}
  ELSE IF old = new THEN {new} ELSE {new \cup rest : rest \in Leftovers(old, pieces)}

\* What write_text leaves in a file with these contents, given its descriptor.
Written(c, old, new, pieces) ==
  IF cmd[c].fd = "gone" THEN {old} ELSE Overwritten(old, new, pieces)

\* The file was read and parsed; one that cannot be changes nothing.
Import(c, file) ==
  /\ Begin(c, "import", "lists", file)
  /\ domains' = {}
  /\ UNCHANGED <<ips, ruFile>>

WriteDomains(c) ==
  /\ At(c, "import", "second")
  /\ domains' \in Written(c, domains, Domains(cmd[c].arg), DomainPieces)
  /\ Goto(c, "third")
  /\ UNCHANGED <<ips, ruFile, asked, apart, running, geoVars>>

OpenIps(c) ==
  /\ At(c, "import", "third")
  /\ ips' = {}
  /\ cmd' = [cmd EXCEPT ![c].at = "fourth", ![c].fd = "file"]
  /\ UNCHANGED <<domains, ruFile, asked, apart, running, geoVars>>

WriteIps(c) ==
  /\ At(c, "import", "fourth")
  /\ ips' \in Written(c, ips, Nets(cmd[c].arg), NetPieces)
  /\ Done(c)
  /\ Finish(c, "lists", cmd[c].arg)
  /\ UNCHANGED <<domains, ruFile>>

Clear(c) ==
  /\ Begin(c, "clear", "lists", {})
  /\ domains' = {}
  /\ UNCHANGED <<ips, ruFile>>

ClearIps(c) ==
  /\ At(c, "clear", "second")
  /\ ips' = {}
  /\ cmd' = [d \in Clients |-> IF d = c THEN None ELSE Detached(cmd[d], "import", "fourth")]
  /\ Finish(c, "lists", {})
  /\ UNCHANGED <<domains, ruFile>>

\* cmd_ru_dns with an IPv4 address; any other argument changes nothing.
SetRuDns(c, addr) ==
  /\ Begin(c, "ru-dns", "ru", addr)
  /\ ruFile' = Torn
  /\ UNCHANGED <<domains, ips>>

\* Of two addresses written over each other nothing may be left that is one, or a third.
WriteRuDns(c) ==
  /\ At(c, "ru-dns", "second")
  /\ ruFile' \in CASE cmd[c].fd = "gone" -> {ruFile}
                   [] cmd[c].fd # "gone" /\ ruFile \in {Torn, cmd[c].arg} -> {cmd[c].arg}
                   [] OTHER -> Resolvers \cup {Torn}
  /\ Done(c)
  /\ Finish(c, "ru", cmd[c].arg)
  /\ UNCHANGED <<domains, ips>>

\* ru-dns default: one step, which another ru-dns may undo.
ResetRuDns(c) ==
  LET lone == \A d \in Clients : cmd[d].op # "ru-dns" IN
  /\ cmd[c] = None
  /\ ruFile' = Absent
  /\ asked' = [asked EXCEPT !.ru = IF lone THEN DnsRu ELSE Unknown]
  /\ cmd' = [d \in Clients |-> [Detached(cmd[d], "ru-dns", "second")
               EXCEPT !.told.ru = Unknown, !.alone = @ /\ cmd[d].op # "ru-dns"]]
  /\ UNCHANGED <<domains, ips, running, apart, geoVars>>

-----------------------------------------------------------------------------
\* cmd_up, as far as the configuration goes: geo.ensure, config.build and dump,
\* start_xray.

Up(c, bypass) ==
  /\ cmd[c] = None /\ running = Nothing
  /\ cmd' = [cmd EXCEPT ![c] = [None EXCEPT !.op = "up", !.bypass = bypass,
                                            !.at = IF bypass THEN "geo" ELSE "dump"]]
  /\ fetch' = IF bypass THEN [fetch EXCEPT ![c] = [Idle EXCEPT !.at = "check"]] ELSE fetch
  /\ UNCHANGED <<settings, running, asked, apart, target, part, system, calm>>

\* ensure returned; with geo data in ASSETS those come first.
GeoFound(c) ==
  /\ At(c, "up", "geo") /\ fetch[c].at = "found"
  /\ \E all \in {HasAll, AllWhole} :
       cmd' = [cmd EXCEPT ![c].at = "dnsDomains", ![c].told = asked,
                          ![c].dir = IF all \/ ~system THEN "assets" ELSE "system"]
  /\ fetch' = [fetch EXCEPT ![c] = Idle]
  /\ UNCHANGED <<settings, running, asked, apart, target, part, system, calm>>

GeoFailed(c) ==
  /\ At(c, "up", "geo") /\ fetch[c].at = "failed"
  /\ Done(c)
  /\ fetch' = [fetch EXCEPT ![c] = Idle]
  /\ UNCHANGED <<settings, running, asked, apart, target, part, system, calm>>

\* The next read of _dns or _routing.
Read(c, at, value, next) ==
  /\ At(c, "up", at)
  /\ cmd' = [cmd EXCEPT ![c].at = next, ![c].seen[at] = value]
  /\ UNCHANGED <<settings, running, asked, apart, geoVars>>

ReadSettings(c) ==
  \/ Read(c, "dnsDomains", domains, "dnsRu")
  \/ Read(c, "dnsRu", RuDns, "ru")
  \/ Read(c, "ru", RuDns, "domains")
  \/ Read(c, "domains", domains, "ips")
  \/ Read(c, "ips", ips, "dump")

\* config.dump to XRAY_CONFIG, which another up may be about to start xray with.
WriteConfig(c) ==
  LET built == [bypass |-> cmd[c].bypass, seen |-> cmd[c].seen, told |-> cmd[c].told] IN
  /\ At(c, "up", "dump")
  /\ cmd' = [d \in Clients |->
       IF d = c THEN [cmd[c] EXCEPT !.at = "start", !.config = built]
       ELSE IF At(d, "up", "start") THEN [cmd[d] EXCEPT !.config = built] ELSE cmd[d]]
  /\ UNCHANGED <<settings, running, asked, apart, geoVars>>

\* xray needs the geo data of its rules, with or without bypass; without asset_dir
\* it looks in the system directories.  A partial file may do.
Loads(c) == IF cmd[c].dir = "assets" THEN HasAll ELSE system

XrayStarts(c) ==
  /\ At(c, "up", "start") /\ Loads(c) /\ running = Nothing
  /\ running' = cmd[c].config
  /\ Done(c)
  /\ UNCHANGED <<settings, asked, apart, geoVars>>

\* No data, a partial file, a list or a configuration that does not parse, the port is
\* taken, or any other reason.
XrayFails(c) ==
  /\ At(c, "up", "start")
  /\ Done(c)
  /\ UNCHANGED <<settings, running, asked, apart, geoVars>>

-----------------------------------------------------------------------------
\* down, a crash of xray
Down ==
  /\ running # Nothing
  /\ running' = Nothing
  /\ UNCHANGED <<settings, cmd, asked, apart, geoVars>>

Kill(c) ==
  /\ cmd[c] # None
  /\ Done(c)
  /\ fetch' = [fetch EXCEPT ![c] = Idle]
  /\ UNCHANGED <<settings, running, asked, apart, target, part, system, calm>>

Ensuring(c) == Ensure(c) /\ UNCHANGED <<settings, cmd, running, asked, apart>>

Proceed(c) ==
  \/ WriteDomains(c) \/ OpenIps(c) \/ WriteIps(c) \/ ClearIps(c) \/ WriteRuDns(c)
  \/ GeoFound(c) \/ GeoFailed(c) \/ Ensuring(c)
  \/ ReadSettings(c) \/ WriteConfig(c) \/ XrayStarts(c) \/ XrayFails(c)

Next ==
  \/ \E c \in Clients :
       \/ \E file \in ImportFiles : Import(c, file)
       \/ \E addr \in Resolvers : SetRuDns(c, addr)
       \/ Clear(c) \/ ResetRuDns(c)
       \/ \E bypass \in BOOLEAN : Up(c, bypass)
       \/ Proceed(c) \/ Kill(c)
  \/ Down

Fairness == \A c \in Clients : WF_vars(Proceed(c))

Spec == Init /\ [][Next]_vars /\ Fairness
=============================================================================
