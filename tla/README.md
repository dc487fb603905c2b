# drkvl in TLA+

drkvl is a command-line VPN client for Linux: `drkvl up` starts xray (the proxy) and
tun2socks (a tun device, `drkvl0`, in front of it), pins the VPN server to the physical
network, moves the default route into `drkvl0`, blocks IPv6, points DNS at the tunnel;
`drkvl down` and `drkvl emergency-off` undo all that. Around it are a store of profiles,
subscriptions, speed tests and a menu. This directory holds the models, the model-checking
configurations and the proofs about it. Paths like `tun.py:516` are in `src/drkvl/`.

    tlc -workers 2 -config MCSession.cfg MCSession     # a run, see "Runs"
    tlapm PromiseProofs.tla                            # the proofs of a module, see "Proofs"

## Inventory

| part | state it keeps | operations | what makes it correct |
|---|---|---|---|
| session commands (`cli.py`) | none in memory between commands; `active.json` | `up [--fallback]`, `down`, `emergency-off` | a failed or finished session leaves the machine as it was found; while the user was told "up" nothing goes past the tunnel; every command ends |
| tunnel (`tun.py`) | kernel routes, rules, marks, `ip6tables`, resolver; `backup.json`, `resolv.bak` | `apply_up`, `apply_down`, `emergency` | no routing loop; the way back is on disk before the old default goes; IPv6 blocked exactly while IPv4 is tunnelled |
| daemons (`proc.py`) | pid files, two processes | start, stop, running? | no daemon is left, no stranger is signalled |
| proxy units (`clash.py`) | systemd units | `stop_active`, `start` | the units that were stopped run again |
| profile store (`storage.py`, `state.py`) | one file per profile, `default` | `add`, `rm`, `default`, load | the default loads; a save never destroys a profile |
| subscriptions (`sub.py`) | `subscriptions.json`: URL -> names | `sub`, `sub-update` | a refresh replaces exactly its own profiles |
| speed test (`speed.py`) | a throwaway xray per profile, a thread pool | `speedtest`, `up --fallback` | no process or file left; the result is the profile's own |
| `speedtest --full` (`cli.py:527-613`) | as the tunnel | one up/down per profile | the network is restored whatever a test does |
| xray configuration (`config.py`) | none; reads the lists and `ru_dns` | `build` | nothing but listed, RU and private destinations leaves outside the tunnel, names are resolved where they are routed |
| geo assets (`geo.py`) | two `.dat` files | `find`, `ensure` | a file that is there is whole |
| bypass lists, RU resolver (`bypass.py`, `cli.py`) | two list files, `ru_dns` | import, clear, `ru-dns` | a list means the sites and networks in it, never a public suffix or a broad network |
| links (`link.py`), menu (`tui.py`), display, statistics, ownership, installer | none of their own | text and I/O | - |

How the parts interact: commands are separate short-lived processes that share nothing but
the machine (routes, resolver, daemons) and the files below `~/.config/drkvl`. There is no
lock and no resident process. The daemons run in sessions of their own and go on when the
command is killed; when tun2socks dies, the kernel takes `drkvl0` and the routes over it
away. `up` writes BACKUP (the snapshot) for a later `down` to read.

What is hard here: a command has some thirty statements with an effect outside itself and
can fail, be killed or lose a daemon after each one; the record of what to undo is itself a
file that is written in two steps; the rollback is the teardown code run on a half-made set-up;
other programs (DHCP client, systemd-resolved) change the same state; two commands
can run at once. The complete list is `hazards` in `PROJECT.json`.

## Modules

**`Host`** is the machine: `proc`, `orphans`, `dying` and `socks` (the daemons), `net` (link,
default routes, pinned servers, policy routing, IPv6), `dns`, `disk` (BACKUP, RESOLV_BAK,
`stopped_clash`), `clash`. `linger` is the SIGKILL of `_stop` and the SIGTERM of `pkill`, which nobody waits for: the next command, or the next candidate of `--fallback`, may still
find the old listener on the SOCKS port or the old `drkvl0`. The actions of `Host` are what happens without a command: xray binds its
port, tun2socks makes the device, a daemon dies (with a pid file or without), a killed one lets go of its port or device, a route is re-added, a reboot.
`Faults` says which of the faults (`crash`, `torn`, `death`, `renew`, `reboot`, `linger`,
`unchecked`, `interrupt`) a run or a theorem allows, `Hosts` which machines it starts on.

**`Tunnel`** extends `Host`: `apply_up` and `apply_down`, one action per statement that
changes the machine, in the order of the code, with `pc` naming the statement that is next
(`up_pin`, `down_v6`, ...). `ApplyUpRaises` is every statement with `check=True`, every
missing program and every explicit raise; `ApplyDownRaises` is `FileNotFoundError`
of a program that `apply_down` needs. Every statement whose failure the code ignores (`check=False`,
a return code nobody reads, an `OSError` that is caught: from the copy of `resolv.conf` to each `ip ... del` of the teardown and `ip6tables -D`) has the alternatives
`Effective` and `Ineffective`, the latter under the fault `unchecked`.

**`Session`** extends `Tunnel`: `cmd_up`, `cmd_down`, `cmd_emergency` and
`speedtest --full`, from the guards they start with to the files they clear (pid files among them: `ClearPids`), the rollback of a
failed `up` or test, Ctrl-C, kills and reboots. The full speed test is the same `apply_up` and `apply_down` once per profile
(`FullBegins`, `Measured`, `AllTested`), with the tunnel down again before the next one. `Commands` says which
commands the user types in a run. `outcome` is what the last command told the user. `SessionProps` states the
properties, `MCSession` the machines for TLC.

**`Connection`** is the promise to the user on one page: plain, connecting, sealed, cut,
disconnecting, measuring. `SessionProps` maps a session to it (`Promise`, by `INSTANCE ... WITH`); the
mode between commands is read off the routes and the IPv6 block.

**`Store`** and **`Subscriptions`** (with `SubscriptionsProps`, `MCSubscriptions`): profile
files, DEFAULT and the URL map; every drkvl command is a client with its own `pc` and local
variables, each open, write, unlink and read of a shared file is a step, so that commands
interleave and kills leave empty files behind.

**`Proc`** (with `ProcProps`, `MCProc`) is `proc.py` one level below `Host`: a process table with
recycled pids and zombies, pid files that are truncated and written, `_start` and `_stop` split where another process can
act in between. **`Daemon`** is what `Host` and `Session` take a daemon for: none, spawned, known, and possibly an orphan.
`ProcProps!DaemonKept` maps `Proc` to it: while commands do not overlap (`alone`), a pid file, whatever it says, never makes
drkvl see more or fewer daemons than there are, except the one whose start was killed before its pid file.

**`Speed`** (with `SpeedProps`, `MCSpeed`): `run_tests`, one record `test[c][i]` per profile with the statement its thread is
at, its xray, its temporary file and its result; `port[i]` is who listens on `BASE_PORT + i`. Two commands use the same ports.

**`Rules`** holds the pure part of `bypass.py` and `config.py` (`RootDomain`, `FilterIp`, `Routing`, `Dns`) and what xray does with
a configuration (`Outbound`: the first matching rule; `Asked`: which servers are asked for a name). **`Geo`** is `geo.ensure`,
with `.part` files that two commands share and descriptors that follow a renamed file. **`Bypass`** composes them: clients
import, clear and set the RU resolver, file by file, while an `up` gets its geo data, makes the five reads of `build` in their order
writes XRAY_CONFIG, which two ups share, and starts xray. A write is an open that truncates and a write through that descriptor: when two commands write one
file, the later text lands on the head of the earlier one (`Written`, with the pieces that can be left of an entry in `DomainPieces` and `NetPieces`), and a
file that was removed in between takes the write with it (`Detached`). `BypassProps` asks of the running xray where names, addresses and queries go.

Theorems, see "Proofs": **`SessionProofs`**, **`SafetyProofs`**, **`TeardownProofs`** and **`PromiseProofs`** about the session, each
extending the one before; **`ProcProofs`**, **`StoreProofs`**, **`SpeedProofs`**, and **`BypassProofs`** about settings and geo data.

Abstractions. A route is a name, and only whether it names a gateway and a device matters.
A pid file that names no live daemon of its kind is the same as no pid file. Candidates of
`--fallback` are a set: any order of speeds. A tun2socks whose command is
killed before its pid is recorded makes its device at the moment of the kill (`Crash`). Sessions run one command at a time.
Orphans and dying daemons are sets of kinds: two orphaned xrays are one. In `Speed` an xray is gone after the SIGKILL of `_kill`; the code gives up
2 s later if the kernel has not ended it by then (`speed.py:104-107`).
`_clean_leftovers`, diagnostics and messages are left out.
The copy in RESOLV_BAK is told apart from none, not by age. In the store the order of a directory listing is
any order; profiles are told apart by the URL they came from. In `Rules` a host name is the sequence of its labels from the top
down and a network the prefix of its addresses, of one family. In `Speed` a latency is left out, so is the order it gives to the
results.

## Runs

| run | checks | expected | bounds | states |
|---|---|---|---|---|
| `session` (`MCSession.cfg`) | `TypeOK`, `AsFound`, `KillSwitch`, `PinsAccounted`, `ResolvKept`, `SnapshotNotClobbered`, `CommandsEnd`, `NoDaemonLeft`, `ConnectionKept` | pass | 5 machines, 2 servers, daemons that die or linger, all commands | 70 k |
| `crash` (`MCCrash.cfg`) | `DefaultRecoverable`, `BlockedOnlyWhenTunnelled`, `KernelClean`, `NoRoutingLoop`, `KillSwitch` | pass | 2 machines, 2 servers, kills, deaths, reboots, no full test | 993 k |
| `faults` (`MCFaults.cfg`) | `NoDaemonLeft` | pass | 4 machines that lack a program each, 1 server, all faults but `linger`, all commands | 4.9 M |
| `re_up` | `ResolvKept` | violation | kills | - |
| `both_dead` | `DownRestoresDefault` | violation | deaths | - |
| `rollback` | `FailedRollbackRecoverable` | violation | no fault, no ip6tables | - |
| `store` (`MCStore.cfg`) | `StoreTypeOK`, `DefaultLoads`, `ProfilesOwned`, `RefreshComplete`, `NeverOverwritten`, `StoreCommandsEnd` | pass | 1 client, 2 URLs of 1-2 links, indices to 2, 2 copies of a name, 1 kill | 729 k |
| `proc` (`MCProc.cfg`) | `StopMeansGone`, `CallsReturn`, `DaemonKept` | pass | 2 commands, 3 pids, the daemon tun2socks, a stranger's name | 439 k |
| `speed` (`MCSpeed.cfg`) | `NothingLeft`, `MeasuredThroughOwn`, `XraysBounded`, `TestsEnd` | pass | 2 commands, 2 profiles, 1 worker | 337 k |
| `bypass` (`MCBypass.cfg`) | `NeverStray`, `RoutedAsAsked`, `ResolvedWhereRouted`, `AssetsWhole`, `CommandsEnd` | pass | 2 commands, 2 lists of 4 entries together, 2 resolvers, 2 geo files, one of the three changing at a time | 422 k |
| `own_profiles` | `OnlyOwnTouched` | violation | 1 client, no kill | - |
| `two_clients` | `NeverOverwritten` | violation | 2 clients, no kill | - |

Why the bounds are enough. A session returns to `idle` with everything in the variables, so
runs of any number of commands are explored; two servers are what a stale pin needs to be
told from the current one (`faults` asks about daemons only and has one; daemons that linger are in `session`, they would multiply its states by six); a machine with two default routes, one with none that has
a gateway, with and without resolved, with each readable state of the link's flag covers every branch of the code.
The store's indices allow a refresh of two links beside another subscription's profile, and a second
copy of a name. Three pids let a daemon, another one and a stranger exist at once and each take the pid of another; the second daemon would
only repeat the first under another name, so it appears as a stranger. Two profiles for one worker make a test wait for another one's
thread; one command's xray meets another's on the same port with two. The imported lists have a site below its root, a bare public suffix with a network that
is too broad, a site below the suffix, and an IP literal as host name; two imports that overlap may cut the first as far as a longer name or a bare suffix; the names and addresses looked at are listed, related to a
listed one, RU, private, or none of these. In `MCSpec` the geo data, the lists and the resolver do not change in the same behaviour (`OneAtATime`): all
they share is that `up` reads one after the other. Two ups at once, which share geo data and XRAY_CONFIG, run with the lists and the resolver as installed.

Liveness is checked under weak fairness of `Command` (of each client's `Command` in the store): a
process that was started is scheduled again, and each of its waits has a deadline in the
code (`_await_socks`, `_wait_dev`, the retries of `_setup_dns_resolvectl`). The same holds for a call in `Proc` (20 polls, then SIGKILL), a
thread in `Speed` (a deadline of 3 s for the port, `curl --connect-timeout` under `subprocess` timeout, `_kill` with two waits) and a command in `Bypass` (`urlopen(timeout=30)`). Nothing is
assumed of the environment or the user: xrays may hang, a server may stop sending, daemons need not come up and nobody has to type `down`.
`CommandsEnd` is checked without route renewals: `_del_all_default_routes` makes at most sixteen deletions, which the model does not
count; with a program that adds a route after each one the model's loop, not the code's, could go on for ever.

Each property has a mutant in `PROJECT.json`: a definition next to the
real one (comment "Mutant: ...") with a plausible bug, under which TLC finds the property violated.

What the runs show: with daemons dying at any statement a session ends as it began or sealed, and
implements `Connection`; with kills and reboots at any statement the default route can be brought
back, a successful `down` or `emergency-off` leaves a clean kernel, there is no routing loop, and a session that came up is sealed; with every other fault at
once a failed command still leaves no daemon that a pid file names, and only a kill or a Ctrl-C lets one go on unseen. A `speedtest --full` that is not interrupted leaves the machine as it found it, whatever
fails in it. Pid files are as good as a table of daemons while commands do not overlap. A speed test cleans up after itself in
every case but a kill. Whatever the user changes while `up` reads, no name that was never on a list leaves the tunnel, as long as no two commands
change the lists at the same time; if they do, only names below a piece of a cut entry can.

## Where code and text disagree

Runs with a counterexample (`findings`):

- `re_up`: an `up` after a teardown that was killed before it restored `/etc/resolv.conf`
  takes the placeholder for the original (`tun.py:118`), although the comment at `tun.py:109` promises the opposite.
- `both_dead`: when both daemons died `drkvl0` is gone too, `down` says "not running" and the
  machine stays without a default route (`cli.py:380`).
- `rollback`: a failed rollback clears BACKUP and then recommends `emergency-off`, which needs it (`cli.py:365`).
- `own_profiles`: `rm` leaves the name in the subscription map, `next_index` gives it out again, and
  a refresh deletes a profile of another subscription (`cli.py:158` promises it does not).
- `two_clients`: `save` looks for a free name and opens it later without `O_EXCL` (`storage.py:95`: "uniquely-named").

Known divergences that have no run of their own; each is what the named property shows when the
named fault or machine is added to a run that passes without it:

- `crash` and `PinsAccounted`: after a kill late in a teardown a new `up` overwrites BACKUP, and the first
  session's host route survives every later `emergency-off`.
- `reboot` and `AsFound`: `/etc/resolv.conf` outlives the reboot with the placeholder in it; only `emergency-off` puts it back.
- `crash` and `AsFound`: a kill between `Popen` and the pid file leaves a daemon that `down` and `emergency-off`
  do not see (`proc.py:114`); a kill inside `_apply_dns` loses the resolver's old flag (`tun.py:286`).
- `torn` and `DefaultRecoverable`: BACKUP is rewritten in place after the default route was deleted (`tun.py:299`).
- `renew` and `KillSwitch`, `BlockedOnlyWhenTunnelled`: a DHCP lease adds a default route behind drkvl's back.
- `unchecked` and `KillSwitch`: `block_ipv6` ignores the result of `ip6tables` (`tun.py:174`). With `BlockedOnlyWhenTunnelled`: so does `unblock_ipv6`
  (`tun.py:164`), and IPv6 stays blocked beside a restored default. With `NoRoutingLoop`: if neither the default over `drkvl0` nor the device goes
  (`tun.py:556-558`), the pin goes all the same (`tun.py:564`).
- `linger`: a daemon that was killed and has not ended holds its port or device a moment longer. `AsFound` and `ConnectionKept` count it as gone; the next
  candidate's `_await_socks` may be answered by the old xray (`cli.py:343`), whose port the new one then cannot bind.
- machines without ip6tables: `unblock_ipv6` always raises, so `down` fails half way (`tun.py:164`); without
  systemd: `up` ends with a traceback and leaves xray running (`cli.py:351`).
- two default routes: only one is restored (`tun.py:567`); `AsFound` asks for a default route, not for all.
- `interrupt` and `AsFound`: Ctrl-C inside `apply_up` of a full test is no `RuntimeError`: no teardown runs, and the `finally` of `_speedtest_full`
  clears BACKUP (`cli.py:608`) with the default route gone; Ctrl-C before the measurement leaves xray running. The
  `finally` clears TUN2SOCKS_PID too: a later `down` does not find the running tun2socks and reports success. `cli.py:531` says "always
  restores the network in a finally".
- `crash`, all commands, and `KernelClean`: a full test clears the BACKUP of a session that was killed and not undone; a later
  `emergency-off` then sweeps only. `DefaultRecoverable` and `BlockedOnlyWhenTunnelled` hold there too.
- overlapping commands in `Proc` (`StopMeansGone` without `alone`): two starts lose one daemon, a stop removes the pid file of a start that has just
  finished. Also, SIGKILL after the polls goes to whoever has the pid by then: the polls ask for the pid without the name (`proc.py:165`; the comment
  at `proc.py:70` says "we never signal a stranger"). A zombie counts as alive for the process that started it, so a menu session
  that lost its xray is told "already running" until it reaps it, and the early exit of `_await_socks` (`cli.py:26`) never fires there.
- foreign ports in `Speed` (`MeasuredThroughOwn` without `quiet`): `port_open` takes any listener for the test's xray, so a second `speedtest`, or an
  xray left by a killed one, makes a profile "ok" that is not (`speed.py:89`).
- `ru-dns` with a tunnelled resolver (`Resolvers` with 1.1.1.1, `NeverStray` without its premise): `drkvl ru-dns 1.1.1.1` is accepted, and every
  query goes out in the clear; `config.py:11` says "Must be a DISTINCT IP from the tunnelled resolvers".
- settings that change between the two reads of `build` (`ResolvedWhereRouted` without its premise): the address of the RU server and the rule for
  it differ, or a name is resolved directly and reached through the tunnel.
- overlapping list changes (`NeverStray` without `BelowPiece`): `write_text` truncates at open and writes at offset 0 later (`storage.py:42-45`), so of two imports the shorter
  text may lie over the head of the longer one: `vk.ru` over `example.com` leaves the site `e.com`. A `bypass-clear` or `ru-dns default` between open and
  write loses the write, whose command reports success.
- two ups (`cli.py:223`): both write XRAY_CONFIG, and the xray of one may start from the configuration of the other; in the model such an xray has
  what the other one was told.
- overlapping downloads, or one cut short (`AssetsWhole` without `calm`): a partial `.dat` gets its final name, and as it is not empty nothing ever replaces it (`geo.py:28`).
- `config.py:343`: "try domain rules first, then resolve and try ip rules": the last rule matches every port, so the first pass always
  decides and a sniffed name is never looked up in `geoip:ru` (`Outbound` in `Rules`).
- `cli.py:336` recommends `--no-bypass` when the geo data cannot be had, but the rules still name `geoip:private` (`config.py:331`): xray
  fails for the same reason (`Loads` in `Bypass`).
- a kill in the store: DEFAULT may name a removed profile (`storage.py:148`), a refresh may leave profiles no URL owns.

## Proofs

Every safety invariant and every action property of a passing run has a theorem, for every value of the constants that the assumptions
admit; no theorem bounds the number of servers, routes, units, machines, commands, profiles, pids or list entries. Each inductive invariant was
checked with TLC before it was proved. The invariants of the session have one lemma for `apply_up`, one for `apply_down`, one for the
command's other statements and one for users, environment, kills and reboots, with one step per action.

Of the session, from `ConstantsAssumption` (in `Host`: the kinds of names are distinct, machines and faults are of the listed kinds):

- `SessionProofs!TypeCorrect`: `Spec => []TypeOK`. The inductive invariant `TypeInv` adds when `server` and `snap` are set.
- `SafetyProofs!NoLoopEver`: `Spec => []NoRoutingLoop` if `unchecked` is no fault, under every other one. `NoRoutingLoop` alone is not inductive:
  `LoopInv` adds that the pin of the running `up` is there from `up_verify` on, that memory, BACKUP and the
  argument agree on the server, that the default has left the tunnel at the statements that unpin or re-pin, and that a
  default through `drkvl0` needs the link to be up.
- `SafetyProofs!BlockFollowsRoute`: `Spec => []BlockedOnlyWhenTunnelled` if `renew` and `unchecked` are no faults. `BlockInv` adds
  where in `apply_up` no physical default is left and where in `apply_down` IPv6 is open again.
- `SafetyProofs!WayBackKept`: `Spec => []DefaultRecoverable` under `WayBackAssumption` (no torn writes, no silently failing
  `ip`, no Ctrl-C, every machine has a default route, `ip6tables` and `iptables`). `WayBackInv` adds where BACKUP is known to be on
  disk, that the teardown works on what BACKUP says, and that files are cleared only once a default is back.
- `TeardownProofs!NoDaemonEver`: `Spec => []NoDaemonLeft`, under every fault and on every machine. It is about the daemons a pid file names, and says which steps leave one that
  none names: a kill or a Ctrl-C. `DaemonsInv` adds where a daemon may be without a pid
  file, from which statement on both have been stopped, and that only a Ctrl-C lets a command clear its files with daemons running.
- `TeardownProofs!KernelCleaned`: `Spec => []KernelClean` under `WayBackAssumption` without `speedtest --full`, with kills and reboots. The
  full test is left out because the property does not hold with it ("a full test clears the BACKUP of a session that was killed", above).
- `SafetyProofs!SealedWhileUp`: `Spec => []KillSwitch` if `renew` and `unchecked` are no faults, on every machine, with kills, torn writes, Ctrl-C and
  reboots. `SealInv` extends `BlockInv` by what is sealed by which statement of `apply_up`: IPv6 from `up_dns` on, the resolver from
  `up_save_dns` on; everything else ends the promise before it opens anything (`Unsealed`).
- `PromiseProofs`: `FoundAgain` (`AsFound`), `PinsKnown` (`PinsAccounted`), `ResolvRecoverable`
  (`ResolvKept`), `BackupKept` (`SnapshotNotClobbered`) and `ConnectionSafe`: every step of a session is a step of `Connection` or a
  stutter. All hold under `UninterruptedAssumption`: of the faults only daemon deaths, and machines with a default route (without one `up` refuses to start),
  `ip6tables` and `iptables`; `ConnectionSafe` asks for `systemctl` as well. For `AsFound` none of this can be dropped: TLC finds it violated
  when any other fault is added or one of the two programs is missing (see "Where code and text disagree"); `PinsAccounted` would
  stand reboots and unchecked failures. Without `systemctl` a command ends with a traceback, which `Connection` does not know. The invariant, `PromiseInv`, has layers. `Ground` is `LoopInv`, `BlockInv`,
  `WayBackInv` and `DaemonsInv`, `Known` what the other layers take from them at which statement. `NetInv` is the kernel: where the network is plain, where
  exactly the server of BACKUP is pinned and IPv6 is blocked. `DnsInv` is the resolver: plain, or steered in one of the two ways, or changed with
  BACKUP, RESOLV_BAK and the memory of the command agreeing on how to undo it. `UnitsInv` is the proxy units: what has been
  stopped and is not running is in memory or in ACTIVE. Of `Connection`, the mode is computed from the statement of the command and, at rest, from routes and BACKUP.

Of the other parts:

- `ProcProofs`, from `ProcAssumption` (names, strangers and markers are distinct) and `WatchedAssumption`, for any number of commands: `StoppedIsGone`
  (`StopMeansGone`) and `DaemonSafe`, every step of `Proc` is a step of `Daemon` or a stutter. `ProcInv` says, while commands have
  not overlapped, that only one call is open, that a call to start owns its child until the pid file names it, that no other
  process can be what the pid file is about, and that a stop works on the pid in the file.
- `StoreProofs`, from the assumptions of `Store` and `Subscriptions`: `StoreTypeCorrect` for any number of commands; for one command at a time
  (`OneAtATime`) `NeverWrittenOver` (`NeverOverwritten`) and `RefreshWhole` (`RefreshComplete`) with kills at every step, `DefaultKept` (`DefaultLoads`) and
  `OwnedKept` (`ProfilesOwned`) until the first kill, as the properties say. The code has no lock, and the run `two_clients` shows what two commands do to the
  first. `SavedInv` says that the file a command is about to create is free, that what it has saved is there and its own, and that
  the map it is about to write has its entry; `CleanInv` adds what DEFAULT is at each statement (`Defaulted`), and that every
  profile of a URL is in the map, in memory or among those just saved (`OwnedBy`). That a set of names has a largest index comes from `<` being well-founded on the numbers.
- `SpeedProofs`: `LeavesNothing`, `OwnXrayMeasured` and `BoundedXrays` (`Spec => []NothingLeft`, `[]MeasuredThroughOwn`, `[]XraysBounded`), for
  any number of commands, any finite set of profiles and any number of workers (`SpeedAssumption`). `SpeedInv` adds at which statements a test has an
  xray and a file, that a command listens only through a test that knows its xray, and that while the ports are quiet no stranger
  listens and no two commands run; `TestStep` proves once what a step of a single test must respect. `WorkersInv` bounds the busy
  threads, of which the xrays are a part.
- `BypassProofs!AssetsAreWhole` (`AssetsWhole`), from `GeoAssumption`, for any files and any number of commands. `GeoInv` says, while `calm`, that one command
  at most downloads, that its descriptor is that of the `.part` file it is about to rename, and that nothing partial has a final name.
- `BypassProofs!StraysNever`, `RoutesAsAsked` and `ResolvesWhereRouted` (`NeverStray`, `RoutedAsAsked`, `ResolvedWhereRouted`), for all imported
  lists, names, addresses and interleavings. They are two arguments. `SettingsInv` is about reading and writing: a command that is
  alone has written what it was asked to (`AloneInv`), what an up was told is what the files hold while nobody writes (`Hold`), and what it has read by then
  is what it was told (`Agrees`). The lemmas `NameDecision`, `AddrDecision` and `QueryDecision` are about the configuration: they go through the rules of
  `Routing` in order and say which one decides; `RootDomainKeeps`, `DomainsKept` and `NetsKept` say what of an imported
  list gets into a rule: the site itself, never its public suffix, and no network broader than the code allows. `SettingsAssumption` and `DestinationAssumption` say that
  names are sequences of labels, that addresses of one family have one length, and that the addresses `ru-dns` accepts (IPv4) are not link-local.
  `ApartInv` says that while no two commands change the lists at once a file holds nothing but entries of imported lists, and `Written` shows what a second writer
  adds: pieces, which `SettingsAssumption` closes under cutting again. The bound `OneAtATime` of `MCBypass`, under which only one kind of setting changes in a behaviour, is no assumption of these theorems.

Only model-checked: liveness (`CommandsEnd` of sessions and of settings, `StoreCommandsEnd`, `CallsReturn`, `TestsEnd`, and the fairness part of
`ConnectionKept` and `DaemonKept`), which needs ENABLED and is beyond the prover; and the five runs that expect a violation, each of which is a counterexample.

## Plan

Done: `Host`, `Tunnel`, `Session` with the full speed test, `Connection`, `Proc` and `Daemon`, `Speed`, `Rules`, `Geo`, `Bypass`, `Store`,
`Subscriptions`, and the theorems above. Next, in this order:

1. Weaker assumptions: `PinsAccounted` with reboots; the refinement of `Connection` on machines without systemd.
2. What several store commands may still rely on: that no two of them write one file at a time is all that `NeverOverwritten` needs.
3. Two sessions at once on one `Host`, beyond what `Proc` says of their daemons.
4. The decoding of links (`link.py`) as operators: what a profile's file keeps of its link.

Not modelled and why: share links and the decoding of subscriptions are text to fields, with no state; the menu (`tui.py`) calls the commands above and keeps no
state of its own; display, statistics, paths, file ownership and the installer are output and I/O. `components` in `PROJECT.json` lists every part.
