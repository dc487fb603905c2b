------------------------------ MODULE ProcProps ------------------------------
(***************************************************************************)
(* What the callers of proc.py rely on.                                    *)
(***************************************************************************)
EXTENDS Proc

CONSTANT Watched   \* the one of Names that DaemonKept is about

ASSUME WatchedAssumption == Watched \in Names

\* Type invariant of the Proc module.
ProcTypeOK ==
  /\ table \in [Pids -> [comm: Names \cup Strangers \cup {"none"},
                         st: {"free", "running", "zombie"}, parent: Clients \cup {Nobody}]]
  /\ pidfile \in [Names -> Pids \cup {NoPid}]
  /\ pc \in [Clients -> {"idle", "check", "poll", "truncate", "write",
                         "read", "term", "wait", "unlink"}]
  /\ job \in [Clients -> [name: Names, pid: Pids \cup {NoPid}, retried: BOOLEAN]]
  /\ alone \in BOOLEAN

Runs(p, n) == table[p].st = "running" /\ table[p].comm = n

\* A stop that found a pid file leaves no running daemon under that pid, also if the
\* daemon ignores SIGTERM or its pid was given to another one meanwhile (_stop).
StopMeansGone ==
  [][\A c \in Clients :
       alone /\ pc[c] = "unlink" /\ pidfile' # pidfile => ~Runs(job[c].pid, job[c].name)]_vars

\* Every call of _start and _stop returns, whatever the processes do.
CallsReturn ==
  \A c \in Clients : pc[c] # "idle" ~> pc[c] = "idle"

-----------------------------------------------------------------------------
\* The daemon Watched as the rest of drkvl sees it, as long as one command runs at a time:
\* pid files that are stale, torn or name a recycled pid, zombies and the retry of
\* tun2socks never show (proc.py implements the daemons of Host).
Starting(p, n) ==
  \E c \in Clients : pc[c] \in {"poll", "truncate", "write"} /\ job[c].name = n /\ job[c].pid = p
Recorded(p, n) == pidfile[n] = p /\ Runs(p, n)

Shown(n) ==
  IF ~alone THEN "untracked"
  ELSE IF \E p \in Pids : Starting(p, n) THEN "spawned"
  ELSE IF \E p \in Pids : Recorded(p, n) THEN "known" ELSE "none"
Orphaned(n) ==
  alone /\ \E p \in Pids : Runs(p, n) /\ ~Starting(p, n) /\ ~Recorded(p, n)

Promise == INSTANCE Daemon WITH state <- Shown(Watched), orphan <- Orphaned(Watched)
DaemonKept == Promise!Spec
=============================================================================
