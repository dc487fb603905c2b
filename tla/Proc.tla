-------------------------------- MODULE Proc --------------------------------
(***************************************************************************)
(* proc.py on the level of processes: drkvl commands that start and stop   *)
(* the two daemons through pid files, while processes end, pids are given  *)
(* out again and a command may be killed.  Each function is split where    *)
(* another process can act in between.                                     *)
(*                                                                         *)
(* Abstraction: a process has a name (/proc/<pid>/comm), a state and a     *)
(* parent.  SIGTERM changes nothing here, for a process may end at any     *)
(* time anyway or ignore it; SIGKILL ends it.                              *)
(***************************************************************************)
EXTENDS Integers, FiniteSets

CONSTANTS
  Clients,     \* drkvl commands, each runs again and again
  Names,       \* the daemons, with a pid file each
  Pids,
  Strangers,   \* names of programs drkvl does not start
  NoPid,       \* no pid file, or nothing readable in it
  Nobody       \* the parent is not a drkvl command

ASSUME ProcAssumption ==
  /\ Names # {} /\ Names \subseteq {"xray", "tun2socks"}
  /\ Strangers \cap Names = {} /\ "none" \notin Strangers
  /\ NoPid \notin Pids /\ Nobody \notin Clients

VARIABLES
  table,     \* the process table
  pidfile,   \* XRAY_PID, TUN2SOCKS_PID
  pc,        \* pc[c]: the next statement of the call c is in, "idle" outside
  job,       \* job[c]: the arguments and locals of that call
  alone      \* no two calls have overlapped so far

vars == <<table, pidfile, pc, job, alone>>

Free == [comm |-> "none", st |-> "free", parent |-> Nobody]
NoJob == [name |-> CHOOSE n \in Names : TRUE, pid |-> NoPid, retried |-> FALSE]

Init ==
  /\ table = [p \in Pids |-> Free]
  /\ pidfile = [n \in Names |-> NoPid]
  /\ pc = [c \in Clients |-> "idle"]
  /\ job = [c \in Clients |-> NoJob]
  /\ alone = TRUE

\* _alive(pid, name); a zombie answers kill(pid, 0) and keeps its name.
Exists(p) == p # NoPid /\ table[p].st # "free"
Alive(p, n) == Exists(p) /\ table[p].comm = n

\* xray_running, tun2socks_running
Running(n) == Alive(pidfile[n], n)

Step(c, from, to) == pc[c] = from /\ pc' = [pc EXCEPT ![c] = to]

\* An exited child stays a zombie as long as its parent lives and does not ask.
Exited(p) ==
  IF table[p].parent = Nobody THEN Free ELSE [table[p] EXCEPT !.st = "zombie"]

\* The table without the zombies of c (subprocess._cleanup).
Reaped(c) ==
  [p \in Pids |-> IF table[p].parent = c /\ table[p].st = "zombie" THEN Free ELSE table[p]]

Begin(c, n, at) ==
  /\ Step(c, "idle", at)
  /\ job' = [job EXCEPT ![c] = [NoJob EXCEPT !.name = n]]
  /\ alone' = (alone /\ \A o \in Clients : pc[o] = "idle")
  /\ UNCHANGED <<table, pidfile>>

-----------------------------------------------------------------------------
\* _start

StartBegins(c, n) == Begin(c, n, "check")

\* Already running, not in PATH, no process can be made.
Refused(c) ==
  /\ Step(c, "check", "idle")
  /\ UNCHANGED <<table, pidfile, job, alone>>

\* Mutant: a recorded daemon is started again.
PopenUnchecked(c) ==
  /\ Step(c, "check", "poll")
  /\ \E p \in Pids :
       /\ Reaped(c)[p] = Free
       /\ table' = [Reaped(c) EXCEPT ![p] =
                      [comm |-> job[c].name, st |-> "running", parent |-> c]]
       /\ job' = [job EXCEPT ![c].pid = p]
  /\ UNCHANGED <<pidfile, alone>>

Popen(c) ==
  /\ Step(c, "check", "poll")
  /\ ~Running(job[c].name)
  /\ \E p \in Pids :
       /\ Reaped(c)[p] = Free
       /\ table' = [Reaped(c) EXCEPT ![p] =
                      [comm |-> job[c].name, st |-> "running", parent |-> c]]
       /\ job' = [job EXCEPT ![c].pid = p]
  /\ UNCHANGED <<pidfile, alone>>

PollFindsIt(c) ==
  /\ Step(c, "poll", "truncate")
  /\ table[job[c].pid].st = "running"
  /\ UNCHANGED <<table, pidfile, job, alone>>

\* "exited immediately"; start_tun2socks tries once more with the other log level.
PollFindsExit(c) ==
  /\ pc[c] = "poll" /\ table[job[c].pid].st = "zombie"
  /\ table' = [table EXCEPT ![job[c].pid] = Free]
  /\ \/ pc' = [pc EXCEPT ![c] = "idle"] /\ UNCHANGED job
     \/ /\ job[c].name = "tun2socks" /\ ~job[c].retried
        /\ pc' = [pc EXCEPT ![c] = "check"]
        /\ job' = [job EXCEPT ![c].retried = TRUE]
  /\ UNCHANGED <<pidfile, alone>>

Truncate(c) ==
  /\ Step(c, "truncate", "write")
  /\ pidfile' = [pidfile EXCEPT ![job[c].name] = NoPid]
  /\ UNCHANGED <<table, job, alone>>

WritePid(c) ==
  /\ Step(c, "write", "idle")
  /\ pidfile' = [pidfile EXCEPT ![job[c].name] = job[c].pid]
  /\ UNCHANGED <<table, job, alone>>

-----------------------------------------------------------------------------
\* _stop

StopBegins(c, n) == Begin(c, n, "read")

ReadPid(c) ==
  /\ Step(c, "read", IF pidfile[job[c].name] = NoPid THEN "idle" ELSE "term")
  /\ job' = [job EXCEPT ![c].pid = pidfile[job[c].name]]
  /\ UNCHANGED <<table, pidfile, alone>>

Terminate(c) ==
  /\ Step(c, "term", IF Alive(job[c].pid, job[c].name) THEN "wait" ELSE "unlink")
  /\ UNCHANGED <<table, pidfile, job, alone>>

SeesItGone(c) ==
  /\ Step(c, "wait", "unlink")
  /\ ~Exists(job[c].pid)
  /\ UNCHANGED <<table, pidfile, job, alone>>

\* Mutant: the loop over 20 polls has no else branch.
GiveUpWaiting(c) ==
  /\ Step(c, "wait", "unlink")
  /\ UNCHANGED <<table, pidfile, job, alone>>

\* Mutant: the loop polls until the process is gone.
WaitOn(c) ==
  /\ Step(c, "wait", "wait")
  /\ UNCHANGED <<table, pidfile, job, alone>>

\* 20 polls are over: SIGKILL to whatever has the pid by now.
Kill(c) ==
  /\ Step(c, "wait", "unlink")
  /\ table' = IF Exists(job[c].pid)
              THEN [table EXCEPT ![job[c].pid] = Exited(job[c].pid)] ELSE table
  /\ UNCHANGED <<pidfile, job, alone>>

Unlink(c) ==
  /\ Step(c, "unlink", "idle")
  /\ pidfile' = [pidfile EXCEPT ![job[c].name] = NoPid]
  /\ UNCHANGED <<table, job, alone>>

Call(c) ==
  \/ Refused(c) \/ Popen(c) \/ PollFindsIt(c) \/ PollFindsExit(c)
  \/ Truncate(c) \/ WritePid(c)
  \/ ReadPid(c) \/ Terminate(c) \/ SeesItGone(c) \/ Kill(c) \/ Unlink(c)

-----------------------------------------------------------------------------
\* What happens around the calls.

\* Any other subprocess of the command, between two calls.
Reap(c) ==
  /\ pc[c] = "idle"
  /\ table' = Reaped(c)
  /\ UNCHANGED <<pidfile, pc, job, alone>>

\* The command ends, or is killed in a call; init takes its children.
CommandEnds(c) ==
  /\ pc' = [pc EXCEPT ![c] = "idle"]
  /\ job' = [job EXCEPT ![c] = NoJob]
  /\ table' = [p \in Pids |-> IF table[p].parent = c
                 THEN [Reaped(c)[p] EXCEPT !.parent = Nobody] ELSE table[p]]
  /\ UNCHANGED <<pidfile, alone>>

ProcessExits(p) ==
  /\ table[p].st = "running"
  /\ table' = [table EXCEPT ![p] = Exited(p)]
  /\ UNCHANGED <<pidfile, pc, job, alone>>

StrangerStarts(p, s) ==
  /\ table[p] = Free
  /\ table' = [table EXCEPT ![p] = [comm |-> s, st |-> "running", parent |-> Nobody]]
  /\ UNCHANGED <<pidfile, pc, job, alone>>

Next ==
  \/ \E c \in Clients :
       \/ Call(c) \/ Reap(c) \/ CommandEnds(c)
       \/ \E n \in Names : StartBegins(c, n) \/ StopBegins(c, n)
  \/ \E p \in Pids : ProcessExits(p) \/ \E s \in Strangers : StrangerStarts(p, s)

Spec == Init /\ [][Next]_vars /\ \A c \in Clients : WF_vars(Call(c))
=============================================================================
