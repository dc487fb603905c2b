----------------------------- MODULE ProcProofs -----------------------------
(***************************************************************************)
(* Proofs about the processes and pid files of proc.py, for any number of  *)
(* commands, daemons, pids and other programs.                             *)
(***************************************************************************)
EXTENDS ProcProps, TLAPS

Starts == {"poll", "truncate", "write"}
Stops == {"term", "wait", "unlink"}

\* A command is in a call only if no other is.
OneCall == \A c, d \in Clients : pc[c] # "idle" /\ pc[d] # "idle" => c = d

\* A daemon that is being started is there, as long as the command does not ask for
\* its end, and it is the only one of its name that a pid file can be about.
StartOwned(c) ==
  /\ LET t == table[job[c].pid] IN
       t.comm = job[c].name /\ t.parent = c /\ t.st \in {"running", "zombie"}
  /\ \A p \in Pids : Recorded(p, job[c].name) => p = job[c].pid

CallInv ==
  \A c \in Clients :
    /\ pc[c] \in Starts => StartOwned(c)
    /\ pc[c] \in Stops => pidfile[job[c].name] = job[c].pid
    /\ pc[c] = "unlink" => ~Runs(job[c].pid, job[c].name)

ProcInv ==
  /\ ProcTypeOK
  /\ \A c \in Clients : pc[c] \in Starts \cup Stops => job[c].pid \in Pids
  /\ alone => OneCall /\ CallInv

-----------------------------------------------------------------------------
\* What a command does to its own job and place.
LEMMA ExitedEntry ==
  ASSUME ProcTypeOK, NEW p \in Pids
  PROVE  /\ Exited(p) \in [comm: Names \cup Strangers \cup {"none"},
                           st: {"free", "running", "zombie"}, parent: Clients \cup {Nobody}]
         /\ Exited(p).st # "running"
         /\ table[p].parent # Nobody => Exited(p).comm = table[p].comm
              /\ Exited(p).parent = table[p].parent /\ Exited(p).st = "zombie"
  BY DEF ProcTypeOK, Exited, Free

LEMMA ReapedTable ==
  ASSUME ProcTypeOK, NEW c \in Clients
  PROVE  /\ Reaped(c) \in [Pids -> [comm: Names \cup Strangers \cup {"none"},
                           st: {"free", "running", "zombie"}, parent: Clients \cup {Nobody}]]
         /\ \A p \in Pids : Reaped(c)[p] # table[p] =>
              table[p].st = "zombie" /\ table[p].parent = c /\ Reaped(c)[p] = Free
  BY DEF ProcTypeOK, Reaped, Free

LEMMA InitProc == Init => ProcInv
<1> SUFFICES ASSUME Init PROVE ProcInv
  OBVIOUS
<1>1. (CHOOSE n \in Names : TRUE) \in Names
  BY ProcAssumption
<1>2. ProcTypeOK
  BY <1>1 DEF Init, ProcTypeOK, Free, NoJob
<1>3. OneCall /\ CallInv
  BY DEF Init, OneCall, CallInv, Starts, Stops
<1> QED
  BY <1>2, <1>3 DEF Init, ProcInv, Starts, Stops

LEMMA TypeStep == ProcTypeOK /\ [Next]_vars => ProcTypeOK'
<1> SUFFICES ASSUME ProcTypeOK, [Next]_vars PROVE ProcTypeOK'
  OBVIOUS
<1>0. NoJob \in [name: Names, pid: Pids \cup {NoPid}, retried: BOOLEAN]
  <2>1. (CHOOSE n \in Names : TRUE) \in Names
    BY ProcAssumption
  <2> QED
    BY <2>1 DEF NoJob
<1>1. ASSUME NEW c \in Clients, Refused(c) \/ PollFindsIt(c) \/ Terminate(c) \/ SeesItGone(c)
      PROVE  ProcTypeOK'
  BY <1>1 DEF ProcTypeOK, Refused, PollFindsIt, Terminate, SeesItGone, Step
<1>2. ASSUME NEW c \in Clients, Popen(c) PROVE ProcTypeOK'
  <2>1. PICK p \in Pids :
          /\ table' = [Reaped(c) EXCEPT ![p] =
                         [comm |-> job[c].name, st |-> "running", parent |-> c]]
          /\ job' = [job EXCEPT ![c].pid = p]
    BY <1>2 DEF Popen
  <2>2. job'\in [Clients -> [name: Names, pid: Pids \cup {NoPid}, retried: BOOLEAN]]
    BY <2>1 DEF ProcTypeOK
  <2>3. job[c].name \in Names
    BY DEF ProcTypeOK
  <2>4. table' \in [Pids -> [comm: Names \cup Strangers \cup {"none"},
                         st: {"free", "running", "zombie"}, parent: Clients \cup {Nobody}]]
    BY <2>1, <2>3, ReapedTable
  <2> QED
    BY <1>2, <2>2, <2>4 DEF ProcTypeOK, Popen, Step
<1>3. ASSUME NEW c \in Clients, PollFindsExit(c) PROVE ProcTypeOK'
  <2>1. job' \in [Clients -> [name: Names, pid: Pids \cup {NoPid}, retried: BOOLEAN]]
    <3>1. UNCHANGED job \/ job' = [job EXCEPT ![c].retried = TRUE]
      BY <1>3 DEF PollFindsExit
    <3>2. job[c] \in [name: Names, pid: Pids \cup {NoPid}, retried: BOOLEAN]
      BY DEF ProcTypeOK
    <3>3. [job[c] EXCEPT !.retried = TRUE] \in
            [name: Names, pid: Pids \cup {NoPid}, retried: BOOLEAN]
      BY <3>2
    <3> QED
      BY <3>1, <3>3 DEF ProcTypeOK
  <2> QED
    BY <1>3, <2>1 DEF ProcTypeOK, PollFindsExit, Free
<1>4. ASSUME NEW c \in Clients, Truncate(c) \/ WritePid(c) \/ Unlink(c) PROVE ProcTypeOK'
  BY <1>4 DEF ProcTypeOK, Truncate, WritePid, Unlink, Step
<1>5. ASSUME NEW c \in Clients, ReadPid(c) PROVE ProcTypeOK'
  BY <1>5 DEF ProcTypeOK, ReadPid, Step
<1>6. ASSUME NEW c \in Clients, Kill(c) PROVE ProcTypeOK'
  BY <1>6, ExitedEntry DEF ProcTypeOK, Kill, Step
<1>7. ASSUME NEW c \in Clients, Reap(c) PROVE ProcTypeOK'
  BY <1>7, ReapedTable DEF ProcTypeOK, Reap
<1>8. ASSUME NEW c \in Clients, CommandEnds(c) PROVE ProcTypeOK'
  <2>1. table' \in [Pids -> [comm: Names \cup Strangers \cup {"none"},
                         st: {"free", "running", "zombie"}, parent: Clients \cup {Nobody}]]
    <3>1. \A p \in Pids :
            [Reaped(c)[p] EXCEPT !.parent = Nobody] \in
              [comm: Names \cup Strangers \cup {"none"},
               st: {"free", "running", "zombie"}, parent: Clients \cup {Nobody}]
      BY ReapedTable
    <3> QED
      BY <1>8, <3>1 DEF ProcTypeOK, CommandEnds
  <2> QED
    BY <1>0, <1>8, <2>1 DEF ProcTypeOK, CommandEnds
<1>9. ASSUME NEW c \in Clients, NEW n \in Names, StartBegins(c, n) \/ StopBegins(c, n)
      PROVE  ProcTypeOK'
  <2>1. [NoJob EXCEPT !.name = n] \in [name: Names, pid: Pids \cup {NoPid}, retried: BOOLEAN]
    BY <1>0
  <2>2. alone' \in BOOLEAN
    BY <1>9 DEF StartBegins, StopBegins, Begin
  <2> QED
    BY <1>9, <2>1, <2>2 DEF ProcTypeOK, StartBegins, StopBegins, Begin, Step
<1>10. ASSUME NEW p \in Pids, ProcessExits(p) PROVE ProcTypeOK'
  BY <1>10, ExitedEntry DEF ProcTypeOK, ProcessExits
<1>11. ASSUME NEW p \in Pids, NEW s \in Strangers, StrangerStarts(p, s) PROVE ProcTypeOK'
  BY <1>11 DEF ProcTypeOK, StrangerStarts
<1>12. CASE UNCHANGED vars
  BY <1>12 DEF ProcTypeOK, vars
<1> QED
  BY <1>1, <1>2, <1>3, <1>4, <1>5, <1>6, <1>7, <1>8, <1>9, <1>10, <1>11, <1>12
     DEF Next, Call

\* A process that is asked about is one: no call goes on without a pid.
LEMMA PidStep ==
  ASSUME ProcInv, [Next]_vars, NEW d \in Clients, pc'[d] \in Starts \cup Stops
  PROVE  job'[d].pid \in Pids
<1>0. ProcTypeOK /\ (pc[d] \in Starts \cup Stops => job[d].pid \in Pids)
  BY DEF ProcInv
<1>1. CASE pc'[d] = pc[d] /\ job'[d] = job[d]
  BY <1>0, <1>1
<1>2. ASSUME NEW c \in Clients, c # d, Call(c) \/ Reap(c) \/ CommandEnds(c)
                                   \/ \E n \in Names : StartBegins(c, n) \/ StopBegins(c, n)
      PROVE  pc'[d] = pc[d] /\ job'[d] = job[d]
  <2>1. CASE Call(c)
    BY <1>0, <1>2, <2>1
       DEF ProcTypeOK, Call, Refused, Popen, PollFindsIt, PollFindsExit, Truncate, WritePid,
           ReadPid, Terminate, SeesItGone, Kill, Unlink, Step
  <2>2. CASE ~Call(c)
    BY <1>0, <1>2, <2>2 DEF ProcTypeOK, Reap, CommandEnds, StartBegins, StopBegins, Begin, Step
  <2> QED
    BY <2>1, <2>2
<1>3. CASE Call(d)
  <2>1. CASE Popen(d)
    BY <1>0, <2>1 DEF ProcTypeOK, Popen
  <2>2. CASE ReadPid(d)
    BY <1>0, <2>2 DEF ProcTypeOK, ReadPid, Step, Starts, Stops
  <2>3. CASE PollFindsExit(d)
    BY <1>0, <2>3 DEF ProcTypeOK, PollFindsExit, Starts, Stops
  <2>4. CASE Refused(d) \/ PollFindsIt(d) \/ Truncate(d) \/ WritePid(d)
             \/ Terminate(d) \/ SeesItGone(d) \/ Kill(d) \/ Unlink(d)
    BY <1>0, <2>4
       DEF ProcTypeOK, Refused, PollFindsIt, Truncate, WritePid, Terminate, SeesItGone, Kill,
           Unlink, Step, Starts, Stops
  <2> QED
    BY <1>3, <2>1, <2>2, <2>3, <2>4 DEF Call
<1>4. CASE CommandEnds(d) \/ \E n \in Names : StartBegins(d, n) \/ StopBegins(d, n)
  BY <1>0, <1>4
     DEF ProcTypeOK, CommandEnds, StartBegins, StopBegins, Begin, Step, Starts, Stops
<1>5. CASE \/ Reap(d) \/ UNCHANGED vars
           \/ \E p \in Pids : ProcessExits(p) \/ \E s \in Strangers : StrangerStarts(p, s)
  BY <1>1, <1>5 DEF Reap, vars, ProcessExits, StrangerStarts
<1> QED
  BY <1>1, <1>2, <1>3, <1>4, <1>5 DEF Next

\* Once calls have overlapped, they have.
LEMMA AloneStep ==
  ASSUME ProcInv, [Next]_vars
  PROVE  alone' => alone
  BY DEF Next, Call, Refused, Popen, PollFindsIt, PollFindsExit, Truncate, WritePid, ReadPid,
         Terminate, SeesItGone, Kill, Unlink, Reap, CommandEnds, ProcessExits, StrangerStarts,
         StartBegins, StopBegins, Begin, vars

\* A step of a call: the other commands are in none.
LEMMA CallSteps ==
  ASSUME ProcInv, alone, NEW c \in Clients, Call(c)
  PROVE  /\ pc[c] # "idle" /\ alone' = alone
         /\ \A d \in Clients \ {c} : pc[d] = "idle" /\ pc'[d] = "idle"
  <1>1. pc[c] # "idle" /\ alone' = alone /\ \A d \in Clients \ {c} : pc'[d] = pc[d]
    BY DEF ProcInv, ProcTypeOK, Call, Refused, Popen, PollFindsIt, PollFindsExit, Truncate,
           WritePid, ReadPid, Terminate, SeesItGone, Kill, Unlink, Step
  <1> QED
    BY <1>1 DEF ProcInv, OneCall

\* What is true of a call stays so while it waits, unless a process of that name starts.
LEMMA WaitingCall ==
  ASSUME ProcInv, alone, NEW d \in Clients, pc'[d] = pc[d], job'[d] = job[d],
         UNCHANGED pidfile,
         pc[d] \in Starts /\ StartOwned(d) =>
           /\ table'[job[d].pid].comm = table[job[d].pid].comm
           /\ table'[job[d].pid].parent = table[job[d].pid].parent
           /\ table'[job[d].pid].st \in {"running", "zombie"},
         \A p \in Pids : Runs(p, job[d].name)' => Runs(p, job[d].name)
  PROVE  /\ pc'[d] \in Starts => StartOwned(d)'
         /\ pc'[d] \in Stops => pidfile'[job'[d].name] = job'[d].pid
         /\ pc'[d] = "unlink" => ~Runs(job[d].pid, job[d].name)'
<1>0. /\ pc[d] \in Starts => StartOwned(d)
      /\ pc[d] \in Stops => pidfile[job[d].name] = job[d].pid
      /\ pc[d] = "unlink" => ~Runs(job[d].pid, job[d].name)
      /\ pc[d] = "unlink" => job[d].pid \in Pids
  BY DEF ProcInv, CallInv, Stops
<1>1. ASSUME pc[d] \in Starts PROVE StartOwned(d)'
  BY <1>0, <1>1 DEF StartOwned, Recorded, Runs
<1> QED
  BY <1>0, <1>1

\* Only _start makes a process of a daemon's name.
LEMMA RunsBefore ==
  ASSUME ProcInv, NEW n \in Names, NEW q \in Pids, Runs(q, n)'
  PROVE  /\ \A c \in Clients : PollFindsExit(c) \/ Kill(c) \/ Reap(c) \/ CommandEnds(c) => Runs(q, n)
         /\ \A p \in Pids : ProcessExits(p) => Runs(q, n)
         /\ \A p \in Pids, s \in Strangers : StrangerStarts(p, s) => Runs(q, n)
<1>0. ProcTypeOK
  BY DEF ProcInv
<1>1. \A c \in Clients : Reaped(c)[q].st = "running" => Reaped(c)[q] = table[q]
  BY <1>0, ReapedTable DEF Free
<1>2. ASSUME NEW c \in Clients, PollFindsExit(c) \/ Kill(c) \/ Reap(c) \/ CommandEnds(c)
      PROVE  Runs(q, n)
  <2>1. CASE PollFindsExit(c)
    BY <1>0, <2>1 DEF ProcTypeOK, PollFindsExit, Runs, Free
  <2>2. CASE Kill(c)
    <3>1. Exited(job[c].pid).st = "running" => job[c].pid \notin Pids
      BY <1>0, ExitedEntry
    <3> QED
      BY <1>0, <2>2, <3>1 DEF ProcTypeOK, Kill, Runs
  <2>3. CASE Reap(c)
    BY <1>1, <2>3 DEF Reap, Runs
  <2>4. CASE CommandEnds(c)
    <3>1. table'[q] = IF table[q].parent = c
                      THEN [Reaped(c)[q] EXCEPT !.parent = Nobody] ELSE table[q]
      BY <2>4 DEF CommandEnds
    <3>2. table'[q].st = "running" => table'[q].comm = table[q].comm /\ table[q].st = "running"
      <4>1. Reaped(c)[q] \in [comm: Names \cup Strangers \cup {"none"},
                           st: {"free", "running", "zombie"}, parent: Clients \cup {Nobody}]
        BY <1>0, ReapedTable
      <4>2. /\ [Reaped(c)[q] EXCEPT !.parent = Nobody].st = Reaped(c)[q].st
            /\ [Reaped(c)[q] EXCEPT !.parent = Nobody].comm = Reaped(c)[q].comm
        BY <4>1
      <4> QED
        BY <1>1, <3>1, <4>2
    <3> QED
      BY <3>2 DEF Runs
  <2> QED
    BY <1>2, <2>1, <2>2, <2>3, <2>4
<1>3. ASSUME NEW p \in Pids, ProcessExits(p) PROVE Runs(q, n)
  BY <1>0, <1>3, ExitedEntry DEF ProcTypeOK, ProcessExits, Runs
<1>4. ASSUME NEW p \in Pids, NEW s \in Strangers, StrangerStarts(p, s) PROVE Runs(q, n)
  BY <1>0, <1>4, ProcAssumption DEF ProcTypeOK, StrangerStarts, Runs
<1> QED
  BY <1>2, <1>3, <1>4

\* A step of another one that does not run in a call.
LEMMA OtherSteps ==
  ASSUME ProcInv, alone, NEW d \in Clients,
         \/ \E c \in Clients : Reap(c) \/ (c # d /\ CommandEnds(c))
         \/ \E p \in Pids : ProcessExits(p) \/ \E s \in Strangers : StrangerStarts(p, s)
  PROVE  /\ pc'[d] \in Starts => StartOwned(d)'
         /\ pc'[d] \in Stops => pidfile'[job'[d].name] = job'[d].pid
         /\ pc'[d] = "unlink" => ~Runs(job[d].pid, job[d].name)'
<1>0. ProcTypeOK
  BY DEF ProcInv
<1>1. pc'[d] = pc[d] /\ job'[d] = job[d] /\ UNCHANGED pidfile /\ job[d].name \in Names
  BY <1>0 DEF ProcTypeOK, Reap, CommandEnds, ProcessExits, StrangerStarts
<1>2. \A q \in Pids : Runs(q, job[d].name)' => Runs(q, job[d].name)
  <2> DEFINE n == job[d].name
  <2> SUFFICES ASSUME NEW q \in Pids, table'[q].st = "running" /\ table'[q].comm = n
               PROVE  table[q].st = "running" /\ table[q].comm = n
    BY <1>1 DEF Runs
  <2>1. \A m \in Names : m = n => Runs(q, m)'
    BY DEF Runs
  <2>2. \A m \in Names : m = n => Runs(q, m)
    BY <2>1, RunsBefore
  <2> QED
    BY <1>1, <2>2 DEF Runs
<1>3. ASSUME pc[d] \in Starts, StartOwned(d)
      PROVE  /\ table'[job[d].pid].comm = table[job[d].pid].comm
             /\ table'[job[d].pid].parent = table[job[d].pid].parent
             /\ table'[job[d].pid].st \in {"running", "zombie"}
  <2> DEFINE p == job[d].pid
  <2>1. p \in Pids /\ pc[d] # "idle"
    BY <1>3 DEF ProcInv, Starts
  <2> HIDE DEF p
  <2>2. table[p].parent = d /\ table[p].st \in {"running", "zombie"} /\ d # Nobody
    BY <1>3, ProcAssumption DEF StartOwned, p
  <2>3. ASSUME NEW c \in Clients, c # d, Reap(c) \/ CommandEnds(c) PROVE table'[p] = table[p]
    <3>1. Reaped(c)[p] = table[p]
      BY <1>0, <2>1, <2>2, <2>3, ReapedTable
    <3> QED
      BY <2>1, <2>2, <2>3, <3>1 DEF Reap, CommandEnds
  <2>4. ~Reap(d)
    BY <2>1 DEF Reap
  <2>5. ASSUME NEW q \in Pids, ProcessExits(q)
        PROVE  table'[p].comm = table[p].comm /\ table'[p].parent = table[p].parent
               /\ table'[p].st \in {"running", "zombie"}
    <3>1. table' = [table EXCEPT ![q] = Exited(q)] /\ table \in [Pids -> UNION {{table[x]} : x \in Pids}]
      BY <1>0, <2>5 DEF ProcessExits, ProcTypeOK
    <3>2. Exited(p).comm = table[p].comm /\ Exited(p).parent = table[p].parent
          /\ Exited(p).st = "zombie"
      BY <1>0, <2>1, <2>2, ExitedEntry
    <3> QED
      BY <2>1, <2>2, <3>1, <3>2
  <2>6. ASSUME NEW q \in Pids, NEW s \in Strangers, StrangerStarts(q, s) PROVE table'[p] = table[p]
    BY <1>0, <2>1, <2>2, <2>6 DEF ProcTypeOK, StrangerStarts, Free
  <2> QED
    BY <2>2, <2>3, <2>4, <2>5, <2>6 DEF p
<1> QED
  BY <1>1, <1>2, <1>3, WaitingCall

\* A daemon that is started now is the only one of its name that is recorded: _start
\* has looked for one before.
LEMMA PopenOwns ==
  ASSUME ProcInv, NEW c \in Clients, Popen(c)
  PROVE  StartOwned(c)'
<1>0. ProcTypeOK /\ job[c].name \in Names
  BY DEF ProcInv, ProcTypeOK
<1>1. PICK p \in Pids :
        /\ table' = [Reaped(c) EXCEPT ![p] =
                       [comm |-> job[c].name, st |-> "running", parent |-> c]]
        /\ job' = [job EXCEPT ![c].pid = p]
  BY DEF Popen
<1>2. job'[c].pid = p /\ job'[c].name = job[c].name /\ pidfile' = pidfile
  BY <1>0, <1>1 DEF ProcTypeOK, Popen
<1>3. table'[p] = [comm |-> job[c].name, st |-> "running", parent |-> c]
      /\ \A q \in Pids \ {p} : table'[q] = Reaped(c)[q]
  BY <1>0, <1>1, ReapedTable
<1>4. ASSUME NEW q \in Pids \ {p}, pidfile[job[c].name] = q, table'[q].st = "running",
             table'[q].comm = job[c].name
      PROVE  FALSE
  <2>1. table'[q] = table[q]
    BY <1>0, <1>3, <1>4, ReapedTable DEF Free
  <2> QED
    BY <1>4, <2>1, ProcAssumption DEF Popen, Running, Alive, Exists
<1> QED
  BY <1>2, <1>3, <1>4 DEF StartOwned, Recorded, Runs

LEMMA CallStep ==
  ASSUME ProcInv, [Next]_vars, alone'
  PROVE  OneCall' /\ CallInv'
<1>0. alone /\ OneCall /\ CallInv /\ ProcTypeOK
  BY AloneStep DEF ProcInv
<1>1. ASSUME NEW c \in Clients, Call(c) PROVE OneCall' /\ CallInv'
  <2>1. \A d \in Clients \ {c} : pc'[d] = "idle"
    BY <1>0, <1>1, CallSteps
  <2>2. OneCall'
    BY <2>1 DEF OneCall
  <2>3. /\ pc[c] \in Starts => StartOwned(c)
        /\ pc[c] \in Stops => pidfile[job[c].name] = job[c].pid /\ job[c].pid \in Pids
        /\ job[c].name \in Names
    BY <1>0 DEF CallInv, ProcInv, ProcTypeOK
  <2>4. /\ pc'[c] \in Starts => StartOwned(c)'
        /\ pc'[c] \in Stops => pidfile'[job'[c].name] = job'[c].pid
        /\ pc'[c] = "unlink" => ~Runs(job[c].pid, job[c].name)'
    <3>1. CASE Popen(c)
      BY <1>0, <3>1, PopenOwns DEF Popen, Step, ProcTypeOK, Stops
    <3>2. CASE PollFindsIt(c)
      BY <1>0, <2>3, <3>2
         DEF PollFindsIt, Step, ProcTypeOK, Starts, Stops, StartOwned, Recorded, Runs
    <3>3. CASE Truncate(c)
      BY <1>0, <2>3, <3>3, ProcAssumption
         DEF Truncate, Step, ProcTypeOK, Starts, Stops, StartOwned, Recorded, Runs
    <3>4. CASE Refused(c) \/ PollFindsExit(c) \/ WritePid(c) \/ Unlink(c)
      BY <1>0, <3>4
         DEF Refused, PollFindsExit, WritePid, Unlink, Step, ProcTypeOK, Starts, Stops
    <3>5. CASE ReadPid(c)
      BY <1>0, <3>5 DEF ReadPid, Step, ProcTypeOK, Starts, Stops
    <3>6. CASE Terminate(c)
      BY <1>0, <2>3, <3>6, ProcAssumption
         DEF Terminate, Step, ProcTypeOK, Starts, Stops, Alive, Exists, Runs
    <3>7. CASE SeesItGone(c)
      BY <1>0, <2>3, <3>7, ProcAssumption
         DEF SeesItGone, Step, ProcTypeOK, Starts, Stops, Exists, Runs
    <3>8. CASE Kill(c)
      <4>1. pc[c] \in Stops /\ pc'[c] = "unlink" /\ UNCHANGED <<pidfile, job>>
        BY <1>0, <3>8 DEF Kill, Step, ProcTypeOK, Stops
      <4>2. table'[job[c].pid].st # "running"
        BY <1>0, <2>3, <3>8, <4>1, ExitedEntry, ProcAssumption DEF Kill, Exists, ProcTypeOK
      <4> QED
        BY <2>3, <4>1, <4>2 DEF Runs, Starts
    <3> QED
      BY <1>1, <3>1, <3>2, <3>3, <3>4, <3>5, <3>6, <3>7, <3>8 DEF Call
  <2>5. pc'[c] = "unlink" => UNCHANGED job
    BY <1>0, <1>1
       DEF ProcTypeOK, Call, Refused, Popen, PollFindsIt, PollFindsExit, Truncate, WritePid,
           ReadPid, Terminate, SeesItGone, Kill, Unlink, Step
  <2>6. ASSUME NEW d \in Clients
        PROVE  /\ pc'[d] \in Starts => StartOwned(d)'
               /\ pc'[d] \in Stops => pidfile'[job'[d].name] = job'[d].pid
               /\ pc'[d] = "unlink" => ~Runs(job[d].pid, job[d].name)'
    BY <2>1, <2>4 DEF Starts, Stops
  <2> QED
    BY <2>2, <2>6 DEF CallInv
<1>2. ASSUME NEW c \in Clients, NEW n \in Names, StartBegins(c, n) \/ StopBegins(c, n)
      PROVE  OneCall' /\ CallInv'
  <2>1. /\ \A o \in Clients : pc[o] = "idle"
        /\ \E at \in {"check", "read"} : pc' = [pc EXCEPT ![c] = at]
    BY <1>2 DEF StartBegins, StopBegins, Begin, Step
  <2>2. \A d \in Clients : pc'[d] \in {"idle", "check", "read"} /\ (d # c => pc'[d] = "idle")
    BY <1>0, <2>1 DEF ProcTypeOK
  <2> QED
    BY <2>2 DEF OneCall, CallInv, Starts, Stops
<1>3. ASSUME \/ \E c \in Clients : Reap(c) \/ CommandEnds(c)
             \/ \E p \in Pids : ProcessExits(p) \/ \E s \in Strangers : StrangerStarts(p, s)
      PROVE  OneCall' /\ CallInv'
  <2>1. \A d \in Clients : pc'[d] = pc[d] \/ pc'[d] = "idle"
    BY <1>0, <1>3 DEF ProcTypeOK, Reap, CommandEnds, ProcessExits, StrangerStarts
  <2>2. OneCall'
    BY <1>0, <2>1 DEF OneCall
  <2>3. ASSUME NEW d \in Clients
        PROVE  /\ pc'[d] \in Starts => StartOwned(d)'
               /\ pc'[d] \in Stops => pidfile'[job'[d].name] = job'[d].pid
               /\ pc'[d] = "unlink" => ~Runs(job[d].pid, job[d].name)'
    <3>1. CASE CommandEnds(d)
      BY <1>0, <3>1 DEF ProcTypeOK, CommandEnds, Starts, Stops
    <3>2. CASE ~CommandEnds(d)
      BY <1>0, <1>3, <3>2, OtherSteps
    <3> QED
      BY <3>1, <3>2
  <2> QED
    BY <2>2, <2>3 DEF CallInv
<1>4. CASE UNCHANGED vars
  BY <1>0, <1>4 DEF vars, OneCall, CallInv, StartOwned, Recorded, Runs
<1> QED
  BY <1>1, <1>2, <1>3, <1>4 DEF Next

LEMMA NextProc == ProcInv /\ [Next]_vars => ProcInv'
<1> SUFFICES ASSUME ProcInv, [Next]_vars PROVE ProcInv'
  OBVIOUS
<1>1. ProcTypeOK'
  BY TypeStep DEF ProcInv
<1>2. \A d \in Clients : pc'[d] \in Starts \cup Stops => job'[d].pid \in Pids
  BY PidStep
<1>3. alone' => OneCall' /\ CallInv'
  BY CallStep
<1> QED
  BY <1>1, <1>2, <1>3 DEF ProcInv

\* The processes, the pid files and the calls are what the type invariant says.
THEOREM ProcTypeCorrect == Spec => []ProcTypeOK
<1>1. ProcInv => ProcTypeOK
  BY DEF ProcInv
<1> QED
  BY <1>1, InitProc, NextProc, PTL DEF Spec

\* A stop that takes the pid file away leaves no daemon under that pid, for any number
\* of commands as long as their calls have not overlapped (proc._stop).
THEOREM StoppedIsGone == Spec => StopMeansGone
<1>1. ProcInv /\ [Next]_vars =>
        [\A c \in Clients :
           alone /\ pc[c] = "unlink" /\ pidfile' # pidfile => ~Runs(job[c].pid, job[c].name)]_vars
  BY DEF ProcInv, CallInv
<1> QED
  BY <1>1, InitProc, NextProc, PTL DEF Spec, StopMeansGone

-----------------------------------------------------------------------------
(***************************************************************************)
(* The refinement of Daemon, as far as safety goes.  n is the daemon that  *)
(* is looked at.                                                           *)
(***************************************************************************)

Started(n) == \E p \in Pids : Starting(p, n)
Known(n) == \E p \in Pids : Recorded(p, n)
Lost(n) == \E p \in Pids : Runs(p, n) /\ ~Starting(p, n) /\ ~Recorded(p, n)

\* A step after which the same processes are being started, recorded and running.
SameView(n) ==
  \A p \in Pids : /\ Starting(p, n)' <=> Starting(p, n)
                  /\ Recorded(p, n)' <=> Recorded(p, n)
                  /\ Runs(p, n)' <=> Runs(p, n)

LEMMA View ==
  ASSUME NEW n
  PROVE  /\ ~alone => Shown(n) = "untracked" /\ Orphaned(n) = FALSE
         /\ alone => Orphaned(n) = Lost(n) /\
              Shown(n) = IF Started(n) THEN "spawned" ELSE IF Known(n) THEN "known" ELSE "none"
  BY DEF Shown, Orphaned, Started, Known, Lost

LEMMA ViewNext ==
  ASSUME NEW n
  PROVE  /\ ~alone' => Shown(n)' = "untracked" /\ Orphaned(n)' = FALSE
         /\ alone' => Orphaned(n)' = Lost(n)' /\
              Shown(n)' = IF Started(n)' THEN "spawned" ELSE IF Known(n)' THEN "known" ELSE "none"
  BY DEF Shown, Orphaned, Started, Known, Lost

LEMMA SameViewStutters ==
  ASSUME NEW n, SameView(n), alone' = alone
  PROVE  Shown(n)' = Shown(n) /\ Orphaned(n)' = Orphaned(n)
<1>1. /\ Started(n)' <=> Started(n)
      /\ Known(n)' <=> Known(n)
      /\ Lost(n)' <=> Lost(n)
  BY DEF SameView, Started, Known, Lost
<1>2. Lost(n) \in BOOLEAN /\ Lost(n)' \in BOOLEAN
  BY DEF Lost
<1>3. Lost(n)' = Lost(n)
  BY <1>1, <1>2
<1>4. Shown(n)' = Shown(n)
  BY <1>1, View, ViewNext
<1> QED
  BY <1>3, <1>4, View, ViewNext

\* Which processes run after a step.
LEMMA RunsKept ==
  ASSUME ProcInv, NEW n \in Names, NEW q \in Pids,
         \/ \E c \in Clients : PollFindsExit(c) \/ Reap(c) \/ CommandEnds(c)
         \/ \E p \in Pids, s \in Strangers : StrangerStarts(p, s)
  PROVE  Runs(q, n)' <=> Runs(q, n)
<1>0. ProcTypeOK
  BY DEF ProcInv
<1>1. ASSUME Runs(q, n) PROVE Runs(q, n)'
  <2>1. \A c \in Clients : Reaped(c)[q] = table[q]
    BY <1>0, <1>1, ReapedTable DEF Runs
  <2>2. ASSUME NEW c \in Clients, PollFindsExit(c) PROVE Runs(q, n)'
    BY <1>0, <1>1, <2>2 DEF ProcTypeOK, PollFindsExit, Runs
  <2>3. ASSUME NEW c \in Clients, Reap(c) PROVE Runs(q, n)'
    BY <1>1, <2>1, <2>3 DEF Reap, Runs
  <2>4. ASSUME NEW c \in Clients, CommandEnds(c) PROVE Runs(q, n)'
    <3>1. /\ [table[q] EXCEPT !.parent = Nobody].st = table[q].st
          /\ [table[q] EXCEPT !.parent = Nobody].comm = table[q].comm
      BY <1>0 DEF ProcTypeOK
    <3> QED
      BY <1>1, <2>1, <2>4, <3>1 DEF CommandEnds, Runs
  <2>5. ASSUME NEW p \in Pids, NEW s \in Strangers, StrangerStarts(p, s) PROVE Runs(q, n)'
    BY <1>0, <1>1, <2>5 DEF ProcTypeOK, StrangerStarts, Runs, Free
  <2> QED
    BY <2>2, <2>3, <2>4, <2>5
<1> QED
  BY <1>1, RunsBefore

LEMMA RunsLess ==
  ASSUME ProcTypeOK, NEW n \in Names, NEW p \in Pids, table' = [table EXCEPT ![p] = Exited(p)],
         NEW q \in Pids
  PROVE  Runs(q, n)' <=> Runs(q, n) /\ q # p
  BY ExitedEntry DEF ProcTypeOK, Runs

LEMMA RunsMore ==
  ASSUME ProcTypeOK, NEW n \in Names, NEW c \in Clients, NEW p \in Pids, Reaped(c)[p] = Free,
         table' = [Reaped(c) EXCEPT ![p] =
                     [comm |-> job[c].name, st |-> "running", parent |-> c]],
         NEW q \in Pids
  PROVE  /\ Runs(q, n)' <=> Runs(q, n) \/ (q = p /\ job[c].name = n)
         /\ ~Runs(p, n)
<1>1. Reaped(c)[q].st = "running" <=> table[q].st = "running"
  BY ReapedTable DEF Free
<1>2. Reaped(c)[q].st = "running" => Reaped(c)[q] = table[q]
  BY ReapedTable DEF Free
<1>3. table[p].st # "running"
  BY ReapedTable DEF Free
<1>4. table'[q] = IF q = p THEN [comm |-> job[c].name, st |-> "running", parent |-> c]
                  ELSE Reaped(c)[q]
  BY ReapedTable
<1> QED
  BY <1>1, <1>2, <1>3, <1>4 DEF Runs

\* Which daemons are being started after a step.
LEMMA StartingKept ==
  ASSUME NEW n, NEW p,
         \A c \in Clients :
           \/ pc'[c] \notin Starts /\ (pc[c] \notin Starts \/ job[c].name # n)
           \/ pc[c] \notin Starts /\ job'[c].name # n
           \/ /\ pc'[c] \in Starts <=> pc[c] \in Starts
              /\ job'[c].name = job[c].name /\ job'[c].pid = job[c].pid
  PROVE  Starting(p, n)' <=> Starting(p, n)
  BY DEF Starting, Starts

\* Only one daemon is being started at a time.
LEMMA StartingOne ==
  ASSUME ProcInv, alone, NEW c \in Clients, pc[c] \in Starts, NEW p, NEW n
  PROVE  /\ Starting(p, n) <=> job[c].name = n /\ job[c].pid = p
         /\ job[c].pid \in Pids /\ StartOwned(c)
         /\ \A d \in Clients \ {c} : pc[d] = "idle"
<1>1. \A d \in Clients : pc[d] \in Starts => d = c
  BY DEF ProcInv, OneCall, Starts
<1> QED
  BY <1>1 DEF ProcInv, OneCall, CallInv, Starting, Starts

-----------------------------------------------------------------------------
Seen == <<Shown(Watched), Orphaned(Watched)>>

\* What is seen, in terms of what is started, known and lost before and after.
Change(s, k, l, t, m, o) ==
  /\ Started(Watched) = s /\ Known(Watched) = k /\ Lost(Watched) = l
  /\ Started(Watched)' = t /\ Known(Watched)' = m /\ Lost(Watched)' = o

LEMMA Changes ==
  ASSUME alone, alone', NEW l \in BOOLEAN, NEW k \in BOOLEAN
  PROVE  /\ Change(FALSE, FALSE, l, TRUE, k, l) => Promise!Next
         /\ Change(TRUE, k, l, FALSE, TRUE, l) => Promise!Next
         /\ Change(TRUE, k, l, FALSE, FALSE, l) => Promise!Next
         /\ Change(TRUE, k, l, FALSE, FALSE, TRUE) => Promise!Next
         /\ Change(FALSE, TRUE, l, FALSE, FALSE, l) => Promise!Next
<1>1. /\ Orphaned(Watched) = Lost(Watched) /\ Orphaned(Watched)' = Lost(Watched)'
      /\ Shown(Watched) = IF Started(Watched) THEN "spawned"
                          ELSE IF Known(Watched) THEN "known" ELSE "none"
      /\ Shown(Watched)' = IF Started(Watched)' THEN "spawned"
                           ELSE IF Known(Watched)' THEN "known" ELSE "none"
  BY View, ViewNext
<1>2. ASSUME Change(FALSE, FALSE, l, TRUE, k, l) PROVE Promise!Next
  <2>1. Promise!Spawn
    BY <1>1, <1>2 DEF Change, Promise!Spawn
  <2> QED
    BY <2>1 DEF Promise!Next
<1>3. ASSUME Change(TRUE, k, l, FALSE, TRUE, l) PROVE Promise!Next
  <2>1. Promise!Record
    BY <1>1, <1>3 DEF Change, Promise!Record
  <2> QED
    BY <2>1 DEF Promise!Next
<1>4. ASSUME Change(TRUE, k, l, FALSE, FALSE, l) PROVE Promise!Next
  <2>1. Promise!SpawnFails
    BY <1>1, <1>4 DEF Change, Promise!SpawnFails
  <2> QED
    BY <2>1 DEF Promise!Next
<1>5. ASSUME Change(TRUE, k, l, FALSE, FALSE, TRUE) PROVE Promise!Next
  <2>1. Promise!Abandon
    BY <1>1, <1>5 DEF Change, Promise!Abandon
  <2> QED
    BY <2>1 DEF Promise!Next
<1>6. ASSUME Change(FALSE, TRUE, l, FALSE, FALSE, l) PROVE Promise!Next
  <2>1. Promise!Ends
    BY <1>1, <1>6 DEF Change, Promise!Ends
  <2> QED
    BY <2>1 DEF Promise!Next
<1> QED
  BY <1>2, <1>3, <1>4, <1>5, <1>6

\* A daemon is started: none is being started, and none is known.
LEMMA PopenSeen ==
  ASSUME ProcInv, alone, alone', NEW c \in Clients, Popen(c)
  PROVE  [Promise!Next]_Seen
<1> DEFINE n == Watched
<1>0. ProcTypeOK /\ n \in Names /\ pc[c] = "check" /\ pc' = [pc EXCEPT ![c] = "poll"]
      /\ pidfile' = pidfile
  BY WatchedAssumption DEF ProcInv, Popen, Step
<1>1. PICK p \in Pids :
        /\ Reaped(c)[p] = Free
        /\ table' = [Reaped(c) EXCEPT ![p] =
                       [comm |-> job[c].name, st |-> "running", parent |-> c]]
        /\ job' = [job EXCEPT ![c].pid = p]
  BY DEF Popen
<1>2. job'[c].pid = p /\ job'[c].name = job[c].name /\ pc'[c] = "poll"
      /\ \A d \in Clients \ {c} : pc[d] = "idle" /\ pc'[d] = "idle"
  <2>1. \A d \in Clients \ {c} : pc[d] = "idle"
    BY <1>0 DEF ProcInv, OneCall
  <2> QED
    BY <1>0, <1>1, <2>1 DEF ProcTypeOK
<1>3. \A q \in Pids :
        /\ ~Starting(q, n)
        /\ Starting(q, n)' <=> job[c].name = n /\ q = p
        /\ Runs(q, n)' <=> Runs(q, n) \/ (q = p /\ job[c].name = n)
  BY <1>0, <1>1, <1>2, RunsMore DEF Starting
<1>4. ~Runs(p, n)
  BY <1>0, <1>1, RunsMore
<1>5. CASE job[c].name # n
  <2>1. SameView(n)
    BY <1>0, <1>3, <1>5 DEF SameView, Recorded
  <2> QED
    BY <2>1, SameViewStutters DEF Seen
<1>6. CASE job[c].name = n
  <2>1. \A q \in Pids : ~Recorded(q, n)
    BY <1>6, ProcAssumption DEF Popen, Running, Alive, Exists, Recorded, Runs
  <2>2. \A q \in Pids : Runs(q, n)' /\ ~Starting(q, n)' => q # p /\ Runs(q, n) /\ ~Recorded(q, n)'
    BY <1>0, <1>3, <1>6, <2>1 DEF Recorded
  <2>3. Lost(n)' <=> Lost(n)
    BY <1>3, <1>4, <1>6, <2>1, <2>2 DEF Lost
  <2>4. Started(n) = FALSE /\ Known(n) = FALSE /\ Started(n)' = TRUE
    BY <1>3, <1>6, <2>1 DEF Started, Known
  <2>5. Lost(n) \in BOOLEAN /\ Lost(n)' \in BOOLEAN /\ Known(n)' \in BOOLEAN
    BY DEF Lost, Known
  <2>6. Change(FALSE, FALSE, Lost(n), TRUE, Known(n)', Lost(n))
    BY <2>3, <2>4, <2>5 DEF Change
  <2> QED
    BY <2>5, <2>6, Changes
<1> QED
  BY <1>5, <1>6

\* The start of the watched daemon is over: it is recorded, or runs on unrecorded, or
\* has ended.
LEMMA StartOver ==
  ASSUME ProcInv, alone, alone', NEW c \in Clients, pc[c] \in Starts, job[c].name = Watched,
         \A d \in Clients : pc'[d] \notin Starts,
         \A q \in Pids : Runs(q, Watched)' <=> Runs(q, Watched),
         \A q \in Pids \ {job[c].pid} : ~Recorded(q, Watched)'
  PROVE  Promise!Next
<1> DEFINE n == Watched
<1>0. PICK p \in Pids : p = job[c].pid
  BY StartingOne
<1>1. \A q \in Pids : Starting(q, n) <=> q = p
  BY <1>0, StartingOne
<1>2. p \in Pids /\ \A q \in Pids : Recorded(q, n) => q = p
  BY <1>0, StartingOne DEF StartOwned
<1>3. \A q \in Pids : ~Starting(q, n)'
  BY DEF Starting, Starts
<1>4. Started(n) = TRUE /\ Started(n)' = FALSE
  BY <1>1, <1>2, <1>3 DEF Started
<1>5. Lost(n) \in BOOLEAN /\ Lost(n)' \in BOOLEAN /\ Known(n) \in BOOLEAN /\ Known(n)' \in BOOLEAN
  BY DEF Lost, Known
<1>6. Known(n)' <=> Recorded(p, n)'
  BY <1>0, <1>2 DEF Known
<1>7. Lost(n)' <=> Lost(n) \/ (Runs(p, n) /\ ~Recorded(p, n)')
  BY <1>0, <1>1, <1>2, <1>3 DEF Lost
<1>8. CASE Recorded(p, n)'
  <2>1. Change(TRUE, Known(n), Lost(n), FALSE, TRUE, Lost(n))
    BY <1>4, <1>5, <1>6, <1>7, <1>8 DEF Change
  <2> QED
    BY <1>5, <2>1, Changes
<1>9. CASE ~Recorded(p, n)' /\ Runs(p, n)
  <2>1. Change(TRUE, Known(n), Lost(n), FALSE, FALSE, TRUE)
    BY <1>4, <1>5, <1>6, <1>7, <1>9 DEF Change
  <2> QED
    BY <1>5, <2>1, Changes
<1>10. CASE ~Recorded(p, n)' /\ ~Runs(p, n)
  <2>1. Change(TRUE, Known(n), Lost(n), FALSE, FALSE, Lost(n))
    BY <1>4, <1>5, <1>6, <1>7, <1>10 DEF Change
  <2> QED
    BY <1>5, <2>1, Changes
<1> QED
  BY <1>8, <1>9, <1>10

\* A process ends: a daemon that is being started, a known one or a lost one, or none.
LEMMA ExitSeen ==
  ASSUME ProcInv, alone, alone', NEW p \in Pids, table' = [table EXCEPT ![p] = Exited(p)],
         UNCHANGED pidfile,
         \A q \in Pids : Starting(q, Watched)' <=> Starting(q, Watched)
  PROVE  [Promise!Next]_Seen
<1> DEFINE n == Watched
<1>1. \A q \in Pids : Runs(q, n)' <=> Runs(q, n) /\ q # p
  BY RunsLess, WatchedAssumption DEF ProcInv
<1>2. \A q \in Pids : Recorded(q, n)' <=> Recorded(q, n) /\ q # p
  BY <1>1 DEF Recorded
<1>3. Started(n)' <=> Started(n)
  BY DEF Started
<1>4. Lost(n) \in BOOLEAN /\ Lost(n)' \in BOOLEAN /\ Started(n) \in BOOLEAN
      /\ Started(n)' \in BOOLEAN
  BY DEF Lost, Started
<1>5. Lost(n)' => Lost(n)
  BY <1>1, <1>2 DEF Lost
<1>6. CASE Shown(n)' = Shown(n)
  <2>1. Orphaned(n) = Lost(n) /\ Orphaned(n)' = Lost(n)'
    BY View, ViewNext
  <2>2. CASE Lost(n)' = Lost(n)
    BY <1>6, <2>1, <2>2 DEF Seen
  <2>3. CASE Lost(n)' # Lost(n)
    <3>1. Lost(n) = TRUE /\ Lost(n)' = FALSE
      BY <1>4, <1>5, <2>3
    <3>2. Promise!OrphanEnds
      BY <1>6, <2>1, <3>1 DEF Promise!OrphanEnds
    <3> QED
      BY <3>2 DEF Promise!Next
  <2> QED
    BY <2>2, <2>3
<1>7. CASE Shown(n)' # Shown(n)
  <2>1. ~Started(n) /\ ~(Known(n)' <=> Known(n))
    BY <1>3, <1>7, View, ViewNext
  <2>2. Recorded(p, n) /\ \A q \in Pids : Recorded(q, n) => q = p
    BY <1>2, <2>1 DEF Known, Recorded
  <2>3. Known(n) /\ ~Known(n)'
    BY <1>2, <2>2 DEF Known
  <2>4. Lost(n)' <=> Lost(n)
    BY <1>1, <1>2, <2>2 DEF Lost
  <2>5. Known(n) \in BOOLEAN /\ Known(n)' \in BOOLEAN
    BY DEF Known
  <2>6. Change(FALSE, TRUE, Lost(n), FALSE, FALSE, Lost(n))
    BY <1>3, <1>4, <2>1, <2>3, <2>4, <2>5 DEF Change
  <2> QED
    BY <1>4, <2>6, Changes
<1> QED
  BY <1>6, <1>7

\* The old pid file is truncated while the daemon is being started: nothing is seen.
LEMMA TruncateSeen ==
  ASSUME ProcInv, alone, alone', NEW c \in Clients, Truncate(c)
  PROVE  UNCHANGED Seen
<1> DEFINE n == Watched
<1>0. /\ pc[c] \in Starts /\ pc'[c] \in Starts /\ UNCHANGED <<table, job>>
      /\ pidfile' = [pidfile EXCEPT ![job[c].name] = NoPid]
      /\ \A d \in Clients \ {c} : pc'[d] = pc[d]
      /\ pidfile \in [Names -> Pids \cup {NoPid}] /\ job[c].name \in Names /\ n \in Names
  BY WatchedAssumption DEF Truncate, Step, ProcInv, ProcTypeOK, Starts
<1>1. \A q \in Pids : Starting(q, n)' <=> Starting(q, n)
  BY <1>0, StartingKept
<1>2. \A q \in Pids : Runs(q, n)' <=> Runs(q, n)
  BY <1>0 DEF Runs
<1>3. CASE job[c].name # n
  <2>1. SameView(n)
    BY <1>0, <1>1, <1>2, <1>3 DEF SameView, Recorded
  <2> QED
    BY <2>1, SameViewStutters DEF Seen
<1>4. CASE job[c].name = n
  <2>1. /\ \A q \in Pids : Starting(q, n) <=> q = job[c].pid
        /\ job[c].pid \in Pids
        /\ \A q \in Pids : Recorded(q, n) => q = job[c].pid
    BY <1>0, <1>4, StartingOne DEF StartOwned
  <2>2. \A q \in Pids : ~Recorded(q, n)'
    BY <1>0, <1>4, ProcAssumption DEF Recorded
  <2>3. Started(n) /\ Started(n)'
    BY <1>1, <2>1 DEF Started
  <2>4. Lost(n)' <=> Lost(n)
    BY <1>1, <1>2, <2>1, <2>2 DEF Lost
  <2>5. Lost(n) \in BOOLEAN /\ Lost(n)' \in BOOLEAN
    BY DEF Lost
  <2> QED
    BY <2>3, <2>4, <2>5, View, ViewNext DEF Seen
<1> QED
  BY <1>3, <1>4

\* What is seen of the other steps, if nothing is recorded or started by them.
LEMMA QuietSeen ==
  ASSUME ProcInv, alone' = alone,
         \A q \in Pids : /\ Runs(q, Watched)' <=> Runs(q, Watched)
                         /\ Starting(q, Watched)' <=> Starting(q, Watched)
                         /\ Recorded(q, Watched)' <=> Recorded(q, Watched)
  PROVE  [Promise!Next]_Seen
<1>1. SameView(Watched)
  BY DEF SameView
<1> QED
  BY <1>1, SameViewStutters DEF Seen

LEMMA CallSeen ==
  ASSUME ProcInv, alone, alone', NEW c \in Clients, Call(c)
  PROVE  [Promise!Next]_Seen
<1> DEFINE n == Watched
<1>0. ProcTypeOK /\ n \in Names /\ alone' = alone
      /\ \A d \in Clients \ {c} : pc[d] = "idle" /\ pc'[d] = "idle"
  BY CallSteps, WatchedAssumption DEF ProcInv
<1>1. CASE Refused(c) \/ PollFindsIt(c) \/ ReadPid(c) \/ Terminate(c) \/ SeesItGone(c)
  <2>1. /\ UNCHANGED <<table, pidfile>> /\ (pc'[c] \in Starts <=> pc[c] \in Starts)
        /\ \A d \in Clients \ {c} : pc'[d] = pc[d] /\ job'[d] = job[d]
        /\ pc'[c] \in Starts => job'[c] = job[c]
    BY <1>0, <1>1
       DEF ProcTypeOK, Refused, PollFindsIt, ReadPid, Terminate, SeesItGone, Step, Starts
  <2>2. ASSUME NEW q \in Pids
        PROVE  /\ Runs(q, n)' <=> Runs(q, n)
               /\ Starting(q, n)' <=> Starting(q, n)
               /\ Recorded(q, n)' <=> Recorded(q, n)
    BY <2>1, StartingKept DEF Runs, Recorded
  <2> QED
    BY <1>0, <2>2, QuietSeen
<1>2. CASE Popen(c)
  BY <1>2, PopenSeen
<1>3. CASE PollFindsExit(c)
  <2>1. /\ pc[c] \in Starts /\ pc'[c] \notin Starts /\ UNCHANGED pidfile
        /\ job'[c].name = job[c].name
        /\ table[job[c].pid].st # "running"
    BY <1>0, <1>3 DEF ProcTypeOK, PollFindsExit, Starts
  <2>2. \A q \in Pids : Runs(q, n)' <=> Runs(q, n)
    BY <1>0, <1>3, RunsKept
  <2>3. \A q \in Pids : Recorded(q, n)' <=> Recorded(q, n)
    BY <2>1, <2>2 DEF Recorded
  <2>4. CASE job[c].name # n
    <3>1. \A q \in Pids : Starting(q, n)' <=> Starting(q, n)
      BY <1>0, <2>1, <2>4, StartingKept DEF Starts
    <3> QED
      BY <1>0, <2>2, <2>3, <3>1, QuietSeen
  <2>5. CASE job[c].name = n
    <3>1. \A q \in Pids \ {job[c].pid} : ~Recorded(q, n)'
      BY <2>1, <2>3, <2>5, StartingOne DEF StartOwned
    <3>2. \A d \in Clients : pc'[d] \notin Starts
      BY <1>0, <2>1 DEF Starts
    <3> QED
      BY <2>1, <2>2, <2>5, <3>1, <3>2, StartOver
  <2> QED
    BY <2>4, <2>5
<1>4. CASE Truncate(c)
  BY <1>4, TruncateSeen
<1>5. CASE WritePid(c)
  <2>1. /\ pc[c] \in Starts /\ pc'[c] = "idle" /\ UNCHANGED <<table, job>>
        /\ pidfile' = [pidfile EXCEPT ![job[c].name] = job[c].pid]
    BY <1>0, <1>5 DEF ProcTypeOK, WritePid, Step, Starts
  <2>2. \A q \in Pids : Runs(q, n)' <=> Runs(q, n)
    BY <2>1 DEF Runs
  <2>3. CASE job[c].name # n
    <3>1. \A q \in Pids : Recorded(q, n)' <=> Recorded(q, n)
      BY <1>0, <2>1, <2>2, <2>3 DEF Recorded, ProcTypeOK
    <3>2. \A q \in Pids : Starting(q, n)' <=> Starting(q, n)
      BY <1>0, <2>1, <2>3, StartingKept DEF Starts
    <3> QED
      BY <1>0, <2>2, <3>1, <3>2, QuietSeen
  <2>4. CASE job[c].name = n
    <3>1. \A q \in Pids \ {job[c].pid} : ~Recorded(q, n)'
      BY <1>0, <2>1, <2>4 DEF Recorded, ProcTypeOK
    <3>2. \A d \in Clients : pc'[d] \notin Starts
      BY <1>0, <2>1 DEF Starts
    <3> QED
      BY <2>1, <2>2, <2>4, <3>1, <3>2, StartOver
  <2> QED
    BY <2>3, <2>4
<1>6. CASE Kill(c)
  <2>1. job[c].pid \in Pids /\ pc[c] \notin Starts /\ pc'[c] \notin Starts
        /\ UNCHANGED <<pidfile, job>>
    BY <1>0, <1>6 DEF ProcInv, ProcTypeOK, Kill, Step, Starts, Stops
  <2>2. \A q \in Pids : Starting(q, n)' <=> Starting(q, n)
    BY <1>0, <2>1, StartingKept DEF Starts
  <2>3. CASE table' = table
    <3>1. \A q \in Pids : /\ Runs(q, n)' <=> Runs(q, n)
                          /\ Recorded(q, n)' <=> Recorded(q, n)
      BY <2>1, <2>3 DEF Runs, Recorded
    <3> QED
      BY <1>0, <2>2, <3>1, QuietSeen
  <2>4. CASE table' = [table EXCEPT ![job[c].pid] = Exited(job[c].pid)]
    BY <1>0, <2>1, <2>2, <2>4, ExitSeen
  <2> QED
    BY <1>6, <2>3, <2>4 DEF Kill
<1>7. CASE Unlink(c)
  <2>1. /\ pc[c] = "unlink" /\ pc'[c] = "idle" /\ UNCHANGED <<table, job>>
        /\ pidfile' = [pidfile EXCEPT ![job[c].name] = NoPid]
        /\ pidfile[job[c].name] = job[c].pid /\ ~Runs(job[c].pid, job[c].name)
    BY <1>0, <1>7 DEF ProcInv, CallInv, ProcTypeOK, Unlink, Step, Stops
  <2>2. \A q \in Pids : Runs(q, n)' <=> Runs(q, n)
    BY <2>1 DEF Runs
  <2>3. \A q \in Pids : Starting(q, n)' <=> Starting(q, n)
    BY <1>0, <2>1, StartingKept DEF Starts
  <2>4. \A q \in Pids : Recorded(q, n)' <=> Recorded(q, n)
    <3>1. CASE job[c].name = n
      BY <1>0, <2>1, <3>1, ProcAssumption DEF Recorded, ProcTypeOK
    <3>2. CASE job[c].name # n
      BY <1>0, <2>1, <2>2, <3>2 DEF Recorded, ProcTypeOK
    <3> QED
      BY <3>1, <3>2
  <2> QED
    BY <1>0, <2>2, <2>3, <2>4, QuietSeen
<1> QED
  BY <1>1, <1>2, <1>3, <1>4, <1>5, <1>6, <1>7 DEF Call

\* A command ends between two calls, or is killed in one.
LEMMA EndSeen ==
  ASSUME ProcInv, alone, alone', NEW c \in Clients, CommandEnds(c)
  PROVE  [Promise!Next]_Seen
<1> DEFINE n == Watched
<1>0. ProcTypeOK /\ n \in Names
  BY WatchedAssumption DEF ProcInv
<1>1. /\ pc'[c] = "idle" /\ UNCHANGED <<pidfile, alone>>
      /\ \A d \in Clients \ {c} : pc'[d] = pc[d] /\ job'[d] = job[d]
  BY <1>0 DEF ProcTypeOK, CommandEnds
<1>2. \A q \in Pids : Runs(q, n)' <=> Runs(q, n)
  BY <1>0, RunsKept
<1>3. \A q \in Pids : Recorded(q, n)' <=> Recorded(q, n)
  BY <1>1, <1>2 DEF Recorded
<1>4. CASE pc[c] \in Starts /\ job[c].name = n
  <2>1. \A q \in Pids \ {job[c].pid} : ~Recorded(q, n)'
    BY <1>3, <1>4, StartingOne DEF StartOwned
  <2>2. \A d \in Clients : pc'[d] \notin Starts
    BY <1>1, <1>4, StartingOne DEF Starts
  <2> QED
    BY <1>2, <1>4, <2>1, <2>2, StartOver
<1>5. CASE ~(pc[c] \in Starts /\ job[c].name = n)
  <2>1. \A q \in Pids : Starting(q, n)' <=> Starting(q, n)
    BY <1>1, <1>5, StartingKept DEF Starts
  <2> QED
    BY <1>1, <1>2, <1>3, <2>1, QuietSeen
<1> QED
  BY <1>4, <1>5

\* Every step is a step of Daemon, or none of it.
LEMMA StepSeen ==
  ASSUME ProcInv, [Next]_vars
  PROVE  [Promise!Next]_Seen
<1> DEFINE n == Watched
<1>0. ProcTypeOK /\ n \in Names /\ alone \in BOOLEAN /\ (alone' => alone)
  BY WatchedAssumption, AloneStep DEF ProcInv, ProcTypeOK
<1>1. CASE ~alone
  BY <1>0, <1>1, View, ViewNext DEF Seen
<1>2. CASE alone /\ ~alone'
  <2>1. Promise!LoseTrack
    BY <1>2, ViewNext DEF Promise!LoseTrack
  <2> QED
    BY <2>1 DEF Promise!Next
<1>3. CASE alone /\ alone'
  <2>1. ASSUME NEW c \in Clients, Call(c) PROVE [Promise!Next]_Seen
    BY <1>3, <2>1, CallSeen
  <2>2. ASSUME NEW c \in Clients, CommandEnds(c) PROVE [Promise!Next]_Seen
    BY <1>3, <2>2, EndSeen
  <2>3. ASSUME NEW c \in Clients, NEW m \in Names, StartBegins(c, m) \/ StopBegins(c, m)
        PROVE  [Promise!Next]_Seen
    <3>1. /\ UNCHANGED <<table, pidfile>> /\ pc[c] = "idle" /\ pc'[c] \in {"check", "read"}
          /\ \A d \in Clients \ {c} : pc'[d] = pc[d] /\ job'[d] = job[d]
      BY <1>0, <2>3 DEF ProcTypeOK, StartBegins, StopBegins, Begin, Step
    <3>2. \A q \in Pids : Starting(q, n)' <=> Starting(q, n)
      BY <3>1, StartingKept DEF Starts
    <3>3. \A q \in Pids : /\ Runs(q, n)' <=> Runs(q, n)
                          /\ Recorded(q, n)' <=> Recorded(q, n)
      BY <3>1 DEF Runs, Recorded
    <3> QED
      BY <1>3, <3>2, <3>3, QuietSeen
  <2>4. ASSUME \/ \E c \in Clients : Reap(c)
               \/ \E p \in Pids, s \in Strangers : StrangerStarts(p, s)
        PROVE  [Promise!Next]_Seen
    <3>1. UNCHANGED <<pidfile, pc, job>>
      BY <2>4 DEF Reap, StrangerStarts
    <3>2. \A q \in Pids : Runs(q, n)' <=> Runs(q, n)
      BY <1>0, <2>4, RunsKept
    <3>3. \A q \in Pids : /\ Starting(q, n)' <=> Starting(q, n)
                          /\ Recorded(q, n)' <=> Recorded(q, n)
      BY <3>1, <3>2 DEF Starting, Recorded
    <3> QED
      BY <1>3, <3>2, <3>3, QuietSeen
  <2>5. ASSUME NEW p \in Pids, ProcessExits(p) PROVE [Promise!Next]_Seen
    <3>1. \A q \in Pids : Starting(q, n)' <=> Starting(q, n)
      BY <2>5 DEF ProcessExits, Starting
    <3> QED
      BY <1>3, <2>5, <3>1, ExitSeen DEF ProcessExits
  <2>6. CASE UNCHANGED vars
    <3>1. \A q \in Pids : /\ Runs(q, n)' <=> Runs(q, n)
                          /\ Starting(q, n)' <=> Starting(q, n)
                          /\ Recorded(q, n)' <=> Recorded(q, n)
      BY <2>6 DEF vars, Runs, Starting, Recorded
    <3> QED
      BY <1>3, <3>1, QuietSeen
  <2> QED
    BY <2>1, <2>2, <2>3, <2>4, <2>5, <2>6 DEF Next
<1> QED
  BY <1>0, <1>1, <1>2, <1>3

\* proc.py keeps what the rest of drkvl takes a daemon for, step by step, as long as one
\* command runs at a time: stale and torn pid files, recycled pids, zombies and the retry
\* of tun2socks never show (_start, _stop).  That a start ends is left to TLC.
THEOREM DaemonSafe == Spec => Promise!Init /\ [][Promise!Next]_Seen
<1>1. Init => Promise!Init
  <2> SUFFICES ASSUME Init PROVE Promise!Init
    OBVIOUS
  <2>1. alone /\ \A p \in Pids : ~Starting(p, Watched) /\ ~Recorded(p, Watched) /\ ~Runs(p, Watched)
    BY DEF Init, Starting, Recorded, Runs, Free
  <2> QED
    BY <2>1 DEF Promise!Init, Shown, Orphaned
<1> QED
  BY <1>1, InitProc, NextProc, StepSeen, PTL DEF Spec
=============================================================================
