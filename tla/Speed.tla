------------------------------- MODULE Speed -------------------------------
(***************************************************************************)
(* speed.run_tests, the parallel test of speedtest and up --fallback: a    *)
(* pool of MaxWorkers threads, each test with a throwaway xray on the port *)
(* of its index and a temporary file with its configuration.  Several      *)
(* commands may run, other programs may listen on the same ports, and a    *)
(* command may be interrupted (Ctrl-C) or killed.                          *)
(*                                                                         *)
(* Abstraction: a latency is left out, a result is its status and whose    *)
(* xray carried it; _kill takes no time, its end is what matters.          *)
(***************************************************************************)
EXTENDS Integers, FiniteSets

CONSTANTS
  Commands,     \* drkvl processes that test
  Profiles,     \* 1 .. n, the indices of the profiles and of their ports
  MaxWorkers,
  Nobody,       \* no one listens on the port
  Stranger      \* a program that no running command answers for does

ASSUME SpeedAssumption ==
  /\ MaxWorkers \in Nat \ {0} /\ IsFiniteSet(Profiles)
  /\ Nobody \notin Commands /\ Stranger \notin Commands /\ Nobody # Stranger

VARIABLES
  main,     \* main[c]: "idle", "waiting" for the results, "stopping" after Ctrl-C
  test,     \* test[c][i]: the thread that tests profile i, its xray, file and result
  port,     \* port[i]: who listens on BASE_PORT + i
  killed,   \* commands whose last run was killed
  quiet     \* so far the ports were used by one test at a time

vars == <<main, test, port, killed, quiet>>

NotRun == [at |-> "done", xray |-> "none", file |-> FALSE, result |-> "none", via |-> "none"]

Init ==
  /\ main = [c \in Commands |-> "idle"]
  /\ test = [c \in Commands |-> [i \in Profiles |-> NotRun]]
  /\ port = [i \in Profiles |-> Nobody]
  /\ killed = {}
  /\ quiet = TRUE

Busy(c) == {i \in Profiles : test[c][i].at \notin {"queued", "done"}}

At(c, i, from) == main[c] # "idle" /\ test[c][i].at = from

\* The ports as they are when nobody answers for the xrays of c any more.
Unclaimed(c) == [i \in Profiles |-> IF port[i] = c THEN Stranger ELSE port[i]]
Released(c, i) == IF port[i] = c THEN [port EXCEPT ![i] = Nobody] ELSE port

-----------------------------------------------------------------------------
\* run_tests

RunTests(c) ==
  /\ main[c] = "idle"
  /\ main' = [main EXCEPT ![c] = "waiting"]
  /\ test' = [test EXCEPT ![c] = [i \in Profiles |-> [NotRun EXCEPT !.at = "queued"]]]
  /\ port' = Unclaimed(c)
  /\ killed' = killed \ {c}
  /\ quiet' = (quiet /\ \A o \in Commands : main[o] = "idle")

\* The executor waits for its threads, after Ctrl-C too.
AllDone(c) ==
  /\ main[c] # "idle" /\ \A i \in Profiles : test[c][i].at = "done"
  /\ main' = [main EXCEPT ![c] = "idle"]
  /\ UNCHANGED <<test, port, killed, quiet>>

\* The wait for the results ends; queued tests are not cancelled.
Interrupt(c) ==
  /\ main[c] = "waiting"
  /\ main' = [main EXCEPT ![c] = "stopping"]
  /\ UNCHANGED <<test, port, killed, quiet>>

\* The xrays run in sessions of their own and stay, with what they listen on.
Killed(c) ==
  /\ main[c] # "idle"
  /\ main' = [main EXCEPT ![c] = "idle"]
  /\ killed' = killed \cup {c}
  /\ \E B \in SUBSET {i \in Profiles : test[c][i].xray = "starting" /\ port[i] = Nobody} :
       port' = [i \in Profiles |-> IF i \in B THEN Stranger ELSE Unclaimed(c)[i]]
  /\ test' = [test EXCEPT ![c] = [i \in Profiles |-> NotRun]]
  /\ quiet' = FALSE

-----------------------------------------------------------------------------
\* _test_one, _run_xray

MakeConfig(c, i) ==
  /\ At(c, i, "queued")
  /\ Cardinality(Busy(c)) < MaxWorkers
  /\ test' = [test EXCEPT ![c][i] = [@ EXCEPT !.at = "config", !.file = TRUE]]
  /\ UNCHANGED <<main, port, killed, quiet>>

\* mkstemp raises: the future carries the exception.
NoTempFile(c, i) ==
  /\ At(c, i, "queued")
  /\ Cardinality(Busy(c)) < MaxWorkers
  /\ test' = [test EXCEPT ![c][i] = [@ EXCEPT !.at = "done", !.result = "failed"]]
  /\ UNCHANGED <<main, port, killed, quiet>>

StartXray(c, i) ==
  /\ At(c, i, "config")
  /\ test' = [test EXCEPT ![c][i] = [@ EXCEPT !.at = "boot", !.xray = "starting"]]
  /\ UNCHANGED <<main, port, killed, quiet>>

\* Mutant: without an xray the test returns before the try whose finally unlinks.
XrayFailsEarly(c, i) ==
  /\ \/ At(c, i, "config")
     \/ At(c, i, "boot") /\ test[c][i].xray = "dead"
  /\ test' = [test EXCEPT ![c][i] =
             [@ EXCEPT !.at = "done", !.xray = "none", !.result = "failed"]]
  /\ UNCHANGED <<main, port, killed, quiet>>

\* The configuration cannot be written, Popen raises OSError, or xray is found
\* dead at a poll.
XrayFails(c, i) ==
  /\ \/ At(c, i, "config")
     \/ At(c, i, "boot") /\ test[c][i].xray = "dead"
  /\ test' = [test EXCEPT ![c][i] =
             [@ EXCEPT !.at = "unlink", !.xray = "none", !.result = "failed"]]
  /\ UNCHANGED <<main, port, killed, quiet>>

\* Whoever it is that listens; xray may have died since the poll.
PortOpen(c, i) ==
  /\ At(c, i, "boot")
  /\ port[i] # Nobody
  /\ test' = [test EXCEPT ![c][i] = [@ EXCEPT !.at = "curl"]]
  /\ UNCHANGED <<main, port, killed, quiet>>

\* Mutant: xray is not killed when its port did not open in time.
DeadlineUnkilled(c, i) ==
  /\ At(c, i, "boot")
  /\ test' = [test EXCEPT ![c][i] = [@ EXCEPT !.at = "unlink", !.result = "failed"]]
  /\ UNCHANGED <<main, port, killed, quiet>>

\* Mutant: the loop has no deadline.
NoDeadline(c, i) ==
  /\ At(c, i, "boot") /\ test[c][i].xray = "dead"
  /\ test' = [test EXCEPT ![c][i] = [@ EXCEPT !.at = "kill", !.result = "failed"]]
  /\ UNCHANGED <<main, port, killed, quiet>>

Deadline(c, i) ==
  /\ At(c, i, "boot")
  /\ test' = [test EXCEPT ![c][i] = [@ EXCEPT !.at = "kill", !.result = "failed"]]
  /\ UNCHANGED <<main, port, killed, quiet>>

\* ok, if somebody carried the request; a timeout or an error ("failed") at any time.
Curl(c, i) ==
  /\ At(c, i, "curl")
  /\ \/ /\ port[i] # Nobody
        /\ test' = [test EXCEPT ![c][i] =
                   [@ EXCEPT !.at = "kill", !.result = "ok", !.via = IF port[i] = c THEN "own" ELSE "other"]]
     \/ test' = [test EXCEPT ![c][i] = [@ EXCEPT !.at = "kill", !.result = "failed"]]
  /\ UNCHANGED <<main, port, killed, quiet>>

\* Mutant: SIGTERM is sent but not followed by SIGKILL.
TerminateOnly(c, i) ==
  /\ At(c, i, "kill")
  /\ test' = [test EXCEPT ![c][i] = [@ EXCEPT !.at = "unlink"]]
  /\ UNCHANGED <<main, port, killed, quiet>>

KillXray(c, i) ==
  /\ At(c, i, "kill")
  /\ test' = [test EXCEPT ![c][i] = [@ EXCEPT !.at = "unlink", !.xray = "none"]]
  /\ port' = Released(c, i)
  /\ UNCHANGED <<main, killed, quiet>>

Unlink(c, i) ==
  /\ At(c, i, "unlink")
  /\ test' = [test EXCEPT ![c][i] = [@ EXCEPT !.at = "done", !.file = FALSE]]
  /\ UNCHANGED <<main, port, killed, quiet>>

Work(c, i) ==
  \/ MakeConfig(c, i) \/ NoTempFile(c, i) \/ StartXray(c, i) \/ XrayFails(c, i)
  \/ PortOpen(c, i) \/ Deadline(c, i) \/ Curl(c, i) \/ KillXray(c, i) \/ Unlink(c, i)

-----------------------------------------------------------------------------
\* The xrays and other programs.

XrayListens(c, i) ==
  /\ test[c][i].xray = "starting" /\ port[i] = Nobody
  /\ port' = [port EXCEPT ![i] = c]
  /\ test' = [test EXCEPT ![c][i] = [@ EXCEPT !.xray = "listening"]]
  /\ UNCHANGED <<main, killed, quiet>>

\* The port is taken, a bad configuration, any other end.
XrayExits(c, i) ==
  /\ test[c][i].xray \in {"starting", "listening"}
  /\ test' = [test EXCEPT ![c][i] = [@ EXCEPT !.xray = "dead"]]
  /\ port' = Released(c, i)
  /\ UNCHANGED <<main, killed, quiet>>

StrangerListens(i) ==
  /\ port[i] = Nobody
  /\ port' = [port EXCEPT ![i] = Stranger]
  /\ quiet' = FALSE
  /\ UNCHANGED <<main, test, killed>>

StrangerLeaves(i) ==
  /\ port[i] = Stranger
  /\ port' = [port EXCEPT ![i] = Nobody]
  /\ UNCHANGED <<main, test, killed, quiet>>

Next ==
  \/ \E c \in Commands :
       \/ RunTests(c) \/ AllDone(c) \/ Interrupt(c) \/ Killed(c)
       \/ \E i \in Profiles : Work(c, i) \/ XrayListens(c, i) \/ XrayExits(c, i)
  \/ \E i \in Profiles : StrangerListens(i) \/ StrangerLeaves(i)

Fairness ==
  \A c \in Commands :
    /\ WF_vars(AllDone(c))
    /\ \A i \in Profiles : WF_vars(Work(c, i))

Spec == Init /\ [][Next]_vars /\ Fairness
=============================================================================
