----------------------------- MODULE SpeedProps -----------------------------
(***************************************************************************)
(* What the parallel speed test must keep.                                 *)
(***************************************************************************)
EXTENDS Speed

\* Type invariant of the Speed module.
SpeedTypeOK ==
  /\ main \in [Commands -> {"idle", "waiting", "stopping"}]
  /\ test \in [Commands -> [Profiles ->
       [at: {"queued", "config", "boot", "curl", "kill", "unlink", "done"},
        xray: {"none", "starting", "listening", "dead"}, file: BOOLEAN,
        result: {"none", "ok", "failed"}, via: {"none", "own", "other"}]]]
  /\ port \in [Profiles -> Commands \cup {Nobody, Stranger}]
  /\ killed \in SUBSET Commands
  /\ quiet \in BOOLEAN

\* A command that ended, normally or by Ctrl-C, left no xray, no temporary file
\* and no port in use behind, whatever failed in its tests (_test_one, _run_xray).
NothingLeft ==
  \A c \in Commands : main[c] = "idle" =>
    \A i \in Profiles :
      /\ test[c][i].xray = "none" /\ ~test[c][i].file
      /\ port[i] # c

\* As long as no two commands overlap, none was killed and no other program uses the
\* ports, a profile is "ok" only if its own xray carried the request: no xray of
\* an earlier run answers in its place (_run_xray takes any listener for its own).
MeasuredThroughOwn ==
  quiet => \A c \in Commands, i \in Profiles :
             test[c][i].result = "ok" => test[c][i].via = "own"

\* A command never has more xrays than workers: the thread that ends a test has
\* ended its xray (MAX_WORKERS, _kill).
XraysBounded ==
  \A c \in Commands :
    Cardinality({i \in Profiles : test[c][i].xray # "none"}) <= MaxWorkers

\* Every test run ends, after Ctrl-C too, although an xray may hang.
TestsEnd == \A c \in Commands : main[c] # "idle" ~> main[c] = "idle"
=============================================================================
