---------------------------- MODULE SpeedProofs ----------------------------
(***************************************************************************)
(* Proofs about the parallel speed test for any number of commands,        *)
(* profiles and workers.                                                   *)
(***************************************************************************)
EXTENDS SpeedProps, FiniteSetTheorems, TLAPS

\* Where a test has an xray and a file, and whose xray listens.
TestsInv ==
  \A c \in Commands, i \in Profiles :
    /\ test[c][i].at \in {"queued", "config", "unlink", "done"} => test[c][i].xray = "none"
    /\ test[c][i].file => test[c][i].at \notin {"queued", "done"}
    /\ port[i] = c => test[c][i].xray = "listening"
    /\ main[c] = "idle" => test[c][i].at = "done"

QuietInv ==
  quiet =>
    /\ \A i \in Profiles : port[i] # Stranger
    /\ \A c, o \in Commands : main[c] # "idle" /\ main[o] # "idle" => c = o

WorkersInv == \A c \in Commands : Cardinality(Busy(c)) <= MaxWorkers

SpeedInv ==
  /\ SpeedTypeOK /\ TestsInv /\ QuietInv /\ MeasuredThroughOwn

Tests ==
  [at: {"queued", "config", "boot", "curl", "kill", "unlink", "done"},
   xray: {"none", "starting", "listening", "dead"}, file: BOOLEAN,
   result: {"none", "ok", "failed"}, via: {"none", "own", "other"}]

\* What holds of a single test.
Proper(t) ==
  /\ t \in Tests
  /\ t.at \in {"queued", "config", "unlink", "done"} => t.xray = "none"
  /\ t.file => t.at \notin {"queued", "done"}
  /\ quiet /\ t.result = "ok" => t.via = "own"

LEMMA AllProper ==
  ASSUME SpeedInv, NEW c \in Commands, NEW i \in Profiles
  PROVE  Proper(test[c][i]) /\ (port[i] = c => test[c][i].xray = "listening")
  BY DEF SpeedInv, SpeedTypeOK, TestsInv, MeasuredThroughOwn, Proper, Tests

\* A step of one test leaves every other one as it is.
LEMMA OneTest ==
  ASSUME SpeedTypeOK, NEW c \in Commands, NEW i \in Profiles, NEW t \in Tests,
         test' = [test EXCEPT ![c][i] = t]
  PROVE  /\ test' \in [Commands -> [Profiles -> Tests]]
         /\ test'[c][i] = t
         /\ \A d \in Commands, j \in Profiles :
              d # c \/ j # i => test'[d][j] = test[d][j]
  BY DEF SpeedTypeOK, Tests


\* What a step of one test must respect to keep the invariant.
LEMMA TestStep ==
  ASSUME SpeedInv, NEW c \in Commands, NEW i \in Profiles, NEW t, Proper(t),
         test' = [test EXCEPT ![c][i] = t],
         UNCHANGED <<main, killed, quiet>>,
         NEW q \in {port[i], Nobody, c}, port' = [port EXCEPT ![i] = q],
         main[c] = "idle" => t.at = "done",
         q = c => t.xray = "listening"
  PROVE  SpeedInv'
<1> USE SpeedAssumption DEF SpeedInv
<1>0. t \in Tests
  BY DEF Proper
<1>1. /\ test' \in [Commands -> [Profiles -> Tests]]
      /\ test'[c][i] = t
      /\ \A d \in Commands, j \in Profiles : d # c \/ j # i => test'[d][j] = test[d][j]
  BY <1>0 DEF SpeedTypeOK, Tests
<1>2. /\ port' \in [Profiles -> Commands \cup {Nobody, Stranger}]
      /\ \A j \in Profiles : j # i => port'[j] = port[j]
      /\ port'[i] = q
  BY DEF SpeedTypeOK
<1>3. SpeedTypeOK'
  BY <1>1, <1>2 DEF SpeedTypeOK, Tests
<1>4. TestsInv'
  <2> SUFFICES ASSUME NEW d \in Commands, NEW j \in Profiles
      PROVE  /\ test'[d][j].at \in {"queued", "config", "unlink", "done"} =>
                  test'[d][j].xray = "none"
             /\ test'[d][j].file => test'[d][j].at \notin {"queued", "done"}
             /\ port'[j] = d => test'[d][j].xray = "listening"
             /\ main[d] = "idle" => test'[d][j].at = "done"
    BY DEF TestsInv
  <2>1. CASE d = c /\ j = i
    BY <1>1, <1>2, <2>1 DEF Proper
  <2>2. CASE d # c \/ j # i
    <3>1. test'[d][j] = test[d][j]
      BY <1>1, <2>2
    <3>2. port'[j] = d => port[j] = d
      BY <1>2, <2>2
    <3> QED
      BY <3>1, <3>2 DEF TestsInv
  <2> QED
    BY <2>1, <2>2
<1>5. QuietInv'
  BY <1>2 DEF QuietInv
<1>6. MeasuredThroughOwn'
  BY <1>1 DEF MeasuredThroughOwn, Proper
<1> QED
  BY <1>3, <1>4, <1>5, <1>6

-----------------------------------------------------------------------------
LEMMA WorkKeeps ==
  ASSUME SpeedInv, NEW c \in Commands, NEW i \in Profiles, Work(c, i)
  PROVE  SpeedInv'
<1> USE SpeedAssumption
<1> DEFINE x == test[c][i]
<1>0. /\ Proper(x) /\ main[c] # "idle"
      /\ port[i] = c => x.xray = "listening"
      /\ port = [port EXCEPT ![i] = port[i]]
  <2>1. main[c] # "idle"
    BY DEF Work, MakeConfig, NoTempFile, StartXray, XrayFails, PortOpen, Deadline, Curl,
       KillXray, Unlink, At
  <2>2. port = [port EXCEPT ![i] = port[i]]
    BY DEF SpeedInv, SpeedTypeOK
  <2> QED
    BY <2>1, <2>2, AllProper DEF x
<1>1. CASE MakeConfig(c, i)
  <2> DEFINE t == [x EXCEPT !.at = "config", !.file = TRUE]
  <2>1. test' = [test EXCEPT ![c][i] = t] /\ UNCHANGED <<main, port, killed, quiet>>
    BY <1>1 DEF MakeConfig, x
  <2>2. Proper(t) /\ (port[i] = c => t.xray = "listening")
    BY <1>0, <1>1 DEF MakeConfig, At, Proper, Tests, x
  <2> HIDE DEF t
  <2> QED
    BY <1>0, <2>1, <2>2, TestStep
<1>2. CASE NoTempFile(c, i)
  <2> DEFINE t == [x EXCEPT !.at = "done", !.result = "failed"]
  <2>1. test' = [test EXCEPT ![c][i] = t] /\ UNCHANGED <<main, port, killed, quiet>>
    BY <1>2 DEF NoTempFile, x
  <2>2. Proper(t) /\ (port[i] = c => t.xray = "listening")
    BY <1>0, <1>2 DEF NoTempFile, At, Proper, Tests, x
  <2> HIDE DEF t
  <2> QED
    BY <1>0, <2>1, <2>2, TestStep
<1>3. CASE StartXray(c, i)
  <2> DEFINE t == [x EXCEPT !.at = "boot", !.xray = "starting"]
  <2>1. test' = [test EXCEPT ![c][i] = t] /\ UNCHANGED <<main, port, killed, quiet>>
    BY <1>3 DEF StartXray, x
  <2>2. Proper(t) /\ (port[i] = c => t.xray = "listening")
    BY <1>0, <1>3 DEF StartXray, At, Proper, Tests, x
  <2> HIDE DEF t
  <2> QED
    BY <1>0, <2>1, <2>2, TestStep
<1>4. CASE XrayFails(c, i)
  <2> DEFINE t == [x EXCEPT !.at = "unlink", !.xray = "none", !.result = "failed"]
  <2>1. test' = [test EXCEPT ![c][i] = t] /\ UNCHANGED <<main, port, killed, quiet>>
    BY <1>4 DEF XrayFails, x
  <2>2. Proper(t) /\ (port[i] = c => t.xray = "listening")
    BY <1>0, <1>4 DEF XrayFails, At, Proper, Tests, x
  <2> HIDE DEF t
  <2> QED
    BY <1>0, <2>1, <2>2, TestStep
<1>5. CASE PortOpen(c, i)
  <2> DEFINE t == [x EXCEPT !.at = "curl"]
  <2>1. test' = [test EXCEPT ![c][i] = t] /\ UNCHANGED <<main, port, killed, quiet>>
    BY <1>5 DEF PortOpen, x
  <2>2. Proper(t) /\ (port[i] = c => t.xray = "listening")
    BY <1>0, <1>5 DEF PortOpen, At, Proper, Tests, x
  <2> HIDE DEF t
  <2> QED
    BY <1>0, <2>1, <2>2, TestStep
<1>6. CASE Deadline(c, i)
  <2> DEFINE t == [x EXCEPT !.at = "kill", !.result = "failed"]
  <2>1. test' = [test EXCEPT ![c][i] = t] /\ UNCHANGED <<main, port, killed, quiet>>
    BY <1>6 DEF Deadline, x
  <2>2. Proper(t) /\ (port[i] = c => t.xray = "listening")
    BY <1>0, <1>6 DEF Deadline, At, Proper, Tests, x
  <2> HIDE DEF t
  <2> QED
    BY <1>0, <2>1, <2>2, TestStep
<1>7. CASE KillXray(c, i)
  <2> DEFINE t == [x EXCEPT !.at = "unlink", !.xray = "none"]
             q == IF port[i] = c THEN Nobody ELSE port[i]
  <2>1. test' = [test EXCEPT ![c][i] = t] /\ UNCHANGED <<main, killed, quiet>>
    BY <1>7 DEF KillXray, x
  <2>2. Proper(t) /\ q # c /\ q \in {port[i], Nobody, c}
    BY <1>0, <1>7 DEF KillXray, At, Proper, Tests
  <2>3. port' = [port EXCEPT ![i] = q]
    BY <1>0, <1>7 DEF KillXray, Released
  <2>4. (main[c] = "idle" => t.at = "done") /\ (q = c => t.xray = "listening")
    BY <1>0, <2>2
  <2> HIDE DEF t, q, x
  <2> QED
    BY <2>1, <2>2, <2>3, <2>4, TestStep
<1>8. CASE Unlink(c, i)
  <2> DEFINE t == [x EXCEPT !.at = "done", !.file = FALSE]
  <2>1. test' = [test EXCEPT ![c][i] = t] /\ UNCHANGED <<main, port, killed, quiet>>
    BY <1>8 DEF Unlink, x
  <2>2. Proper(t) /\ (port[i] = c => t.xray = "listening")
    BY <1>0, <1>8 DEF Unlink, At, Proper, Tests, x
  <2> HIDE DEF t
  <2> QED
    BY <1>0, <2>1, <2>2, TestStep
<1>9. CASE Curl(c, i)
  <2>1. port[i] = Nobody \/ ~quiet \/ port[i] = c
    BY <1>0 DEF SpeedInv, SpeedTypeOK, TestsInv, QuietInv
  <2>2. PICK r \in {"ok", "failed"}, v \in {"own", "other", x.via} :
          /\ test' = [test EXCEPT ![c][i] = [x EXCEPT !.at = "kill", !.result = r, !.via = v]]
          /\ quiet /\ r = "ok" => v = "own"
    BY <1>0, <1>9, <2>1 DEF Curl, x, Proper, Tests
  <2> DEFINE t == [x EXCEPT !.at = "kill", !.result = r, !.via = v]
  <2>3. test' = [test EXCEPT ![c][i] = t] /\ UNCHANGED <<main, port, killed, quiet>>
    BY <1>9, <2>2 DEF Curl
  <2>4. Proper(t) /\ (port[i] = c => t.xray = "listening")
    BY <1>0, <2>2, <1>9 DEF Curl, Proper, Tests, At, x
  <2> HIDE DEF t
  <2> QED
    BY <1>0, <2>3, <2>4, TestStep
<1> QED
  BY <1>1, <1>2, <1>3, <1>4, <1>5, <1>6, <1>7, <1>8, <1>9 DEF Work

-----------------------------------------------------------------------------
\* The steps of the xrays are steps of one test too.
LEMMA XraysKeep ==
  ASSUME SpeedInv, NEW c \in Commands, NEW i \in Profiles,
         XrayListens(c, i) \/ XrayExits(c, i)
  PROVE  SpeedInv'
<1> USE SpeedAssumption
<1> DEFINE x == test[c][i]
<1>0. /\ Proper(x) /\ x.xray # "none"
      /\ main[c] = "idle" => x.at = "done"
  BY AllProper DEF x, XrayListens, XrayExits, SpeedInv, TestsInv
<1>1. CASE XrayListens(c, i)
  <2> DEFINE t == [x EXCEPT !.xray = "listening"]
  <2>1. /\ test' = [test EXCEPT ![c][i] = t] /\ UNCHANGED <<main, killed, quiet>>
        /\ port' = [port EXCEPT ![i] = c]
    BY <1>1 DEF XrayListens, x
  <2>2. Proper(t) /\ t.xray = "listening" /\ (main[c] = "idle" => t.at = "done")
    BY <1>0 DEF Proper, Tests
  <2> HIDE DEF t, x
  <2> QED
    BY <2>1, <2>2, TestStep
<1>2. CASE XrayExits(c, i)
  <2> DEFINE t == [x EXCEPT !.xray = "dead"]
             q == IF port[i] = c THEN Nobody ELSE port[i]
  <2>1. test' = [test EXCEPT ![c][i] = t] /\ UNCHANGED <<main, killed, quiet>>
    BY <1>2 DEF XrayExits, x
  <2>2. port' = [port EXCEPT ![i] = q]
    BY <1>2 DEF XrayExits, Released, SpeedInv, SpeedTypeOK
  <2>3. /\ Proper(t) /\ q # c /\ q \in {port[i], Nobody, c}
        /\ main[c] = "idle" => t.at = "done"
    BY <1>0 DEF Proper, Tests
  <2> HIDE DEF t, q, x
  <2> QED
    BY <2>1, <2>2, <2>3, TestStep
<1> QED
  BY <1>1, <1>2

\* While a command runs no test, no port is its own, so a new run finds the
\* ports as they are.
LEMMA RunTestsKeeps ==
  ASSUME SpeedInv, NEW c \in Commands, RunTests(c)
  PROVE  SpeedInv'
<1> USE DEF SpeedInv
<1>1. \A i \in Profiles : port[i] # c
  BY DEF RunTests, TestsInv
<1>2. port' = port
  BY <1>1 DEF RunTests, Unclaimed, SpeedTypeOK
<1>3. /\ main' = [main EXCEPT ![c] = "waiting"]
      /\ \A i \in Profiles :
           test'[c][i] = [at |-> "queued", xray |-> "none", file |-> FALSE,
                          result |-> "none", via |-> "none"]
      /\ \A d \in Commands \ {c} : test'[d] = test[d]
      /\ test' \in [Commands -> [Profiles -> Tests]]
  BY DEF RunTests, NotRun, SpeedTypeOK, Tests
<1>4. SpeedTypeOK'
  BY <1>2, <1>3 DEF SpeedTypeOK, Tests, RunTests
<1>5. TestsInv'
  BY <1>1, <1>2, <1>3 DEF TestsInv, SpeedTypeOK
<1>6. QuietInv'
  <2>1. quiet' => quiet /\ \A o \in Commands : main[o] = "idle"
    BY DEF RunTests
  <2>2. \A o \in Commands : main[o] = "idle" /\ main'[o] # "idle" => o = c
    BY <1>3 DEF SpeedTypeOK
  <2> QED
    BY <1>2, <2>1, <2>2 DEF QuietInv
<1>7. MeasuredThroughOwn'
  <2>1. quiet' => quiet
    BY DEF RunTests
  <2> QED
    BY <1>3, <2>1 DEF MeasuredThroughOwn
<1> QED
  BY <1>4, <1>5, <1>6, <1>7

LEMMA KilledKeeps ==
  ASSUME SpeedInv, NEW c \in Commands, Killed(c)
  PROVE  SpeedInv'
<1> USE DEF SpeedInv
<1>1. PICK B \in SUBSET {i \in Profiles : test[c][i].xray = "starting" /\ port[i] = Nobody} :
        port' = [i \in Profiles |-> IF i \in B THEN Stranger ELSE Unclaimed(c)[i]]
  BY DEF Killed
<1>2. \A i \in Profiles : (port'[i] = port[i] /\ port[i] # c) \/ port'[i] = Stranger
  BY <1>1 DEF Unclaimed
<1>3. /\ \A i \in Profiles :
           test'[c][i] = [at |-> "done", xray |-> "none", file |-> FALSE,
                          result |-> "none", via |-> "none"]
      /\ \A d \in Commands \ {c} : test'[d] = test[d] /\ main'[d] = main[d]
      /\ test' \in [Commands -> [Profiles -> Tests]]
  BY DEF Killed, NotRun, SpeedTypeOK, Tests
<1>4. SpeedTypeOK'
  BY <1>1, <1>2, <1>3 DEF SpeedTypeOK, Tests, Killed
<1>5. TestsInv'
  BY <1>2, <1>3, SpeedAssumption DEF TestsInv
<1>6. QuietInv' /\ MeasuredThroughOwn'
  BY DEF QuietInv, MeasuredThroughOwn, Killed
<1> QED
  BY <1>4, <1>5, <1>6

LEMMA InvInit == Init => SpeedInv
<1> SUFFICES ASSUME Init PROVE SpeedInv
  OBVIOUS
<1> USE SpeedAssumption DEF Init, NotRun
<1>1. SpeedTypeOK
  BY DEF SpeedTypeOK
<1>2. TestsInv
  BY DEF TestsInv
<1>3. QuietInv /\ MeasuredThroughOwn
  BY DEF QuietInv, MeasuredThroughOwn
<1> QED
  BY <1>1, <1>2, <1>3 DEF SpeedInv

LEMMA InvNext == SpeedInv /\ [Next]_vars => SpeedInv'
<1> SUFFICES ASSUME SpeedInv, [Next]_vars PROVE SpeedInv'
  OBVIOUS
<1>1. ASSUME NEW c \in Commands, RunTests(c) PROVE SpeedInv'
  BY <1>1, RunTestsKeeps
<1>2. ASSUME NEW c \in Commands, AllDone(c) \/ Interrupt(c) PROVE SpeedInv'
  <2> USE DEF AllDone, Interrupt, SpeedInv
  <2>1. SpeedTypeOK'
    BY <1>2 DEF SpeedTypeOK
  <2>2. TestsInv'
    BY <1>2 DEF TestsInv, SpeedTypeOK
  <2>3. /\ UNCHANGED <<test, port, quiet>>
        /\ \A d \in Commands : main'[d] # "idle" => main[d] # "idle"
    BY <1>2 DEF SpeedTypeOK
  <2>4. QuietInv'
    BY <2>3 DEF QuietInv
  <2>5. MeasuredThroughOwn'
    BY <2>3 DEF MeasuredThroughOwn
  <2> QED
    BY <2>1, <2>2, <2>4, <2>5
<1>3. ASSUME NEW c \in Commands, Killed(c) PROVE SpeedInv'
  BY <1>3, KilledKeeps
<1>4. ASSUME NEW c \in Commands, NEW i \in Profiles, Work(c, i) PROVE SpeedInv'
  BY <1>4, WorkKeeps
<1>5. ASSUME NEW c \in Commands, NEW i \in Profiles, XrayListens(c, i) \/ XrayExits(c, i)
      PROVE SpeedInv'
  BY <1>5, XraysKeep
<1>6. ASSUME NEW i \in Profiles, StrangerListens(i) \/ StrangerLeaves(i) PROVE SpeedInv'
  <2> USE SpeedAssumption DEF SpeedInv
  <2>1. SpeedTypeOK'
    BY <1>6 DEF StrangerListens, StrangerLeaves, SpeedTypeOK
  <2>2. TestsInv'
    BY <1>6 DEF StrangerListens, StrangerLeaves, SpeedTypeOK, TestsInv
  <2>3. QuietInv' /\ MeasuredThroughOwn'
    BY <1>6 DEF StrangerListens, StrangerLeaves, SpeedTypeOK, QuietInv, MeasuredThroughOwn
  <2> QED
    BY <2>1, <2>2, <2>3
<1>7. CASE UNCHANGED vars
  BY <1>7 DEF vars, SpeedInv, SpeedTypeOK, TestsInv, QuietInv, MeasuredThroughOwn
<1> QED
  BY <1>1, <1>2, <1>3, <1>4, <1>5, <1>6, <1>7 DEF Next

\* The inductive invariant holds in every behaviour of run_tests.
THEOREM SpeedInvariant == Spec => []SpeedInv
  BY InvInit, InvNext, PTL DEF Spec

\* For every number of commands, profiles and workers, a run that ended left no
\* xray, no temporary file and no port behind (_test_one, _run_xray).
THEOREM LeavesNothing == Spec => []NothingLeft
<1>1. SpeedInv => NothingLeft
  BY DEF SpeedInv, TestsInv, NothingLeft
<1> QED
  BY <1>1, SpeedInvariant, PTL

\* With the ports to itself, a test that reports "ok" was carried by its own xray.
THEOREM OwnXrayMeasured == Spec => []MeasuredThroughOwn
<1>1. SpeedInv => MeasuredThroughOwn
  BY DEF SpeedInv
<1> QED
  BY <1>1, SpeedInvariant, PTL

-----------------------------------------------------------------------------
\* At most MaxWorkers tests are under way, by the executor's guard.
LEMMA BusySet ==
  ASSUME NEW c \in Commands
  PROVE  /\ IsFiniteSet(Busy(c)) /\ Cardinality(Busy(c)) \in Nat
         /\ \A S \in SUBSET Busy(c) :
              Cardinality(S) \in Nat /\ Cardinality(S) <= Cardinality(Busy(c))
<1>1. IsFiniteSet(Busy(c))
  BY FS_Subset, SpeedAssumption DEF Busy
<1> QED
  BY <1>1, FS_Subset, FS_CardinalityType

LEMMA WorkersNext ==
  ASSUME SpeedInv, WorkersInv, [Next]_vars
  PROVE  WorkersInv'
<1> USE SpeedAssumption DEF SpeedInv
<1> SUFFICES ASSUME NEW c \in Commands PROVE Cardinality(Busy(c)') <= MaxWorkers
  BY DEF WorkersInv
<1>1. CASE Busy(c)' \subseteq Busy(c)
  BY <1>1, BusySet DEF WorkersInv
<1>2. ASSUME NEW i \in Profiles, Cardinality(Busy(c)) < MaxWorkers,
             Busy(c)' \subseteq Busy(c) \cup {i}
      PROVE  Cardinality(Busy(c)') <= MaxWorkers
  <2>1. /\ IsFiniteSet(Busy(c) \cup {i})
        /\ Cardinality(Busy(c) \cup {i}) \in Nat
        /\ Cardinality(Busy(c) \cup {i}) <= Cardinality(Busy(c)) + 1
    BY BusySet, FS_AddElement, FS_CardinalityType
  <2>2. /\ Cardinality(Busy(c)') \in Nat
        /\ Cardinality(Busy(c)') <= Cardinality(Busy(c) \cup {i})
    BY <1>2, <2>1, FS_Subset, FS_CardinalityType
  <2> QED
    BY <1>2, <2>1, <2>2, BusySet
<1>3. ASSUME NEW d \in Commands, RunTests(d) \/ Killed(d) \/ AllDone(d) \/ Interrupt(d)
      PROVE  Busy(c)' \subseteq Busy(c)
  <2>1. CASE AllDone(d) \/ Interrupt(d)
    BY <2>1 DEF AllDone, Interrupt, Busy
  <2>2. CASE RunTests(d) \/ Killed(d)
    <3>1. \A i \in Profiles :
            test'[c][i] = test[c][i] \/ test'[c][i].at \in {"queued", "done"}
      <4>1. CASE RunTests(d)
        BY <4>1 DEF RunTests, NotRun, SpeedTypeOK
      <4>2. CASE Killed(d)
        BY <4>2 DEF Killed, NotRun, SpeedTypeOK
      <4> QED
        BY <2>2, <4>1, <4>2
    <3> QED
      BY <3>1 DEF Busy
  <2> QED
    BY <1>3, <2>1, <2>2
<1>4. ASSUME NEW d \in Commands, NEW i \in Profiles,
             \/ NoTempFile(d, i) \/ StartXray(d, i) \/ XrayFails(d, i) \/ PortOpen(d, i)
             \/ Deadline(d, i) \/ Curl(d, i) \/ KillXray(d, i) \/ Unlink(d, i)
             \/ XrayListens(d, i) \/ XrayExits(d, i)
      PROVE  Busy(c)' \subseteq Busy(c)
  <2> USE DEF NoTempFile, StartXray, XrayFails, PortOpen, Deadline, Curl, KillXray, Unlink,
       XrayListens, XrayExits
  <2>1. PICK t : test' = [test EXCEPT ![d][i] = t]
    BY <1>4
  <2>2. \A j \in Profiles : d # c \/ j # i => test'[c][j] = test[c][j]
    BY <2>1 DEF SpeedTypeOK
  <2>3. test[d][i].at \in {"queued", "done"} => test'[d][i].at = "done"
    <3>1. CASE XrayListens(d, i) \/ XrayExits(d, i)
      BY <3>1 DEF TestsInv
    <3>2. CASE XrayFails(d, i)
      BY <3>2 DEF At
    <3>3. CASE NoTempFile(d, i)
      BY <3>3 DEF At, SpeedTypeOK
    <3>4. CASE StartXray(d, i) \/ PortOpen(d, i) \/ Deadline(d, i)
      BY <3>4 DEF At
    <3>5. CASE Curl(d, i) \/ KillXray(d, i) \/ Unlink(d, i)
      BY <3>5 DEF At
    <3> QED
      BY <1>4, <3>1, <3>2, <3>3, <3>4, <3>5
  <2> QED
    BY <2>2, <2>3 DEF Busy
<1>5. ASSUME NEW d \in Commands, NEW i \in Profiles, MakeConfig(d, i)
      PROVE  Cardinality(Busy(c)') <= MaxWorkers
  <2>1. \A j \in Profiles : d # c \/ j # i => test'[c][j] = test[c][j]
    BY <1>5 DEF MakeConfig, SpeedTypeOK
  <2>2. CASE d = c
    <3>1. Busy(c)' \subseteq Busy(c) \cup {i}
      BY <2>1 DEF Busy
    <3> QED
      BY <1>2, <1>5, <2>2, <3>1 DEF MakeConfig
  <2>3. CASE d # c
    BY <1>1, <2>1, <2>3 DEF Busy
  <2> QED
    BY <2>2, <2>3
<1>6. CASE \E i \in Profiles : StrangerListens(i) \/ StrangerLeaves(i)
  BY <1>1, <1>6 DEF StrangerListens, StrangerLeaves, Busy
<1>7. CASE UNCHANGED vars
  BY <1>1, <1>7 DEF vars, Busy
<1> QED
  BY <1>1, <1>3, <1>4, <1>5, <1>6, <1>7 DEF Next, Work

\* For every number of commands, profiles and workers, a command has at most
\* MaxWorkers xrays at a time (MAX_WORKERS).
THEOREM BoundedXrays == Spec => []XraysBounded
<1>1. Init => WorkersInv
  <2> SUFFICES ASSUME Init, NEW c \in Commands PROVE Cardinality(Busy(c)) <= MaxWorkers
    BY DEF WorkersInv
  <2>1. Busy(c) = {}
    BY DEF Init, NotRun, Busy
  <2> QED
    BY <2>1, FS_EmptySet, SpeedAssumption
<1>2. SpeedInv /\ WorkersInv => XraysBounded
  <2> SUFFICES ASSUME SpeedInv, WorkersInv, NEW c \in Commands
      PROVE  Cardinality({i \in Profiles : test[c][i].xray # "none"}) <= MaxWorkers
    BY DEF XraysBounded
  <2>1. {i \in Profiles : test[c][i].xray # "none"} \subseteq Busy(c)
    BY DEF SpeedInv, TestsInv, Busy
  <2> QED
    BY <2>1, BusySet, SpeedAssumption DEF WorkersInv
<1> QED
  BY <1>1, <1>2, SpeedInvariant, WorkersNext, PTL DEF Spec
=============================================================================
