--------------------------- MODULE RemoteMachine ---------------------------
(***************************************************************************)
(* The kernel tests: a host installs the build on a test machine over      *)
(* distributed objects (LFSMachine, LFSVirtualMachine), runs the tests of  *)
(* the test extension one after the other (LFSTestCase), and puts a        *)
(* virtual machine that may have panicked back to its snapshot.  A call    *)
(* whose answer does not come in five seconds raises, whether the machine  *)
(* has executed it or not.  `utility -deploy` only installs.               *)
(***************************************************************************)
EXTENDS Naturals, SequencesExt

CONSTANTS
  Retries,     \* retryCount, 120 in the code
  Listing,     \* kLustreTestListings: the tests of the test extension, in order
  Requests     \* the tests of the generated test cases

\* A section is a sequence of letters.  The handler takes a listing whose section is
\* a prefix of the one it is asked for (strprefix, test.c:84), so no test may have
\* the name of one it would then be mistaken for.
ASSUME RetriesAssumption == Retries \in Nat \ {0}
ASSUME RequestsAssumption ==
  \A r \in Requests, i \in 1..Len(Listing) :
    IsPrefix(Listing[i].section, r.section) /\ Listing[i].name = r.name => Listing[i] = r

VARIABLES
  program,     \* "tests", or the argument of -deploy: "vm" or "machine"
  pc,          \* where the host is
  step,        \* the call of the attempt that is next, an index of Calls
  vix,         \* _vix # nil
  proxy,       \* _testRunnerProxy # nil
  retries,     \* retryCount
  error,       \* *error is set
  left,        \* the tests that have not been started
  test,        \* the one that has
  failed,      \* a failure of it is recorded
  verdict,     \* how it ended, or the deployment; {} until then
  snapshot,    \* the state of the machine the virtual machine goes back to
  alive,       \* the machine runs, and has not panicked
  disk,        \* the build in /Library/Extensions of each extension
  loaded,      \* and the one the kernel runs
  late,        \* calls of /bin/rm that still run after their caller gave up
  suspect,     \* the host took the machine for panicked and has not reverted it
  complete,    \* the last call of the last attempt to install was answered YES
  ran          \* what the machine ran since the test was started

hostVars == <<program, pc, step, vix, proxy, retries, error>>
testVars == <<left, test, failed, verdict>>
machineVars == <<snapshot, alive, disk, loaded, late>>
historyVars == <<suspect, complete, ran>>
vars == <<hostVars, testVars, machineVars, historyVars>>

Extensions == {"kext", "test"}
Builds == {"none", "partial", "old", "new"}

\* A test that is ignored or asserts nothing leaves file and line unset; the
\* handler makes an error of its own when it does not find the test.
Results == {"success", "fail", "unset", "error"}
PCs == {"next", "vm", "attempt", "call", "heartbeat", "run", "done"}

\* The calls of an attempt, each with what it is about: heartbeat, uninstallAll and
\* the four installs.  "fs" and "netfs" are bundles without an extension.
Call(verb, of) == [verb |-> verb, of |-> of]
Calls ==
  << Call("heartbeat", "none"),
     Call("unload", "test"), Call("unload", "kext"), Call("remove", "netfs"),
     Call("remove", "test"), Call("remove", "kext"), Call("remove", "fs"),
     Call("copy", "fs"), Call("copy", "kext"), Call("load", "kext"),
     Call("copy", "netfs"), Call("copy", "test"), Call("load", "test") >>
TestInstall == {Call("copy", "test"), Call("load", "test")}

\* What the test extension did for a call of runTest, and on what builds.
Runs == [test : Requests, result : Results, on : [Extensions -> Builds]]

\* A test that ended, or the one deployment.
Deployment == [section |-> <<>>, name |-> "deploy"]
Verdicts == [of : Requests \cup {Deployment}, end : {"passed", "failed"},
             ran : SUBSET Runs, complete : BOOLEAN, on : [Extensions -> Builds]]

TypeOK ==
  /\ program \in {"tests", "vm", "machine"} /\ pc \in PCs
  /\ step \in 1..Len(Calls) /\ retries \in 0..Retries
  /\ {vix, proxy, error, failed, alive, suspect, complete} \subseteq BOOLEAN
  /\ left \subseteq Requests /\ test \in Requests \cup {Deployment}
  /\ verdict \subseteq Verdicts
  /\ disk \in [Extensions -> Builds]
  /\ loaded \in [Extensions -> {"none", "old", "new"}]
  /\ late \subseteq Extensions
  /\ ran \subseteq Runs

\* A machine that has the old build, or a part of it, or nothing.
Snapshots ==
  {s \in [disk : [Extensions -> {"none", "old"}], loaded : [Extensions -> {"none", "old"}]] :
     /\ \A e \in Extensions : s.loaded[e] # "none" => s.disk[e] # "none"
     /\ s.loaded["test"] # "none" => s.loaded["kext"] # "none"}

Init ==
  /\ program \in {"tests", "vm", "machine"}
  /\ pc = CASE program = "tests" -> "next" [] program = "vm" -> "vm" [] OTHER -> "attempt"
  /\ step = 1 /\ vix = FALSE /\ proxy = FALSE /\ retries = Retries /\ error = FALSE
  /\ left = (IF program = "tests" THEN Requests ELSE {})
  /\ test = Deployment /\ failed = FALSE /\ verdict = {}
  /\ snapshot \in Snapshots
  /\ alive = (program = "machine")
  /\ disk = snapshot.disk /\ loaded = snapshot.loaded /\ late = {}
  /\ suspect = FALSE /\ complete = FALSE /\ ran = {}
-----------------------------------------------------------------------------
(* The machine: what a call does to its disk and its kernel, and its       *)
(* answer.                                                                 *)

Machine == [disk |-> disk, loaded |-> loaded]

Outcome(m, answer) == [disk |-> m.disk, loaded |-> m.loaded, answer |-> answer]

\* unloadExtension: one that is not loaded counts as unloaded; one that another
\* depends on, or that refuses to stop, stays.
Unload(m, e) ==
  IF e = "kext" /\ m.loaded["test"] # "none"
  THEN {Outcome(m, m.loaded[e] = "none")}
  ELSE {Outcome(m, m.loaded[e] = "none"), Outcome([m EXCEPT !.loaded[e] = "none"], TRUE)}

\* /bin/rm -rf
RemoveItem(m, e) ==
  {Outcome(m, FALSE),
   Outcome([m EXCEPT !.disk = [x \in Extensions |-> IF x = e THEN "none" ELSE @[x]]], TRUE)}

\* createDirectory and createFile for the items of the bundle, up to the first NO
Copy(m, e) ==
  LET with(build) == [m EXCEPT !.disk = [x \in Extensions |-> IF x = e THEN build ELSE @[x]]]
  IN  {Outcome(with("partial"), FALSE), Outcome(with("new"), TRUE)}

\* The kernel has one build of an extension: the same once more is no error, another is.
LoadOne(m, e) ==
  IF m.disk[e] \in {"none", "partial"} \/ m.loaded[e] \notin {"none", m.disk[e]}
  THEN {Outcome(m, FALSE)}
  ELSE {Outcome(m, m.loaded[e] # "none"),
        Outcome([m EXCEPT !.loaded[e] = m.disk[e]], TRUE)}

\* loadExtension: the test extension needs the other one, and may bring it along.
Load(m, e) ==
  IF e = "kext" \/ m.loaded["kext"] # "none" THEN LoadOne(m, e)
  ELSE UNION {IF o.answer THEN LoadOne(o, e) ELSE {o} : o \in LoadOne(m, "kext")}

Outcomes(m, call) ==
  CASE call.verb = "heartbeat" -> {Outcome(m, TRUE)}
    [] call.verb = "unload"    -> Unload(m, call.of)
    [] call.verb = "remove"    -> RemoveItem(m, call.of)
    [] call.verb = "copy"      -> Copy(m, call.of)
    [] call.verb = "load"      -> Load(m, call.of)
-----------------------------------------------------------------------------
(* configure: of LFSVirtualMachine and LFSMachine                          *)

Verdict(of, passed) ==
  [of |-> of, end |-> IF passed THEN "passed" ELSE "failed",
   ran |-> ran', complete |-> complete', on |-> loaded']

\* Mutant: setUp does not look at the answer.
ConfiguredQuietly(answer) ==
  IF program = "tests" THEN pc' = "run" /\ UNCHANGED <<failed, verdict>>
  ELSE /\ pc' = "done" /\ UNCHANGED failed
       /\ verdict' = {Verdict(Deployment, answer)}

\* configure: returns.  The test is run in either case (LFSTestCase.m:40-47), and
\* -deploy exits with the answer.
Configured(answer) ==
  IF program = "tests"
  THEN pc' = "run" /\ failed' = (failed \/ ~answer) /\ UNCHANGED verdict
  ELSE /\ pc' = "done" /\ UNCHANGED failed
       /\ verdict' = {Verdict(Deployment, answer)}

\* Mutant: retryCount >= 0, of an unsigned number.
TryAgainOnceMore(retriesLeft) ==
  IF retriesLeft >= 0 THEN pc' = "attempt" /\ UNCHANGED <<failed, verdict>>
  ELSE Configured(FALSE)

\* The end of an attempt with t = 0.
TryAgain(retriesLeft) ==
  IF retriesLeft > 0 THEN pc' = "attempt" /\ UNCHANGED <<failed, verdict>>
  ELSE Configured(FALSE)

Reverted ==
  /\ alive' = TRUE /\ disk' = snapshot.disk /\ loaded' = snapshot.loaded /\ late' = {}
  /\ suspect' = FALSE /\ complete' = FALSE

\* setUp
SetUp ==
  /\ pc = "next"
  /\ \E t \in left : test' = t /\ left' = left \ {t}
  /\ failed' = FALSE /\ verdict' = {} /\ error' = FALSE /\ retries' = Retries /\ ran' = {}
  /\ pc' = IF ~vix THEN "vm" ELSE IF proxy THEN "heartbeat" ELSE "attempt"
  /\ UNCHANGED <<program, step, vix, proxy, machineVars, suspect, complete>>

\* configureVM: connect, open and revert, each of which may fail; the last one
\* after it has reverted the machine, too.
ConfigureVM ==
  /\ pc = "vm"
  /\ UNCHANGED ran
  /\ \/ /\ Reverted
        /\ vix' = TRUE
        /\ pc' = IF proxy THEN "heartbeat" ELSE "attempt"
        /\ UNCHANGED <<failed, verdict>>
     \/ /\ Reverted \/ UNCHANGED <<alive, disk, loaded, late, suspect, complete>>
        /\ UNCHANGED vix
        /\ Configured(FALSE)
  /\ UNCHANGED <<program, step, proxy, retries, error, left, test, snapshot>>

\* Mutant: the tries are not counted.
AttemptUncounted ==
  /\ pc = "attempt"
  /\ complete' = FALSE
  /\ UNCHANGED <<machineVars, suspect, ran, retries>>
  /\ \/ proxy' = TRUE /\ step' = 1 /\ pc' = "call" /\ UNCHANGED <<failed, verdict>>
     \/ proxy' \in {FALSE, proxy} /\ UNCHANGED step /\ TryAgain(retries)
  /\ UNCHANGED <<program, vix, error, left, test>>

\* One round of the loop begins: configureTestRunner finds the daemon, or it does
\* not and the heartbeat of nil is 0, or it raises.
Attempt ==
  /\ pc = "attempt"
  /\ retries' = retries - 1
  /\ complete' = FALSE
  /\ UNCHANGED <<machineVars, suspect, ran>>
  /\ \/ proxy' = TRUE /\ step' = 1 /\ pc' = "call" /\ UNCHANGED <<failed, verdict>>
     \/ proxy' \in {FALSE, proxy} /\ UNCHANGED step /\ TryAgain(retries - 1)
  /\ UNCHANGED <<program, vix, error, left, test>>

\* Mutant: a step that fails is only logged.
AfterAnyAnswer(call, answer) ==
  /\ error' = (error \/ (~answer /\ call.verb \in {"copy", "load"}))
  /\ complete' = (answer /\ step = Len(Calls))
  /\ IF step < Len(Calls)
     THEN step' = step + 1 /\ UNCHANGED <<pc, failed, verdict>>
     ELSE /\ UNCHANGED step
          /\ IF ~answer /\ call \in TestInstall THEN TryAgain(retries) ELSE Configured(TRUE)

\* What the answer of the call leads to.  Of the installs only the last one has the
\* loop go on when it fails.
After(call, answer) ==
  /\ error' = (error \/ (~answer /\ call.verb \in {"copy", "load"}))
  /\ complete' = (answer /\ step = Len(Calls))
  /\ IF answer /\ step < Len(Calls)
     THEN step' = step + 1 /\ UNCHANGED <<pc, failed, verdict>>
     ELSE /\ UNCHANGED step
          /\ IF ~answer /\ call \in TestInstall THEN TryAgain(retries) ELSE Configured(TRUE)

\* copyBuildArtifact takes an error of an earlier attempt for one of its own.
Answer ==
  /\ pc = "call"
  /\ UNCHANGED <<snapshot, alive, late, suspect, ran>>
  /\ LET call == Calls[step]
     IN  IF call.verb = "copy" /\ error
         THEN UNCHANGED <<disk, loaded>> /\ After(call, FALSE)
         ELSE /\ alive
              /\ \E o \in Outcomes(Machine, call) :
                   disk' = o.disk /\ loaded' = o.loaded /\ After(call, o.answer)
  /\ UNCHANGED <<program, vix, proxy, retries, left, test>>

\* The call raises: the machine has not executed it, or has, or /bin/rm takes its
\* time.  If the connection died, connectionDidDie: has reset the proxy.
Raise ==
  /\ pc = "call"
  /\ UNCHANGED <<snapshot, alive, suspect, complete, ran>>
  /\ LET call == Calls[step]
     IN  \/ UNCHANGED <<disk, loaded, late>>
         \/ /\ alive
            /\ \E o \in Outcomes(Machine, call) : disk' = o.disk /\ loaded' = o.loaded
            /\ UNCHANGED late
         \/ /\ alive /\ call.verb = "remove" /\ call.of \in Extensions
            /\ late' = late \cup {call.of}
            /\ UNCHANGED <<disk, loaded>>
  /\ proxy' \in {FALSE, proxy}
  /\ TryAgain(retries)
  /\ UNCHANGED <<program, step, vix, retries, error, left, test>>
-----------------------------------------------------------------------------
(* LFSTestCase                                                             *)

\* The test is over.
Finish(passed) ==
  /\ verdict' = {Verdict(test, passed)}
  /\ pc' = IF left = {} THEN "done" ELSE "next"

\* With a proxy configure: only asks for a heartbeat.  If that raises, setUp does,
\* and XCTest may or may not call the test.
Heartbeat ==
  /\ pc = "heartbeat"
  /\ UNCHANGED <<machineVars, suspect, complete, ran>>
  /\ \/ alive /\ Configured(TRUE) /\ UNCHANGED proxy
     \/ /\ proxy' \in {FALSE, proxy}
        /\ failed' = TRUE
        /\ (pc' = "run" /\ UNCHANGED verdict) \/ Finish(FALSE)
  /\ UNCHANGED <<program, step, vix, retries, error, left, test>>

\* What the handler of the lustre.test sysctl may do: run the first test that fits.
Handler(request) ==
  LET fits == {i \in 1..Len(Listing) :
                 /\ IsPrefix(Listing[i].section, request.section)
                 /\ Listing[i].name = request.name}
      first == CHOOSE i \in fits : \A j \in fits : i <= j
  IN  IF fits = {} THEN [test : {request}, result : {"error"}, on : {loaded}]
      ELSE [test : {Listing[first]}, result : Results \ {"error"}, on : {loaded}]

\* A message may be cut off before its condition, and does not parse; a message with
\* unset memory in it reads as anything.
MayPass(result) == result \in {"success", "unset"}

\* What runTest: of the machine answers: the message of a run, or without a test
\* extension that the sysctl call failed, which does not parse.
Messages(request) ==
  IF loaded["test"] = "none" THEN {{}} ELSE {{run} : run \in Handler(request)}

\* A proxy that is nil answers nil, in which nothing is found that failed.
RunTest ==
  /\ pc = "run"
  /\ UNCHANGED <<machineVars, suspect, complete>>
  /\ \/ ~proxy /\ UNCHANGED ran /\ Finish(~failed)
     \/ /\ proxy /\ alive
        /\ \E message \in Messages(test), passed \in BOOLEAN :
             /\ ran' = message
             /\ passed => ~failed /\ \E run \in message : MayPass(run.result)
             /\ Finish(passed)
  /\ UNCHANGED <<program, step, vix, proxy, retries, error, left, test, failed>>

\* Mutant: LFSVirtualMachine does not override invalidate.
HandlePanicKeepingVix ==
  /\ pc = "run" /\ proxy
  /\ \/ proxy' = FALSE /\ suspect' = TRUE /\ UNCHANGED vix
     \/ UNCHANGED <<vix, proxy, suspect>>
  /\ UNCHANGED <<machineVars, complete>>
  /\ UNCHANGED ran \/ (alive /\ ran' \in Messages(test))
  /\ Finish(FALSE)
  /\ UNCHANGED <<program, step, retries, error, left, test, failed>>

\* runTest raises, and handlePossiblePanic takes the machine for panicked, unless
\* the debugger's output has no end and raises in its turn before the invalidate.
HandlePossiblePanic ==
  /\ pc = "run" /\ proxy
  /\ \/ vix' = FALSE /\ proxy' = FALSE /\ suspect' = TRUE
     \/ UNCHANGED <<vix, proxy, suspect>>
  /\ UNCHANGED <<machineVars, complete>>
  /\ UNCHANGED ran \/ (alive /\ ran' \in Messages(test))
  /\ Finish(FALSE)
  /\ UNCHANGED <<program, step, retries, error, left, test, failed>>
-----------------------------------------------------------------------------
(* What else happens                                                       *)

\* The extension, or the test it is given, panics.
Panic ==
  /\ alive /\ loaded["kext"] # "none"
  /\ alive' = FALSE
  /\ UNCHANGED <<hostVars, testVars, snapshot, disk, loaded, late, historyVars>>

RemovalEnds ==
  /\ alive
  /\ \E e \in late : disk' = [disk EXCEPT ![e] = "none"] /\ late' = late \ {e}
  /\ UNCHANGED <<hostVars, testVars, snapshot, alive, loaded, historyVars>>

\* connectionDidDie: comes from the run loop, which runs between two tests and
\* during a call.
ConnectionDidDie ==
  /\ pc = "next" /\ proxy
  /\ proxy' = FALSE
  /\ UNCHANGED <<program, pc, step, vix, retries, error, testVars, machineVars, historyVars>>

HostStep ==
  \/ SetUp \/ ConfigureVM \/ Attempt \/ Answer \/ Raise
  \/ Heartbeat \/ RunTest \/ HandlePossiblePanic

Done == pc = "done" /\ UNCHANGED vars

Next == HostStep \/ Panic \/ RemovalEnds \/ ConnectionDidDie \/ Done

\* Every call of the host is answered or raises after five seconds.
Spec == Init /\ [][Next]_vars /\ WF_vars(HostStep)
-----------------------------------------------------------------------------
(* Properties                                                              *)

\* A test that is reported as passed was run by the machine, it and no other, and
\* its result was no failure (LFSTestCase.m:56-71, test.c:82-103).
PassedTestRan ==
  \A v \in verdict : v.of # Deployment /\ v.end = "passed" =>
    \E run \in v.ran : run.test = v.of /\ run.result \notin {"fail", "error"}

\* When the last installFilesystemTest: answered YES, the extensions that are
\* deployed, or that passed a test, are of the new build, whatever failed or timed
\* out on the way (LFSMachine.m:61-77).  Without it configure: may answer YES, too.
PassedOnNewBuild ==
  \A v \in verdict : v.end = "passed" /\ v.complete =>
    \A e \in Extensions : v.on[e] = "new" /\ \A run \in v.ran : run.on[e] = "new"

\* A test extension never runs with a file system extension of another build
\* (LFSMachine.m:66-72).
ExtensionsMatch == loaded["test"] \in {"none", loaded["kext"]}

\* A machine that was given up as panicked gets no test before it is reverted
\* (LFSTestCase.m:59, 116; LFSVirtualMachine.m:41-58).
PanicIsReverted == [][ran' # ran /\ ran' # {} => ~suspect]_vars

\* Whatever fails, every test and every deployment ends (LFSMachine.m:79).
SessionEnds == <>(pc = "done" /\ left = {})
=============================================================================
