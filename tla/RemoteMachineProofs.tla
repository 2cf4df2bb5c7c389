------------------------ MODULE RemoteMachineProofs ------------------------
(***************************************************************************)
(* RemoteMachine, for every number of retries, every listing and all tests *)
(* of it: what a test that passed has run and on which builds, and what    *)
(* the host may send to a machine it has given up.                         *)
(***************************************************************************)
EXTENDS RemoteMachine, WellFoundedInduction, TLAPS

Loadable == {"none", "old", "new"}

\* The machine between two calls of an attempt: what the calls that were answered
\* YES have left on its disk d and in its kernel l when call s is next.  A removal
\* that was given up earlier may still take a file away.
Stage(d, l, s) ==
  /\ s \in 3..13  => l["test"] = "none"
  /\ s \in 4..10  => l["kext"] = "none"
  /\ s \in 6..12  => d["test"] = "none"
  /\ s \in 7..9   => d["kext"] = "none"
  /\ s \in 10..13 => d["kext"] \in {"none", "new"}
  /\ s = 13       => d["test"] \in {"none", "new"}
  /\ s \in 11..13 => l["kext"] = "new"

StageInv == pc = "call" => Stage(disk, loaded, step)

\* The last call of an attempt was answered YES, and no other attempt was begun.
CompleteInv == complete => pc # "call" /\ \A e \in Extensions : loaded[e] = "new"

\* Where the host may be, and with what.
ControlInv ==
  /\ pc \in {"vm", "attempt"} => retries > 0
  /\ pc \in {"call", "heartbeat"} => proxy
  /\ pc \notin {"next", "done"} => ran = {}
  /\ pc = "run" /\ ~proxy => failed
  /\ IF program = "tests" THEN pc # "next" => test \in Requests
     ELSE pc \in {"vm", "attempt", "call", "done"} /\ (pc = "vm" => ~proxy)

\* A machine given up as panicked is not called.
PanicInv == suspect => ~vix /\ ~proxy /\ pc \in {"next", "vm", "run", "done"}

IInv ==
  /\ TypeOK /\ snapshot \in Snapshots
  /\ StageInv /\ CompleteInv /\ ControlInv /\ PanicInv
  /\ ExtensionsMatch /\ PassedTestRan /\ PassedOnNewBuild
-----------------------------------------------------------------------------
(* What the machine may do for a call.                                     *)

Match(l) == l["test"] \in {"none", l["kext"]}

\* What an outcome o of call s is, that found the machine in Stage(d, l, s).
Fits(o, s) ==
  /\ o.disk \in [Extensions -> Builds]
  /\ o.loaded \in [Extensions -> Loadable]
  /\ o.answer \in BOOLEAN
  /\ Match(o.loaded)
  /\ o.answer /\ s < 13 => Stage(o.disk, o.loaded, s + 1)
  /\ o.answer /\ s = 13 => o.loaded["test"] = "new" /\ o.loaded["kext"] = "new"

Machines == [disk : [Extensions -> Builds], loaded : [Extensions -> Loadable]]

LEMMA CallsAre ==
  /\ Len(Calls) = 13
  /\ Calls[1] = Call("heartbeat", "none")
  /\ Calls[2] = Call("unload", "test") /\ Calls[3] = Call("unload", "kext")
  /\ Calls[4] = Call("remove", "netfs") /\ Calls[5] = Call("remove", "test")
  /\ Calls[6] = Call("remove", "kext") /\ Calls[7] = Call("remove", "fs")
  /\ Calls[8] = Call("copy", "fs") /\ Calls[9] = Call("copy", "kext")
  /\ Calls[10] = Call("load", "kext") /\ Calls[11] = Call("copy", "netfs")
  /\ Calls[12] = Call("copy", "test") /\ Calls[13] = Call("load", "test")
  BY DEF Calls, Call

LEMMA FitsIf ==
  ASSUME NEW d \in [Extensions -> Builds], NEW l \in [Extensions -> Loadable],
         NEW a \in BOOLEAN, NEW s, Match(l),
         a /\ s < 13 => Stage(d, l, s + 1),
         a /\ s = 13 => l["test"] = "new" /\ l["kext"] = "new"
  PROVE  Fits([disk |-> d, loaded |-> l, answer |-> a], s)
  BY DEF Fits

LEMMA UnchangedFits ==
  ASSUME NEW m \in Machines, Match(m.loaded), NEW s
  PROVE  /\ Fits(Outcome(m, FALSE), s)
         /\ (s < 13 => Stage(m.disk, m.loaded, s + 1)) /\ s # 13 => Fits(Outcome(m, TRUE), s)
<1>1. m.disk \in [Extensions -> Builds] /\ m.loaded \in [Extensions -> Loadable]
  BY DEF Machines
<1>2. Fits([disk |-> m.disk, loaded |-> m.loaded, answer |-> FALSE], s)
  BY <1>1, FitsIf
<1>3. (s < 13 => Stage(m.disk, m.loaded, s + 1)) /\ s # 13
        => Fits([disk |-> m.disk, loaded |-> m.loaded, answer |-> TRUE], s)
  BY <1>1, FitsIf
<1>. QED  BY <1>2, <1>3 DEF Outcome

LEMMA HeartbeatFits ==
  ASSUME NEW m \in Machines, Match(m.loaded), NEW s \in {1}, Stage(m.disk, m.loaded, s)
  PROVE  \A o \in Outcomes(m, Calls[s]) : Fits(o, s)
<1>1. Outcomes(m, Calls[s]) = {Outcome(m, TRUE)}
  <2>1. Calls[s] = Call("heartbeat", "none")
    BY CallsAre
  <2>. QED  BY <2>1 DEF Outcomes, Call
<1>2. (s < 13 => Stage(m.disk, m.loaded, s + 1)) /\ s # 13
  BY DEF Stage
<1>3. Fits(Outcome(m, TRUE), s)
  BY <1>2, UnchangedFits
<1>. QED  BY <1>1, <1>3

LEMMA UnloadFits ==
  ASSUME NEW m \in Machines, Match(m.loaded), NEW s \in {2, 3}, Stage(m.disk, m.loaded, s)
  PROVE  \A o \in Outcomes(m, Calls[s]) : Fits(o, s)
<1>. DEFINE e == IF s = 2 THEN "test" ELSE "kext"
            without == [m.loaded EXCEPT ![e] = "none"]
<1>1. Outcomes(m, Calls[s]) = Unload(m, e)
  BY CallsAre DEF Outcomes, Call
<1>2. /\ m.disk \in [Extensions -> Builds] /\ m.loaded \in [Extensions -> Loadable]
      /\ [m EXCEPT !.loaded[e] = "none"] = [disk |-> m.disk, loaded |-> without]
      /\ without \in [Extensions -> Loadable] /\ without[e] = "none"
      /\ \A x \in Extensions : x # e => without[x] = m.loaded[x]
  BY DEF Machines, Loadable, Extensions
<1>3. Match(without)
  BY <1>2 DEF Match, Extensions, Stage
<1>. HIDE DEF without
<1>4. \A o \in Unload(m, e) : \/ o = Outcome(m, m.loaded[e] = "none")
                              \/ o = [disk |-> m.disk, loaded |-> without, answer |-> TRUE]
  BY <1>2 DEF Unload, Outcome
<1>5. Fits(Outcome(m, m.loaded[e] = "none"), s)
  <2>1. s # 13 /\ (m.loaded[e] = "none" => (s < 13 => Stage(m.disk, m.loaded, s + 1)))
    BY DEF Stage
  <2>. HIDE DEF e
  <2>2. CASE m.loaded[e] = "none"
    <3>1. Outcome(m, m.loaded[e] = "none") = Outcome(m, TRUE)
      BY <2>2
    <3>. QED  BY <2>1, <2>2, <3>1, UnchangedFits
  <2>3. CASE m.loaded[e] # "none"
    <3>1. Outcome(m, m.loaded[e] = "none") = Outcome(m, FALSE)
      BY <2>3
    <3>. QED  BY <3>1, UnchangedFits
  <2>. QED  BY <2>2, <2>3
<1>6. Fits([disk |-> m.disk, loaded |-> without, answer |-> TRUE], s)
  BY <1>2, <1>3 DEF Fits, Stage, Extensions
<1>. QED  BY <1>1, <1>4, <1>5, <1>6

\* A bundle of which one item is an extension changes the build of that extension.
LEMMA FileFits ==
  ASSUME NEW m \in Machines, Match(m.loaded), NEW e, NEW build \in Builds, NEW s \in 4..12,
         s # 10, NEW answer \in BOOLEAN, Stage(m.disk, m.loaded, s),
         Calls[s] = Call(IF s < 8 THEN "remove" ELSE "copy", e),
         answer => build = IF s < 8 THEN "none" ELSE "new"
  PROVE  Fits(Outcome([m EXCEPT !.disk = [x \in Extensions |-> IF x = e THEN build ELSE @[x]]], answer), s)
<1>. DEFINE with == [x \in Extensions |-> IF x = e THEN build ELSE m.disk[x]]
<1>1. /\ m.disk \in [Extensions -> Builds] /\ m.loaded \in [Extensions -> Loadable]
      /\ [m EXCEPT !.disk = with] = [disk |-> with, loaded |-> m.loaded]
      /\ with \in [Extensions -> Builds]
      /\ \A x \in Extensions : with[x] = IF x = e THEN build ELSE m.disk[x]
  BY DEF Machines
<1>2. Outcome([m EXCEPT !.disk = with], answer) = [disk |-> with, loaded |-> m.loaded, answer |-> answer]
  BY <1>1 DEF Outcome
<1>3. e = CASE s = 4 -> "netfs" [] s = 5 -> "test" [] s = 6 -> "kext" [] s = 7 -> "fs"
            [] s = 8 -> "fs" [] s = 9 -> "kext" [] s = 11 -> "netfs" [] s = 12 -> "test"
  BY CallsAre DEF Call
<1>. HIDE DEF with
<1>4. answer => Stage(with, m.loaded, s + 1)
  BY <1>1, <1>3 DEF Stage, Extensions
<1>. QED  BY <1>1, <1>2, <1>4 DEF Fits, with

LEMMA RemoveFits ==
  ASSUME NEW m \in Machines, Match(m.loaded), NEW s \in 4..7, Stage(m.disk, m.loaded, s)
  PROVE  \A o \in Outcomes(m, Calls[s]) : Fits(o, s)
<1>. DEFINE e == Calls[s].of
<1>1. Calls[s] = Call("remove", e)
  BY CallsAre DEF Call
<1>. HIDE DEF e
<1>2. Outcomes(m, Calls[s]) = RemoveItem(m, e)
  BY <1>1 DEF Outcomes, Call
<1>3. Fits(Outcome(m, FALSE), s)
  <2>1. m.disk \in [Extensions -> Builds] /\ m.loaded \in [Extensions -> Loadable]
    BY DEF Machines
  <2>. QED  BY <2>1, FitsIf DEF Outcome
<1>4. Fits(Outcome([m EXCEPT !.disk = [x \in Extensions |-> IF x = e THEN "none" ELSE @[x]]], TRUE), s)
  <2>1. /\ s \in 4..12 /\ s # 10 /\ "none" \in Builds /\ s < 8
    BY DEF Builds
  <2>2. /\ Calls[s] = Call(IF s < 8 THEN "remove" ELSE "copy", e)
        /\ TRUE => "none" = IF s < 8 THEN "none" ELSE "new"
    BY <1>1, <2>1
  <2>. QED  BY <2>1, <2>2, FileFits
<1>. QED  BY <1>2, <1>3, <1>4 DEF RemoveItem

LEMMA CopyFits ==
  ASSUME NEW m \in Machines, Match(m.loaded), NEW s \in {8, 9, 11, 12}, Stage(m.disk, m.loaded, s)
  PROVE  \A o \in Outcomes(m, Calls[s]) : Fits(o, s)
<1>. DEFINE e == Calls[s].of
<1>1. Calls[s] = Call("copy", e)
  BY CallsAre DEF Call
<1>. HIDE DEF e
<1>2. Outcomes(m, Calls[s]) = Copy(m, e)
  BY <1>1 DEF Outcomes, Call
<1>3. Fits(Outcome([m EXCEPT !.disk = [x \in Extensions |-> IF x = e THEN "partial" ELSE @[x]]], FALSE), s)
  <2>1. /\ s \in 4..12 /\ s # 10 /\ "partial" \in Builds /\ ~(s < 8)
    BY DEF Builds
  <2>2. /\ Calls[s] = Call(IF s < 8 THEN "remove" ELSE "copy", e)
        /\ FALSE => "partial" = IF s < 8 THEN "none" ELSE "new"
    BY <1>1, <2>1
  <2>. QED  BY <2>1, <2>2, FileFits
<1>4. Fits(Outcome([m EXCEPT !.disk = [x \in Extensions |-> IF x = e THEN "new" ELSE @[x]]], TRUE), s)
  <2>1. /\ s \in 4..12 /\ s # 10 /\ "new" \in Builds /\ ~(s < 8)
    BY DEF Builds
  <2>2. /\ Calls[s] = Call(IF s < 8 THEN "remove" ELSE "copy", e)
        /\ TRUE => "new" = IF s < 8 THEN "none" ELSE "new"
    BY <1>1, <2>1
  <2>. QED  BY <2>1, <2>2, FileFits
<1>. QED  BY <1>2, <1>3, <1>4 DEF Copy

\* A kernel that has no build of the extension, or the one of the disk, has that of
\* the disk if the answer is YES.
LEMMA LoadFits ==
  ASSUME NEW m \in Machines, Match(m.loaded), NEW s \in {10, 13}, Stage(m.disk, m.loaded, s)
  PROVE  \A o \in Outcomes(m, Calls[s]) : Fits(o, s)
<1>. DEFINE e == IF s = 10 THEN "kext" ELSE "test"
            with == [m.loaded EXCEPT ![e] = m.disk[e]]
<1>1. Outcomes(m, Calls[s]) = LoadOne(m, e)
  <2>1. Outcomes(m, Calls[s]) = Load(m, e)
    BY CallsAre DEF Outcomes, Call
  <2>2. s = 13 => m.loaded["kext"] # "none"
    BY DEF Stage
  <2>. QED  BY <2>1, <2>2 DEF Load
<1>2. /\ m.disk \in [Extensions -> Builds] /\ m.loaded \in [Extensions -> Loadable]
      /\ [m EXCEPT !.loaded[e] = m.disk[e]] = [disk |-> m.disk, loaded |-> with]
      /\ with[e] = m.disk[e] /\ m.loaded[e] = "none"
      /\ \A x \in Extensions : x # e => with[x] = m.loaded[x]
  BY DEF Machines, Extensions, Stage
<1>3. Fits(Outcome(m, FALSE), s)
  BY <1>2, FitsIf DEF Outcome
<1>4. ASSUME m.disk[e] \notin {"none", "partial"}
      PROVE  Fits([disk |-> m.disk, loaded |-> with, answer |-> TRUE], s)
  <2>1. m.disk[e] = "new"
    BY <1>2, <1>4 DEF Stage
  <2>2. with \in [Extensions -> Loadable] /\ with[e] = "new"
    BY <1>2, <2>1 DEF Loadable, Extensions
  <2>3. Match(with)
    BY <1>2, <2>2 DEF Match, Stage, Extensions
  <2>. HIDE DEF with
  <2>4. s = 10 => Stage(m.disk, with, 11)
    BY <1>2, <2>2 DEF Stage, Extensions
  <2>5. s = 13 => with["test"] = "new" /\ with["kext"] = "new"
    BY <1>2, <2>2 DEF Stage, Extensions
  <2>6. s < 13 => Stage(m.disk, with, s + 1)
    BY <2>4, 10 + 1 = 11
  <2>. HIDE DEF e
  <2>. QED  BY <1>2, <2>2, <2>3, <2>5, <2>6, FitsIf
<1>. HIDE DEF with
<1>5. ASSUME NEW o \in LoadOne(m, e)
      PROVE  \/ o = Outcome(m, FALSE)
             \/ /\ m.disk[e] \notin {"none", "partial"}
                /\ o = [disk |-> m.disk, loaded |-> with, answer |-> TRUE]
  BY <1>2 DEF LoadOne, Outcome
<1>. QED  BY <1>1, <1>3, <1>4, <1>5

LEMMA OutcomesFit ==
  ASSUME NEW m \in Machines, Match(m.loaded), NEW s \in 1..13, Stage(m.disk, m.loaded, s)
  PROVE  \A o \in Outcomes(m, Calls[s]) : Fits(o, s)
<1>1. CASE s \in {1}
  BY <1>1, HeartbeatFits
<1>2. CASE s \in {2, 3}
  BY <1>2, UnloadFits
<1>3. CASE s \in 4..7
  BY <1>3, RemoveFits
<1>4. CASE s \in {8, 9, 11, 12}
  BY <1>4, CopyFits
<1>5. CASE s \in {10, 13}
  BY <1>5, LoadFits
<1>. QED  BY <1>1, <1>2, <1>3, <1>4, <1>5
-----------------------------------------------------------------------------
(* What the steps of the host have in common.                              *)

AllNew(l) == \A e \in Extensions : l[e] = "new"

\* What a verdict has to be.
Sound(v) ==
  /\ v \in Verdicts
  /\ v.of # Deployment /\ v.end = "passed" =>
       \E run \in v.ran : run.test = v.of /\ run.result \notin {"fail", "error"}
  /\ v.end = "passed" /\ v.complete =>
       \A e \in Extensions : v.on[e] = "new" /\ \A run \in v.ran : run.on[e] = "new"

LEMMA SoundVerdicts ==
  ASSUME TypeOK, PassedTestRan, PassedOnNewBuild
  PROVE  \A v \in verdict : Sound(v)
  BY DEF TypeOK, PassedTestRan, PassedOnNewBuild, Sound

LEMMA VerdictInvs ==
  ASSUME \A v \in verdict' : Sound(v)
  PROVE  verdict' \subseteq Verdicts /\ PassedTestRan' /\ PassedOnNewBuild'
  BY DEF PassedTestRan, PassedOnNewBuild, Sound

LEMMA VerdictIsSound ==
  ASSUME NEW of \in Requests \cup {Deployment}, NEW passed \in BOOLEAN,
         ran' \in SUBSET Runs, complete' \in BOOLEAN, loaded' \in [Extensions -> Loadable],
         passed /\ of # Deployment =>
           \E run \in ran' : run.test = of /\ run.result \notin {"fail", "error"},
         passed /\ complete' => AllNew(loaded') /\ \A run \in ran' : AllNew(run.on)
  PROVE  Sound(Verdict(of, passed))
<1>1. loaded' \in [Extensions -> Builds]
  BY DEF Loadable, Builds, Extensions
<1>. DEFINE v == Verdict(of, passed)
<1>2. v = [of |-> of, end |-> IF passed THEN "passed" ELSE "failed",
           ran |-> ran', complete |-> complete', on |-> loaded']
  BY DEF Verdict
<1>3. v \in Verdicts
  BY <1>1, <1>2 DEF Verdicts
<1>4. /\ v.of = of /\ v.ran = ran' /\ v.complete = complete' /\ v.on = loaded'
      /\ v.end = "passed" => passed
  BY <1>2
<1>. HIDE DEF v
<1>. QED  BY <1>3, <1>4 DEF Sound, AllNew, v

\* What configure: and the loop around its attempts lead to.
LEMMA ConfiguredFacts ==
  ASSUME IInv, NEW answer \in BOOLEAN, Configured(answer),
         ran' = {}, complete' \in BOOLEAN, loaded' \in [Extensions -> Loadable],
         complete' => AllNew(loaded')
  PROVE  /\ pc' \in {"run", "done"} /\ (pc' = "run" => program = "tests")
         /\ failed' \in BOOLEAN /\ (~answer /\ pc' = "run" => failed')
         /\ \A v \in verdict' : Sound(v)
<1>1. CASE program = "tests"
  <2>1. pc' = "run" /\ failed' = (failed \/ ~answer) /\ verdict' = verdict
    BY <1>1 DEF Configured
  <2>2. \A v \in verdict : Sound(v)
    BY SoundVerdicts DEF IInv
  <2>. QED  BY <1>1, <2>1, <2>2 DEF IInv, TypeOK
<1>2. CASE program # "tests"
  <2>1. pc' = "done" /\ failed' = failed /\ verdict' = {Verdict(Deployment, answer)}
    BY <1>2 DEF Configured
  <2>2. Sound(Verdict(Deployment, answer))
    BY VerdictIsSound
  <2>3. failed \in BOOLEAN
    BY DEF IInv, TypeOK
  <2>. QED  BY <2>1, <2>2, <2>3
<1>. QED  BY <1>1, <1>2

LEMMA TryAgainFacts ==
  ASSUME IInv, NEW r \in Nat, TryAgain(r),
         ran' = {}, complete' \in BOOLEAN, loaded' \in [Extensions -> Loadable],
         complete' => AllNew(loaded')
  PROVE  /\ pc' \in {"attempt", "run", "done"} /\ (pc' = "attempt" => r > 0)
         /\ pc' = "run" => program = "tests"
         /\ failed' \in BOOLEAN /\ (pc' = "run" => failed')
         /\ \A v \in verdict' : Sound(v)
<1>1. CASE r > 0
  <2>1. pc' = "attempt" /\ UNCHANGED <<failed, verdict>>
    BY <1>1 DEF TryAgain
  <2>2. \A v \in verdict : Sound(v)
    BY SoundVerdicts DEF IInv
  <2>. QED  BY <1>1, <2>1, <2>2 DEF IInv, TypeOK
<1>2. CASE ~(r > 0)
  <2>1. Configured(FALSE)
    BY <1>2 DEF TryAgain
  <2>. QED  BY <2>1, ConfiguredFacts
<1>. QED  BY <1>1, <1>2

LEMMA Typed ==
  ASSUME IInv
  PROVE  /\ disk \in [Extensions -> Builds] /\ loaded \in [Extensions -> Loadable]
         /\ Machine \in Machines /\ Machine.disk = disk /\ Machine.loaded = loaded
         /\ Match(loaded)
         /\ complete => pc # "call" /\ AllNew(loaded)
         /\ retries \in Nat /\ step \in 1..13
  BY CallsAre, RetriesAssumption DEF IInv, TypeOK, Machine, Machines, Match, ExtensionsMatch, Loadable, CompleteInv, AllNew

\* A machine that was put back to its snapshot.
LEMMA RevertedFacts ==
  ASSUME IInv, Reverted
  PROVE  /\ disk' \in [Extensions -> Builds] /\ loaded' \in [Extensions -> Loadable]
         /\ alive' \in BOOLEAN /\ late' = {} /\ suspect' = FALSE /\ complete' = FALSE
         /\ Match(loaded')
<1>1. snapshot \in Snapshots
  BY DEF IInv
<1>2. /\ snapshot.disk \in [Extensions -> {"none", "old"}]
      /\ snapshot.loaded \in [Extensions -> {"none", "old"}]
      /\ snapshot.loaded["test"] # "none" => snapshot.loaded["kext"] # "none"
  BY <1>1 DEF Snapshots
<1>3. Match(snapshot.loaded)
  BY <1>2 DEF Match, Extensions
<1>. QED  BY <1>2, <1>3 DEF Reverted, Builds, Loadable
-----------------------------------------------------------------------------
(* The steps of the host.                                                  *)

LEMMA SetUpStep == ASSUME IInv, SetUp PROVE IInv'
<1>1. /\ pc = "next"
      /\ \E t \in left : test' = t /\ left' = left \ {t}
      /\ failed' = FALSE /\ verdict' = {} /\ error' = FALSE /\ retries' = Retries /\ ran' = {}
      /\ pc' = IF ~vix THEN "vm" ELSE IF proxy THEN "heartbeat" ELSE "attempt"
      /\ UNCHANGED <<program, step, vix, proxy, suspect, complete>>
      /\ UNCHANGED <<snapshot, alive, disk, loaded, late>>
  BY DEF SetUp, machineVars
<1>2. TypeOK'
  <2>1. pc' \in PCs /\ retries' \in 0..Retries
    BY <1>1, RetriesAssumption DEF PCs
  <2>2. test' \in Requests \cup {Deployment} /\ left' \subseteq Requests
    BY <1>1 DEF IInv, TypeOK
  <2>3. verdict' \subseteq Verdicts /\ ran' \subseteq Runs
    BY <1>1
  <2>. QED  BY <1>1, <2>1, <2>2, <2>3 DEF IInv, TypeOK
<1>3. StageInv' /\ CompleteInv'
  BY <1>1 DEF IInv, StageInv, CompleteInv
<1>4. ControlInv'
  <2>1. program = "tests"
    BY <1>1 DEF IInv, ControlInv
  <2>2. test' \in Requests
    BY <1>1 DEF IInv, TypeOK
  <2>3. retries' > 0
    BY <1>1, RetriesAssumption
  <2>. QED  BY <1>1, <2>1, <2>2, <2>3 DEF ControlInv
<1>5. PanicInv'
  BY <1>1 DEF IInv, PanicInv
<1>6. snapshot' \in Snapshots /\ ExtensionsMatch' /\ PassedTestRan' /\ PassedOnNewBuild'
  BY <1>1 DEF IInv, ExtensionsMatch, PassedTestRan, PassedOnNewBuild
<1>. QED  BY <1>2, <1>3, <1>4, <1>5, <1>6 DEF IInv

LEMMA ConfigureVMStep == ASSUME IInv, ConfigureVM PROVE IInv'
<1>1. /\ pc = "vm" /\ ran' = ran /\ ran = {}
      /\ UNCHANGED <<program, step, proxy, retries, error, left, test, snapshot>>
      /\ retries > 0
  BY DEF ConfigureVM, IInv, ControlInv
<1>2. /\ disk' \in [Extensions -> Builds] /\ loaded' \in [Extensions -> Loadable]
      /\ alive' \in BOOLEAN /\ late' \subseteq Extensions
      /\ complete' \in BOOLEAN /\ (complete' => AllNew(loaded')) /\ Match(loaded')
      /\ suspect' \in BOOLEAN /\ (suspect' => suspect)
  <2>1. CASE Reverted
    BY <2>1, RevertedFacts
  <2>2. CASE UNCHANGED <<alive, disk, loaded, late, suspect, complete>>
    BY <2>2, Typed DEF IInv, TypeOK
  <2>. QED  BY <2>1, <2>2 DEF ConfigureVM
<1>3. /\ pc' \in {"heartbeat", "attempt", "run", "done"}
      /\ pc' = "heartbeat" => proxy
      /\ pc' = "run" => failed' /\ program = "tests"
      /\ vix' \in BOOLEAN /\ failed' \in BOOLEAN
      /\ (suspect' => ~vix' /\ pc' \in {"run", "done"})
      /\ \A v \in verdict' : Sound(v)
  <2>1. CASE /\ Reverted
             /\ vix' = TRUE
             /\ pc' = IF proxy THEN "heartbeat" ELSE "attempt"
             /\ UNCHANGED <<failed, verdict>>
    <3>1. \A v \in verdict : Sound(v)
      BY SoundVerdicts DEF IInv
    <3>2. suspect' = FALSE
      BY <2>1 DEF Reverted
    <3>. QED  BY <2>1, <3>1, <3>2 DEF IInv, TypeOK
  <2>2. CASE UNCHANGED vix /\ Configured(FALSE)
    <3>1. /\ pc' \in {"run", "done"} /\ failed' \in BOOLEAN
          /\ pc' = "run" => failed' /\ program = "tests"
          /\ \A v \in verdict' : Sound(v)
      BY <1>1, <1>2, <2>2, ConfiguredFacts
    <3>. QED  BY <1>2, <2>2, <3>1 DEF IInv, TypeOK, PanicInv
  <2>. QED  BY <2>1, <2>2 DEF ConfigureVM
<1>4. TypeOK'
  <2>1. pc' \in PCs
    BY <1>3 DEF PCs
  <2>2. verdict' \subseteq Verdicts
    BY <1>3, VerdictInvs
  <2>. QED  BY <1>1, <1>2, <1>3, <2>1, <2>2 DEF IInv, TypeOK, Loadable
<1>5. StageInv' /\ CompleteInv'
  BY <1>2, <1>3 DEF StageInv, CompleteInv, AllNew
<1>6. ControlInv'
  BY <1>1, <1>3 DEF IInv, ControlInv
<1>7. PanicInv'
  BY <1>1, <1>2, <1>3 DEF IInv, PanicInv
<1>8. snapshot' \in Snapshots /\ ExtensionsMatch'
  BY <1>1, <1>2 DEF IInv, ExtensionsMatch, Match
<1>. QED  BY <1>3, <1>4, <1>5, <1>6, <1>7, <1>8, VerdictInvs DEF IInv

LEMMA AttemptStep == ASSUME IInv, Attempt PROVE IInv'
<1>1. /\ pc = "attempt" /\ retries' = retries - 1 /\ complete' = FALSE
      /\ UNCHANGED <<snapshot, alive, disk, loaded, late, suspect, ran>>
      /\ UNCHANGED <<program, vix, error, left, test>>
      /\ retries > 0 /\ ran = {} /\ ~suspect
  BY DEF Attempt, machineVars, IInv, ControlInv, PanicInv
<1>2. retries' \in Nat /\ retries' \in 0..Retries
  BY <1>1, RetriesAssumption DEF IInv, TypeOK
<1>3. /\ pc' \in {"call", "attempt", "run", "done"}
      /\ pc' = "call" => proxy' /\ step' = 1
      /\ pc' = "attempt" => retries' > 0
      /\ pc' = "run" => failed' /\ program = "tests"
      /\ proxy' \in BOOLEAN /\ step' \in 1..Len(Calls) /\ failed' \in BOOLEAN
      /\ \A v \in verdict' : Sound(v)
  <2>1. CASE proxy' = TRUE /\ step' = 1 /\ pc' = "call" /\ UNCHANGED <<failed, verdict>>
    <3>1. \A v \in verdict : Sound(v)
      BY SoundVerdicts DEF IInv
    <3>. QED  BY <2>1, <3>1, CallsAre DEF IInv, TypeOK
  <2>2. CASE proxy' \in {FALSE, proxy} /\ UNCHANGED step /\ TryAgain(retries - 1)
    <3>1. proxy' \in BOOLEAN /\ step' \in 1..Len(Calls)
      BY <2>2 DEF IInv, TypeOK
    <3>2. TryAgain(retries')
      BY <1>1, <2>2
    <3>3. loaded' \in [Extensions -> Loadable] /\ ran' = {} /\ complete' \in BOOLEAN
          /\ (complete' => AllNew(loaded'))
      BY <1>1, Typed
    <3>4. /\ pc' \in {"attempt", "run", "done"} /\ (pc' = "attempt" => retries' > 0)
          /\ failed' \in BOOLEAN /\ (pc' = "run" => failed' /\ program = "tests")
          /\ \A v \in verdict' : Sound(v)
      BY <1>2, <3>2, <3>3, TryAgainFacts
    <3>. QED  BY <3>1, <3>4
  <2>. QED  BY <2>1, <2>2 DEF Attempt
<1>4. TypeOK'
  <2>1. pc' \in PCs
    BY <1>3 DEF PCs
  <2>2. verdict' \subseteq Verdicts
    BY <1>3, VerdictInvs
  <2>. QED  BY <1>1, <1>2, <1>3, <2>1, <2>2 DEF IInv, TypeOK
<1>5. StageInv' /\ CompleteInv'
  BY <1>1, <1>3 DEF StageInv, CompleteInv, Stage
<1>6. ControlInv'
  BY <1>1, <1>3 DEF IInv, ControlInv
<1>7. PanicInv'
  BY <1>1 DEF PanicInv
<1>8. snapshot' \in Snapshots /\ ExtensionsMatch'
  BY <1>1 DEF IInv, ExtensionsMatch
<1>. QED  BY <1>3, <1>4, <1>5, <1>6, <1>7, <1>8, VerdictInvs DEF IInv

\* What the answer of a call leads to, if the machine has come through the call.
LEMMA AfterStep ==
  ASSUME IInv, pc = "call", NEW answer \in BOOLEAN, After(Calls[step], answer),
         disk' \in [Extensions -> Builds], loaded' \in [Extensions -> Loadable], Match(loaded'),
         answer /\ step < 13 => Stage(disk', loaded', step + 1),
         answer /\ step = 13 => AllNew(loaded'),
         UNCHANGED <<snapshot, alive, late, suspect, ran>>,
         UNCHANGED <<program, vix, proxy, retries, left, test>>
  PROVE  IInv'
<1>1. /\ error' = (error \/ (~answer /\ Calls[step].verb \in {"copy", "load"}))
      /\ complete' = (answer /\ step = 13)
      /\ Len(Calls) = 13
  BY CallsAre DEF After
<1>2. ran = {} /\ proxy /\ ~suspect
  BY DEF IInv, ControlInv, PanicInv
<1>3. error' \in BOOLEAN /\ complete' \in BOOLEAN /\ (complete' => AllNew(loaded'))
  BY <1>1 DEF IInv, TypeOK
<1>4. /\ pc' \in {"call", "attempt", "run", "done"}
      /\ pc' = "call" => answer /\ step < 13 /\ step' = step + 1
      /\ pc' = "attempt" => retries > 0
      /\ pc' = "run" => program = "tests"
      /\ step' \in 1..13 /\ failed' \in BOOLEAN
      /\ \A v \in verdict' : Sound(v)
  <2>1. CASE answer /\ step < 13
    <3>1. step' = step + 1 /\ UNCHANGED <<pc, failed, verdict>>
      BY <1>1, <2>1 DEF After
    <3>2. \A v \in verdict : Sound(v)
      BY SoundVerdicts DEF IInv
    <3>. QED  BY <2>1, <3>1, <3>2, Typed DEF IInv, TypeOK
  <2>2. CASE ~(answer /\ step < 13)
    <3>1. step' = step /\ (TryAgain(retries) \/ Configured(TRUE))
      BY <1>1, <2>2 DEF After
    <3>2. CASE TryAgain(retries)
      BY <1>2, <1>3, <3>1, <3>2, Typed, TryAgainFacts
    <3>3. CASE Configured(TRUE)
      BY <1>2, <1>3, <3>1, <3>3, Typed, ConfiguredFacts
    <3>. QED  BY <3>1, <3>2, <3>3
  <2>. QED  BY <2>1, <2>2
<1>5. TypeOK'
  <2>1. pc' \in PCs
    BY <1>4 DEF PCs
  <2>2. verdict' \subseteq Verdicts
    BY <1>4, VerdictInvs
  <2>. QED  BY <1>1, <1>3, <1>4, <2>1, <2>2 DEF IInv, TypeOK, Loadable
<1>6. StageInv'
  BY <1>4 DEF StageInv
<1>7. CompleteInv'
  <2>1. complete' => step = 13
    BY <1>1
  <2>2. step = 13 => pc' # "call"
    BY <1>4
  <2>3. complete' => pc' # "call"
    BY <2>1, <2>2
  <2>. QED  BY <1>3, <2>3 DEF CompleteInv, AllNew
<1>8. ControlInv'
  BY <1>2, <1>4 DEF IInv, ControlInv
<1>9. PanicInv'
  BY <1>2 DEF PanicInv
<1>10. snapshot' \in Snapshots /\ ExtensionsMatch'
  BY DEF IInv, ExtensionsMatch, Match
<1>. QED  BY <1>4, <1>5, <1>6, <1>7, <1>8, <1>9, <1>10, VerdictInvs DEF IInv

LEMMA AnswerStep == ASSUME IInv, Answer PROVE IInv'
<1>1. /\ pc = "call"
      /\ UNCHANGED <<snapshot, alive, late, suspect, ran>>
      /\ UNCHANGED <<program, vix, proxy, retries, left, test>>
  BY DEF Answer
<1>2. CASE UNCHANGED <<disk, loaded>> /\ After(Calls[step], FALSE)
  BY <1>1, <1>2, Typed, AfterStep
<1>3. ASSUME NEW o \in Outcomes(Machine, Calls[step]),
             disk' = o.disk, loaded' = o.loaded, After(Calls[step], o.answer)
      PROVE  IInv'
  <2>1. Stage(disk, loaded, step)
    BY <1>1 DEF IInv, StageInv
  <2>2. Fits(o, step)
    BY <2>1, Typed, OutcomesFit
  <2>3. /\ o.disk \in [Extensions -> Builds] /\ o.loaded \in [Extensions -> Loadable]
        /\ o.answer \in BOOLEAN /\ Match(o.loaded)
        /\ o.answer /\ step < 13 => Stage(o.disk, o.loaded, step + 1)
        /\ o.answer /\ step = 13 => AllNew(o.loaded)
    BY <2>2 DEF Fits, AllNew, Extensions
  <2>. QED  BY <1>1, <1>3, <2>3, AfterStep
<1>. QED  BY <1>2, <1>3 DEF Answer

LEMMA RaiseStep == ASSUME IInv, Raise PROVE IInv'
<1>1. /\ pc = "call" /\ proxy' \in {FALSE, proxy} /\ TryAgain(retries)
      /\ UNCHANGED <<snapshot, alive, suspect, complete, ran>>
      /\ UNCHANGED <<program, step, vix, retries, error, left, test>>
      /\ ran = {} /\ ~suspect /\ ~complete
  BY DEF Raise, IInv, ControlInv, PanicInv, CompleteInv
<1>2. /\ disk' \in [Extensions -> Builds] /\ loaded' \in [Extensions -> Loadable]
      /\ late' \subseteq Extensions /\ Match(loaded')
  <2>1. CASE UNCHANGED <<disk, loaded>> /\ (UNCHANGED late \/ \E e \in Extensions : late' = late \cup {e})
    BY <2>1, Typed DEF IInv, TypeOK
  <2>2. ASSUME NEW o \in Outcomes(Machine, Calls[step]), disk' = o.disk, loaded' = o.loaded, UNCHANGED late
        PROVE  /\ disk' \in [Extensions -> Builds] /\ loaded' \in [Extensions -> Loadable]
               /\ late' \subseteq Extensions /\ Match(loaded')
    <3>1. Stage(disk, loaded, step)
      BY <1>1 DEF IInv, StageInv
    <3>2. Fits(o, step)
      BY <3>1, Typed, OutcomesFit
    <3>. QED  BY <2>2, <3>2 DEF Fits, IInv, TypeOK
  <2>. QED  BY <2>1, <2>2 DEF Raise
<1>3. /\ pc' \in {"attempt", "run", "done"} /\ (pc' = "attempt" => retries > 0)
      /\ failed' \in BOOLEAN /\ (pc' = "run" => failed' /\ program = "tests")
      /\ \A v \in verdict' : Sound(v)
  <2>1. complete' = FALSE /\ complete' \in BOOLEAN
    BY <1>1 DEF IInv, TypeOK
  <2>2. retries \in Nat
    BY Typed
  <2>. QED  BY <1>1, <1>2, <2>1, <2>2, TryAgainFacts
<1>4. TypeOK'
  <2>1. pc' \in PCs /\ proxy' \in BOOLEAN
    BY <1>1, <1>3 DEF PCs, IInv, TypeOK
  <2>2. verdict' \subseteq Verdicts
    BY <1>3, VerdictInvs
  <2>. QED  BY <1>1, <1>2, <1>3, <2>1, <2>2 DEF IInv, TypeOK, Loadable
<1>5. StageInv' /\ CompleteInv'
  BY <1>1, <1>3 DEF StageInv, CompleteInv
<1>6. ControlInv'
  BY <1>1, <1>3 DEF IInv, ControlInv
<1>7. PanicInv'
  BY <1>1 DEF PanicInv
<1>8. snapshot' \in Snapshots /\ ExtensionsMatch'
  BY <1>1, <1>2 DEF IInv, ExtensionsMatch, Match
<1>. QED  BY <1>3, <1>4, <1>5, <1>6, <1>7, <1>8, VerdictInvs DEF IInv

LEMMA HeartbeatStep == ASSUME IInv, Heartbeat PROVE IInv'
<1>1. /\ pc = "heartbeat" /\ proxy /\ ran = {} /\ ~suspect
      /\ UNCHANGED <<snapshot, alive, disk, loaded, late, suspect, complete, ran>>
      /\ UNCHANGED <<program, step, vix, retries, error, left, test>>
  BY DEF Heartbeat, machineVars, IInv, ControlInv, PanicInv
<1>2. /\ loaded' \in [Extensions -> Loadable] /\ ran' = {} /\ complete' \in BOOLEAN
      /\ complete' => AllNew(loaded')
  BY <1>1, Typed DEF IInv, TypeOK
<1>3. /\ pc' \in {"run", "done", "next"}
      /\ pc' = "run" => proxy' \/ failed'
      /\ program = "tests"
      /\ proxy' \in BOOLEAN /\ failed' \in BOOLEAN
      /\ \A v \in verdict' : Sound(v)
  <2>1. program = "tests"
    BY <1>1 DEF IInv, ControlInv
  <2>2. CASE Configured(TRUE) /\ UNCHANGED proxy
    BY <1>1, <1>2, <2>1, <2>2, ConfiguredFacts DEF IInv, TypeOK
  <2>3. CASE /\ proxy' \in {FALSE, proxy}
             /\ failed' = TRUE
             /\ (pc' = "run" /\ UNCHANGED verdict) \/ Finish(FALSE)
    <3>1. proxy' \in BOOLEAN
      BY <2>3 DEF IInv, TypeOK
    <3>2. CASE pc' = "run" /\ UNCHANGED verdict
      BY <2>1, <2>3, <3>1, <3>2, SoundVerdicts DEF IInv
    <3>3. CASE Finish(FALSE)
      <4>1. verdict' = {Verdict(test, FALSE)} /\ pc' \in {"done", "next"}
        BY <3>3 DEF Finish
      <4>2. test \in Requests \cup {Deployment}
        BY DEF IInv, TypeOK
      <4>3. Sound(Verdict(test, FALSE))
        BY <1>2, <4>2, VerdictIsSound
      <4>. QED  BY <2>1, <2>3, <3>1, <4>1, <4>3
    <3>. QED  BY <2>3, <3>2, <3>3
  <2>. QED  BY <2>2, <2>3 DEF Heartbeat
<1>4. TypeOK'
  <2>1. pc' \in PCs
    BY <1>3 DEF PCs
  <2>2. verdict' \subseteq Verdicts
    BY <1>3, VerdictInvs
  <2>. QED  BY <1>1, <1>3, <2>1, <2>2 DEF IInv, TypeOK
<1>5. StageInv' /\ CompleteInv'
  BY <1>2, <1>3 DEF StageInv, CompleteInv, AllNew
<1>6. ControlInv'
  BY <1>1, <1>3 DEF IInv, ControlInv
<1>7. PanicInv'
  BY <1>1 DEF PanicInv
<1>8. snapshot' \in Snapshots /\ ExtensionsMatch'
  BY <1>1 DEF IInv, ExtensionsMatch
<1>. QED  BY <1>3, <1>4, <1>5, <1>6, <1>7, <1>8, VerdictInvs DEF IInv

\* The handler runs the test it is asked for, or none.
LEMMA HandlerFacts ==
  ASSUME NEW request \in Requests, loaded \in [Extensions -> Loadable]
  PROVE  \A run \in Handler(request) :
           /\ run \in Runs
           /\ run.on = loaded
           /\ run.result # "error" => run.test = request
<1>. DEFINE fits == {i \in 1..Len(Listing) :
                       /\ IsPrefix(Listing[i].section, request.section)
                       /\ Listing[i].name = request.name}
            first == CHOOSE i \in fits : \A j \in fits : i <= j
<1>1. loaded \in [Extensions -> Builds]
  BY DEF Loadable, Builds, Extensions
<1>2. CASE fits = {}
  <2>1. Handler(request) = [test : {request}, result : {"error"}, on : {loaded}]
    BY <1>2 DEF Handler
  <2>. QED  BY <1>1, <2>1 DEF Runs, Results
<1>3. CASE fits # {}
  <2>1. fits \subseteq Nat
    OBVIOUS
  <2>2. \E i \in fits : \A j \in fits : i <= j
    <3>. HIDE DEF fits
    <3>1. PICK i \in fits : \A j \in fits : ~ (<<j, i>> \in OpToRel(<, Nat))
      BY <1>3, <2>1, NatLessThanWellFounded, WFMin
    <3>2. \A j \in fits : ~ (j < i)
      BY <2>1, <3>1 DEF OpToRel
    <3>. QED  BY <2>1, <3>2
  <2>3. first \in fits
    <3>. HIDE DEF fits
    <3>. QED  BY <2>2
  <2>. HIDE DEF first
  <2>4. Listing[first] = request
    BY <2>3, RequestsAssumption
  <2>5. Handler(request) = [test : {Listing[first]}, result : Results \ {"error"}, on : {loaded}]
    BY <1>3 DEF Handler, first
  <2>. QED  BY <1>1, <2>4, <2>5 DEF Runs
<1>. QED  BY <1>2, <1>3

LEMMA MessageFacts ==
  ASSUME IInv, test \in Requests, NEW message \in Messages(test)
  PROVE  \A run \in message :
           run \in Runs /\ run.on = loaded /\ (run.result # "error" => run.test = test)
  BY Typed, HandlerFacts DEF Messages

\* A test that has been run is over.
LEMMA FinishStep ==
  ASSUME IInv, pc = "run", test \in Requests, NEW passed \in BOOLEAN, Finish(passed),
         \A run \in ran' : run \in Runs /\ run.on = loaded,
         passed => \E run \in ran' : run.test = test /\ run.result \notin {"fail", "error"},
         vix' \in BOOLEAN, proxy' \in BOOLEAN, suspect' \in BOOLEAN,
         suspect' => ~vix' /\ ~proxy',
         UNCHANGED <<snapshot, alive, disk, loaded, late, complete>>,
         UNCHANGED <<program, step, retries, error, left, test, failed>>
  PROVE  IInv'
<1>1. pc' \in {"next", "done"} /\ verdict' = {Verdict(test, passed)}
  BY DEF Finish
<1>2. program = "tests"
  BY DEF IInv, ControlInv
<1>3. ran' \in SUBSET Runs /\ complete' \in BOOLEAN /\ loaded' \in [Extensions -> Loadable]
  BY Typed DEF IInv, TypeOK
<1>4. passed /\ complete' => AllNew(loaded') /\ \A run \in ran' : AllNew(run.on)
  BY Typed DEF AllNew
<1>5. Sound(Verdict(test, passed))
  BY <1>3, <1>4, VerdictIsSound
<1>6. \A v \in verdict' : Sound(v)
  BY <1>1, <1>5
<1>7. TypeOK'
  <2>1. pc' \in PCs
    BY <1>1 DEF PCs
  <2>2. verdict' \subseteq Verdicts
    BY <1>6, VerdictInvs
  <2>. QED  BY <1>3, <2>1, <2>2 DEF IInv, TypeOK
<1>8. StageInv' /\ CompleteInv'
  BY <1>1, Typed DEF StageInv, CompleteInv, AllNew
<1>9. ControlInv'
  BY <1>1, <1>2 DEF ControlInv
<1>10. PanicInv'
  BY <1>1 DEF PanicInv
<1>11. snapshot' \in Snapshots /\ ExtensionsMatch'
  BY DEF IInv, ExtensionsMatch
<1>. QED  BY <1>6, <1>7, <1>8, <1>9, <1>10, <1>11, VerdictInvs DEF IInv

LEMMA RunTestStep == ASSUME IInv, RunTest PROVE IInv'
<1>1. /\ pc = "run"
      /\ UNCHANGED <<snapshot, alive, disk, loaded, late, suspect, complete>>
      /\ UNCHANGED <<program, step, vix, proxy, retries, error, left, test, failed>>
  BY DEF RunTest, machineVars
<1>2. /\ test \in Requests /\ ran = {} /\ (~proxy => failed)
      /\ suspect => ~vix /\ ~proxy
      /\ {vix, proxy, suspect} \subseteq BOOLEAN
  BY <1>1 DEF IInv, TypeOK, ControlInv, PanicInv
<1>3. CASE ~proxy /\ UNCHANGED ran /\ Finish(~failed)
  <2>1. failed = TRUE
    BY <1>2, <1>3 DEF IInv, TypeOK
  <2>2. Finish(FALSE)
    BY <1>3, <2>1
  <2>. QED  BY <1>1, <1>2, <1>3, <2>2, FinishStep
<1>4. ASSUME NEW message \in Messages(test), NEW passed \in BOOLEAN,
             ran' = message, passed => \E run \in message : MayPass(run.result), Finish(passed)
      PROVE  IInv'
  <2>1. \A run \in message :
          run \in Runs /\ run.on = loaded /\ (run.result # "error" => run.test = test)
    BY <1>2, MessageFacts
  <2>2. passed => \E run \in ran' : run.test = test /\ run.result \notin {"fail", "error"}
    BY <1>4, <2>1 DEF MayPass
  <2>. QED  BY <1>1, <1>2, <1>4, <2>1, <2>2, FinishStep
<1>. QED  BY <1>3, <1>4 DEF RunTest

LEMMA HandlePossiblePanicStep == ASSUME IInv, HandlePossiblePanic PROVE IInv'
<1>1. /\ pc = "run" /\ Finish(FALSE)
      /\ UNCHANGED <<snapshot, alive, disk, loaded, late, complete>>
      /\ UNCHANGED <<program, step, retries, error, left, test, failed>>
  BY DEF HandlePossiblePanic, machineVars
<1>2. test \in Requests /\ ran = {}
  BY <1>1 DEF IInv, ControlInv
<1>3. /\ vix' \in BOOLEAN /\ proxy' \in BOOLEAN /\ suspect' \in BOOLEAN
      /\ suspect' => ~vix' /\ ~proxy'
  <2>1. CASE vix' = FALSE /\ proxy' = FALSE /\ suspect' = TRUE
    BY <2>1
  <2>2. CASE UNCHANGED <<vix, proxy, suspect>>
    BY <2>2 DEF IInv, TypeOK, PanicInv
  <2>. QED  BY <2>1, <2>2 DEF HandlePossiblePanic
<1>4. \A run \in ran' : run \in Runs /\ run.on = loaded
  <2>1. CASE ran' = ran
    BY <1>2, <2>1
  <2>2. CASE ran' \in Messages(test)
    BY <1>2, <2>2, MessageFacts
  <2>. QED  BY <2>1, <2>2 DEF HandlePossiblePanic
<1>. QED  BY <1>1, <1>2, <1>3, <1>4, FinishStep
-----------------------------------------------------------------------------
(* What else happens.                                                      *)

LEMMA PanicStep == ASSUME IInv, Panic PROVE IInv'
<1>1. /\ alive' = FALSE
      /\ UNCHANGED <<program, pc, step, vix, proxy, retries, error, left, test, failed, verdict,
                     snapshot, disk, loaded, late, suspect, complete, ran>>
  BY DEF Panic, hostVars, testVars, historyVars
<1>2. TypeOK' /\ snapshot' \in Snapshots
  BY <1>1 DEF IInv, TypeOK
<1>3. StageInv' /\ CompleteInv' /\ ControlInv' /\ PanicInv' /\ ExtensionsMatch'
  BY <1>1 DEF IInv, StageInv, CompleteInv, ControlInv, PanicInv, ExtensionsMatch
<1>4. PassedTestRan' /\ PassedOnNewBuild'
  BY <1>1 DEF IInv, PassedTestRan, PassedOnNewBuild
<1>. QED  BY <1>2, <1>3, <1>4 DEF IInv

LEMMA RemovalEndsStep == ASSUME IInv, RemovalEnds PROVE IInv'
<1>1. /\ \E e \in late : disk' = [disk EXCEPT ![e] = "none"] /\ late' = late \ {e}
      /\ UNCHANGED <<program, pc, step, vix, proxy, retries, error, left, test, failed, verdict,
                     snapshot, alive, loaded, suspect, complete, ran>>
  BY DEF RemovalEnds, hostVars, testVars, historyVars
<1>2. /\ disk' \in [Extensions -> Builds] /\ late' \subseteq Extensions
      /\ \A e \in Extensions : disk'[e] \in {"none", disk[e]}
  BY <1>1 DEF IInv, TypeOK, Builds
<1>3. TypeOK' /\ snapshot' \in Snapshots
  BY <1>1, <1>2 DEF IInv, TypeOK
<1>4. StageInv'
  BY <1>1, <1>2 DEF IInv, StageInv, Stage, Extensions
<1>5. CompleteInv' /\ ControlInv' /\ PanicInv' /\ ExtensionsMatch'
  BY <1>1 DEF IInv, CompleteInv, ControlInv, PanicInv, ExtensionsMatch
<1>6. PassedTestRan' /\ PassedOnNewBuild'
  BY <1>1 DEF IInv, PassedTestRan, PassedOnNewBuild
<1>. QED  BY <1>3, <1>4, <1>5, <1>6 DEF IInv

LEMMA ConnectionDidDieStep == ASSUME IInv, ConnectionDidDie PROVE IInv'
<1>1. /\ pc = "next" /\ proxy' = FALSE
      /\ UNCHANGED <<program, pc, step, vix, retries, error, left, test, failed, verdict,
                     snapshot, alive, disk, loaded, late, suspect, complete, ran>>
  BY DEF ConnectionDidDie, testVars, machineVars, historyVars
<1>2. TypeOK' /\ snapshot' \in Snapshots
  BY <1>1 DEF IInv, TypeOK
<1>3. StageInv' /\ CompleteInv' /\ ControlInv' /\ PanicInv' /\ ExtensionsMatch'
  BY <1>1 DEF IInv, StageInv, CompleteInv, ControlInv, PanicInv, ExtensionsMatch
<1>4. PassedTestRan' /\ PassedOnNewBuild'
  BY <1>1 DEF IInv, PassedTestRan, PassedOnNewBuild
<1>. QED  BY <1>2, <1>3, <1>4 DEF IInv

LEMMA StutterStep == ASSUME IInv, UNCHANGED vars PROVE IInv'
<1>1. UNCHANGED <<program, pc, step, vix, proxy, retries, error, left, test, failed, verdict,
                  snapshot, alive, disk, loaded, late, suspect, complete, ran>>
  BY DEF vars, hostVars, testVars, machineVars, historyVars
<1>2. TypeOK' /\ snapshot' \in Snapshots
  BY <1>1 DEF IInv, TypeOK
<1>3. StageInv' /\ CompleteInv' /\ ControlInv' /\ PanicInv' /\ ExtensionsMatch'
  BY <1>1 DEF IInv, StageInv, CompleteInv, ControlInv, PanicInv, ExtensionsMatch
<1>4. PassedTestRan' /\ PassedOnNewBuild'
  BY <1>1 DEF IInv, PassedTestRan, PassedOnNewBuild
<1>. QED  BY <1>2, <1>3, <1>4 DEF IInv
-----------------------------------------------------------------------------
(* The theorems.                                                           *)

LEMMA InitIInv == Init => IInv
<1>. SUFFICES ASSUME Init PROVE IInv
  OBVIOUS
<1>1. snapshot \in Snapshots
  BY DEF Init
<1>2. /\ snapshot.disk \in [Extensions -> {"none", "old"}]
      /\ snapshot.loaded \in [Extensions -> {"none", "old"}]
      /\ snapshot.loaded["test"] # "none" => snapshot.loaded["kext"] # "none"
  BY <1>1 DEF Snapshots
<1>3. disk \in [Extensions -> Builds] /\ loaded \in [Extensions -> {"none", "old", "new"}]
  BY <1>2 DEF Init, Builds
<1>4. ExtensionsMatch
  BY <1>2 DEF Init, ExtensionsMatch, Extensions
<1>5. pc \in {"next", "vm", "attempt"} /\ (program = "tests" <=> pc = "next")
  BY DEF Init
<1>6. TypeOK
  <2>1. pc \in PCs
    BY <1>5 DEF PCs
  <2>2. left \subseteq Requests /\ alive \in BOOLEAN /\ retries \in 0..Retries /\ step \in 1..Len(Calls)
    BY RetriesAssumption, CallsAre DEF Init
  <2>. QED  BY <1>3, <2>1, <2>2 DEF Init, TypeOK
<1>7. StageInv /\ CompleteInv /\ PanicInv
  BY <1>5 DEF Init, StageInv, CompleteInv, PanicInv
<1>8. ControlInv
  BY <1>5, RetriesAssumption DEF Init, ControlInv
<1>9. PassedTestRan /\ PassedOnNewBuild
  BY DEF Init, PassedTestRan, PassedOnNewBuild
<1>. QED  BY <1>1, <1>4, <1>6, <1>7, <1>8, <1>9 DEF IInv

LEMMA StepIInv == IInv /\ [Next]_vars => IInv'
  BY SetUpStep, ConfigureVMStep, AttemptStep, AnswerStep, RaiseStep, HeartbeatStep, RunTestStep,
     HandlePossiblePanicStep, PanicStep, RemovalEndsStep, ConnectionDidDieStep, StutterStep
     DEF Next, HostStep, Done

\* IInv holds in every reachable state of the host and the machine.
THEOREM Invariance == Spec => []IInv
  BY InitIInv, StepIInv, PTL DEF Spec

\* The variables keep their types, for every number of retries and every listing.
THEOREM TypeCorrect == Spec => []TypeOK
<1>1. IInv => TypeOK
  BY DEF IInv
<1>. QED  BY <1>1, Invariance, PTL

\* A test that is reported as passed was run, it and no other, with a result that is
\* no failure (LFSTestCase.m:56-71), whatever raised or timed out.
THEOREM PassedRan == Spec => []PassedTestRan
<1>1. IInv => PassedTestRan
  BY DEF IInv
<1>. QED  BY <1>1, Invariance, PTL

\* What passed after a complete installation ran on the new build of both extensions
\* (LFSMachine.m:61-77).
THEOREM PassedNew == Spec => []PassedOnNewBuild
<1>1. IInv => PassedOnNewBuild
  BY DEF IInv
<1>. QED  BY <1>1, Invariance, PTL

\* The two extensions a kernel runs are of one build, however often an installation
\* is cut short and tried again (LFSMachine.m:66-72).
THEOREM Matching == Spec => []ExtensionsMatch
<1>1. IInv => ExtensionsMatch
  BY DEF IInv
<1>. QED  BY <1>1, Invariance, PTL

\* Nothing is run on a machine that was given up and not reverted since
\* (LFSTestCase.m:59, LFSVirtualMachine.m:41-58).
THEOREM RevertedFirst == Spec => PanicIsReverted
<1>. DEFINE A == ran' # ran /\ ran' # {} => ~suspect
<1>1. IInv /\ [Next]_vars => [A]_vars
  <2>. SUFFICES ASSUME IInv, Next, ran' # ran, ran' # {} PROVE ~suspect
    BY DEF vars
  <2>1. HandlePossiblePanic \/ RunTest
    BY DEF Next, HostStep, Done, SetUp, ConfigureVM, Attempt, Answer, Raise, Heartbeat, Panic,
       RemovalEnds, ConnectionDidDie, vars, historyVars
  <2>2. proxy
    BY <2>1 DEF HandlePossiblePanic, RunTest
  <2>. QED  BY <2>2 DEF IInv, PanicInv
<1>. QED  BY <1>1, Invariance, PTL DEF Spec, PanicIsReverted
=============================================================================
