------------------------- MODULE KextLifecycleProofs -------------------------
(***************************************************************************)
(* KextLifecycle, for any number of runs of the mount tool: volumes are    *)
(* always served by a registered extension, and the version the installer  *)
(* has installed is the one that runs, unless a tool won its race.         *)
(***************************************************************************)
EXTENDS KextLifecycle, SequenceTheorems, TLAPS

\* What the kernel runs, and what is on the disk, in each phase of an installation
\* that no tool has raced.  Only before the removal of the old files can somebody
\* load them, and then the installer has just looked.
InstallInv ==
  /\ loaded <=> running # "none"
  /\ phase = "copy" => on_disk = "none"
  /\ phase \in {"load", "list", "umount"} => on_disk = "new"
  /\ ~raced => /\ phase = "remove" => ~loaded
               /\ phase \in {"copy", "load", "list", "umount"} => running # "old"

IInv == TypeOK /\ ServedByKext /\ InstallInv

LEMMA InitIInv == Init => IInv
  BY DEF Init, IInv, TypeOK, ServedByKext, InstallInv, Calls, ToolPCs, Phases, Versions

\* What a kextload does, whoever runs it.
LEMMA KextloadFacts ==
  ASSUME IInv, ~panicked, NEW status \in BOOLEAN, Kextload(status)
  PROVE  /\ loaded' \in BOOLEAN /\ running' \in Versions /\ registered' \in BOOLEAN
         /\ memory' \in BOOLEAN /\ panicked' \in BOOLEAN
         /\ loggers' \in {"none", "live", "released"}
         /\ loaded' <=> running' # "none"
         /\ loaded => loaded' /\ running' = running
         /\ ~loaded => running' \in {"none", on_disk}
         /\ ~panicked' => loaded' = registered' /\ loaded' = memory'
<1>. USE DEF IInv, TypeOK, ServedByKext, InstallInv
<1>1. CASE UNCHANGED kextVars
  <2>1. loaded' = loaded /\ running' = running /\ registered' = registered
        /\ memory' = memory /\ loggers' = loggers /\ panicked' = panicked
    BY <1>1 DEF kextVars
  <2>2. ~loaded => running = "none"
    OBVIOUS
  <2>. QED  BY <2>1, <2>2, Zenon
<1>2. CASE on_disk # "none" /\ ~loaded /\ Start(status)
  <2>1. CASE /\ loaded' = status /\ registered' = status /\ memory' = status
             /\ running' = IF status THEN on_disk ELSE "none"
             /\ UNCHANGED panicked
    <3>1. CASE status
      BY <1>2, <2>1, <3>1 DEF Start, Versions
    <3>2. CASE ~status
      BY <1>2, <2>1, <3>2 DEF Start, Versions
    <3>. QED  BY <3>1, <3>2
  <2>2. CASE panicked' = TRUE /\ UNCHANGED <<loaded, running, registered, memory>>
    BY <1>2, <2>2 DEF Start, Versions
  <2>. QED  BY <1>2, <2>1, <2>2 DEF Start
<1>. QED  BY <1>1, <1>2 DEF Kextload

\* What a kextunload does: it fails exactly while a volume is mounted.
LEMMA StopFacts ==
  ASSUME IInv, ~panicked, NEW status \in BOOLEAN, Stop(status)
  PROVE  /\ loaded' \in BOOLEAN /\ running' \in Versions /\ registered' \in BOOLEAN
         /\ memory' \in BOOLEAN /\ panicked' = panicked
         /\ loggers' \in {"none", "live", "released"}
         /\ loaded' <=> running' # "none"
         /\ Calls \cup mounted # {} => loaded'
         /\ loaded' = registered' /\ loaded' = memory'
         /\ status => ~loaded'
  BY DEF IInv, TypeOK, ServedByKext, InstallInv, Stop, Versions
-----------------------------------------------------------------------------
(* The steps of the mount tool.                                            *)

LEMMA RunStep ==
  ASSUME IInv, ~panicked, NEW t \in Tools, Run(t)
  PROVE  IInv'
<1>1. Calls' = Calls
  BY DEF Run, Calls, Goto, IInv, TypeOK
<1>2. TypeOK'
  BY DEF Run, Goto, Report, IInv, TypeOK, ToolPCs, kextVars, installVars
<1>3. ServedByKext' /\ InstallInv'
  BY <1>1 DEF Run, IInv, ServedByKext, InstallInv, kextVars, installVars
<1>. QED  BY <1>2, <1>3 DEF IInv

LEMMA MountSyscallStep ==
  ASSUME IInv, ~panicked, NEW t \in Tools, MountSyscall(t)
  PROVE  IInv'
<1>1. TypeOK'
  <2>1. pc' \in [Tools -> ToolPCs]
    BY DEF MountSyscall, Goto, IInv, TypeOK, ToolPCs
  <2>2. reported' \in [Tools -> {"none", "success", "failure"}]
    BY DEF MountSyscall, Report, IInv, TypeOK
  <2>. QED  BY <2>1, <2>2 DEF MountSyscall, IInv, TypeOK, kextVars, installVars
<1>2. Calls' # Calls => registered
  BY DEF MountSyscall, Goto, Calls, IInv, TypeOK
<1>3. ServedByKext' /\ InstallInv'
  BY <1>2 DEF MountSyscall, IInv, ServedByKext, InstallInv, kextVars, installVars
<1>. QED  BY <1>1, <1>3 DEF IInv

LEMMA VfsopMountStep ==
  ASSUME IInv, ~panicked, NEW t \in Tools, VfsopMount(t)
  PROVE  IInv'
<1>1. TypeOK'
  BY DEF VfsopMount, Goto, Report, IInv, TypeOK, ToolPCs, Calls, kextVars, installVars
<1>2. Calls' \cup mounted' \subseteq Calls \cup mounted
  BY DEF VfsopMount, Goto, Calls, IInv, TypeOK
<1>3. ServedByKext' /\ InstallInv'
  BY <1>2 DEF VfsopMount, IInv, ServedByKext, InstallInv, kextVars, installVars
<1>. QED  BY <1>1, <1>3 DEF IInv

LEMMA LoadKextStep ==
  ASSUME IInv, ~panicked, NEW t \in Tools, LoadKext(t)
  PROVE  IInv'
<1>1. PICK status \in BOOLEAN : Kextload(status)
  BY DEF LoadKext
<1>2. Calls' = Calls /\ mounted' = mounted
  BY DEF LoadKext, Calls, Goto, IInv, TypeOK
<1>3. raced' \in BOOLEAN /\ (raced => raced')
      /\ (~loaded /\ loaded' /\ phase = "remove" => raced')
  <2>1. CASE Kextload(TRUE) /\ raced' = (raced \/ phase = "remove")
    BY <2>1 DEF IInv, TypeOK
  <2>2. CASE Kextload(FALSE) /\ UNCHANGED raced
    BY <2>2 DEF Kextload, Start, kextVars, IInv, TypeOK
  <2>. QED  BY <2>1, <2>2 DEF LoadKext
<1>4. pc' \in [Tools -> ToolPCs] /\ reported' \in [Tools -> {"none", "success", "failure"}]
  BY DEF LoadKext, Goto, Report, IInv, TypeOK, ToolPCs
<1>5. TypeOK'
  BY <1>1, <1>2, <1>3, <1>4, KextloadFacts DEF LoadKext, IInv, TypeOK, installVars
<1>6. ServedByKext'
  BY <1>1, <1>2, KextloadFacts DEF IInv, ServedByKext
<1>7. InstallInv'
  BY <1>1, <1>3, KextloadFacts DEF LoadKext, IInv, TypeOK, InstallInv, installVars
<1>. QED  BY <1>5, <1>6, <1>7 DEF IInv

LEMMA UmountStep ==
  ASSUME IInv, ~panicked, NEW t \in Tools, Umount(t)
  PROVE  IInv'
<1>1. Calls' = Calls
  BY DEF Umount, Calls
<1>. QED
  BY <1>1 DEF Umount, IInv, TypeOK, ServedByKext, InstallInv, kextVars, installVars
-----------------------------------------------------------------------------
(* The steps of the installer.                                             *)

LEMMA FoundStep ==
  ASSUME IInv, ~panicked, Found
  PROVE  IInv'
<1>1. Calls' = Calls /\ mounted' = mounted
  BY DEF Found, Calls, toolVars
<1>2. TypeOK'
  BY DEF Found, IInv, TypeOK, Versions, Phases, toolVars
<1>3. ServedByKext'
  BY <1>1 DEF Found, IInv, ServedByKext
<1>4. InstallInv'
  BY DEF Found, IInv, TypeOK, InstallInv
<1>. QED  BY <1>2, <1>3, <1>4 DEF IInv

LEMMA KextunloadStep ==
  ASSUME IInv, ~panicked, Kextunload
  PROVE  IInv'
<1>1. PICK status \in BOOLEAN :
        Stop(status) /\ phase' = (IF status THEN "remove" ELSE "unload")
  BY DEF Kextunload
<1>2. Calls' = Calls /\ mounted' = mounted
  BY DEF Kextunload, Calls, toolVars
<1>3. TypeOK'
  BY <1>1, StopFacts DEF Kextunload, IInv, TypeOK, Phases, toolVars
<1>4. ServedByKext'
  BY <1>1, <1>2, StopFacts DEF IInv, ServedByKext
<1>5. InstallInv'
  BY <1>1, StopFacts DEF Kextunload, IInv, InstallInv
<1>. QED  BY <1>3, <1>4, <1>5 DEF IInv

LEMMA ReplaceStep ==
  ASSUME IInv, ~panicked, Replace
  PROVE  IInv'
<1>1. Calls' = Calls
  BY DEF Replace, Calls, toolVars
<1>. QED
  BY <1>1 DEF Replace, IInv, TypeOK, ServedByKext, InstallInv, Versions, Phases,
              kextVars, toolVars

LEMMA PostinstallStep ==
  ASSUME IInv, ~panicked, Postinstall
  PROVE  IInv'
<1>1. PICK status \in BOOLEAN : Kextload(status)
  BY DEF Postinstall
<1>2. Calls' = Calls /\ mounted' = mounted
  BY DEF Postinstall, Calls, toolVars
<1>3. TypeOK'
  BY <1>1, KextloadFacts DEF Postinstall, IInv, TypeOK, Phases, toolVars
<1>4. ServedByKext'
  BY <1>1, <1>2, KextloadFacts DEF IInv, ServedByKext
<1>5. InstallInv'
  BY <1>1, KextloadFacts DEF Postinstall, IInv, TypeOK, InstallInv
<1>. QED  BY <1>3, <1>4, <1>5 DEF IInv

LEMMA ListVolumesStep ==
  ASSUME IInv, ~panicked, ListVolumes
  PROVE  IInv'
<1>1. Calls' = Calls
  BY DEF ListVolumes, Calls, toolVars
<1>. QED
  BY <1>1 DEF ListVolumes, IInv, TypeOK, ServedByKext, InstallInv, Phases, kextVars, toolVars

LEMMA UmountListedStep ==
  ASSUME IInv, ~panicked, UmountListed
  PROVE  IInv'
<1>1. Calls' = Calls /\ mounted' \subseteq mounted
  BY DEF UmountListed, Calls
<1>2. phase' \in {"umount", "idle"} /\ listed' \subseteq listed
  BY DEF UmountListed
<1>. QED
  BY <1>1, <1>2 DEF UmountListed, IInv, TypeOK, ServedByKext, InstallInv, Phases, kextVars
-----------------------------------------------------------------------------
(* IInv holds in every reachable state.                                    *)
THEOREM Invariance == Spec => []IInv
<1>1. ASSUME IInv, [Next]_vars
      PROVE  IInv'
  <2>1. CASE UNCHANGED vars
    BY <1>1, <2>1 DEF vars, kextVars, toolVars, installVars, IInv, TypeOK, ServedByKext,
                      InstallInv, Calls
  <2>2. CASE ~panicked /\ InstallStep
    BY <1>1, <2>2, FoundStep, KextunloadStep, ReplaceStep, PostinstallStep,
       ListVolumesStep, UmountListedStep DEF InstallStep
  <2>3. CASE ~panicked /\ \E t \in Tools : ToolStep(t)
    BY <1>1, <2>3, RunStep, MountSyscallStep, VfsopMountStep, LoadKextStep, UmountStep
       DEF ToolStep
  <2>. QED  BY <1>1, <2>1, <2>2, <2>3 DEF Next, Halted
<1>. QED  BY <1>1, InitIInv, PTL DEF Spec

\* The variables keep their types.
THEOREM TypeCorrect == Spec => []TypeOK
<1>1. IInv => TypeOK
  BY DEF IInv
<1>. QED  BY <1>1, Invariance, PTL

\* Volumes are served by a loaded extension that is wholly there.
THEOREM Served == Spec => []ServedByKext
<1>1. IInv => ServedByKext
  BY DEF IInv
<1>. QED  BY <1>1, Invariance, PTL

\* After an installation that no tool has raced, the old version does not run.
THEOREM NewVersion == Spec => []NewVersionRuns
<1>1. IInv => NewVersionRuns
  BY DEF IInv, InstallInv, NewVersionRuns
<1>. QED  BY <1>1, Invariance, PTL
-----------------------------------------------------------------------------
(* The arguments of the tool.                                              *)

\* A device of servers that are all found, and a path.
Device(d, n, fs) == d = [i \in 1..n |-> "host"] \o <<fs>>

LEMMA DeviceFacts ==
  ASSUME NEW n \in Nat, NEW fs \in Paths
  PROVE  LET d == [i \in 1..n |-> "host"] \o <<fs>>
         IN  /\ d \in Seq(Parts) /\ Len(d) = n + 1 /\ d[n + 1] = fs
             /\ \A i \in 1..n : d[i] = "host"
<1>. DEFINE servers == [i \in 1..n |-> "host"]
<1>1. servers \in Seq(Parts) /\ Len(servers) = n /\ \A i \in 1..n : servers[i] = "host"
  BY DEF Parts, Hosts
<1>2. <<fs>> \in Seq(Parts) /\ Len(<<fs>>) = 1 /\ <<fs>>[1] = fs
  BY DEF Parts
<1>. HIDE DEF servers
<1>3. /\ servers \o <<fs>> \in Seq(Parts)
      /\ Len(servers \o <<fs>>) = n + 1
      /\ \A i \in 1..n + 1 : (servers \o <<fs>>)[i] = IF i <= n THEN servers[i] ELSE <<fs>>[i - n]
  BY <1>1, <1>2, ConcatProperties
<1>4. (servers \o <<fs>>)[n + 1] = fs
  BY <1>2, <1>3
<1>5. \A i \in 1..n : (servers \o <<fs>>)[i] = "host"
  BY <1>1, <1>3
<1>. QED  BY <1>3, <1>4, <1>5 DEF servers

\* What ParseDevice and ProcessRest ask of a device is that it is one of WellFormed.
LEMMA DeviceIs ==
  ASSUME NEW d \in Seq(Parts)
  PROVE  (\E n \in 1..Len(d), fs \in Paths : Device(d, n, fs))
           <=> ParseDevice(d) = "parsed" /\ d[Len(d)] \in Paths
<1>1. ASSUME NEW n \in 1..Len(d), NEW fs \in Paths, Device(d, n, fs)
      PROVE  ParseDevice(d) = "parsed" /\ d[Len(d)] \in Paths
  <2>1. Len(d) = n + 1 /\ d[n + 1] = fs /\ \A i \in 1..n : d[i] = "host"
    BY <1>1, DeviceFacts DEF Device
  <2>. QED  BY <2>1 DEF ParseDevice, Hosts
<1>2. ASSUME ParseDevice(d) = "parsed", d[Len(d)] \in Paths
      PROVE  \E n \in 1..Len(d), fs \in Paths : Device(d, n, fs)
  <2>. DEFINE n == Len(d) - 1  fs == d[Len(d)]  e == [i \in 1..n |-> "host"] \o <<fs>>
  <2>1. Len(d) >= 2 /\ \A i \in 1..n : d[i] = "host"
    BY <1>2 DEF ParseDevice, Hosts
  <2>2. n \in Nat /\ n \in 1..Len(d) /\ fs \in Paths /\ Len(d) = n + 1
    BY <1>2, <2>1
  <2>. HIDE DEF n, fs
  <2>3. e \in Seq(Parts) /\ Len(e) = n + 1 /\ e[n + 1] = fs /\ \A i \in 1..n : e[i] = "host"
    BY <2>2, DeviceFacts
  <2>. HIDE DEF e
  <2>4. \A i \in 1..Len(d) : d[i] = e[i]
    BY <2>1, <2>2, <2>3 DEF fs
  <2>5. d = e
    BY <2>2, <2>3, <2>4, SeqEqual
  <2>. QED  BY <2>2, <2>5 DEF Device, e
<1>. QED  BY <1>1, <1>2

LEMMA MountIsWellFormed ==
  ASSUME NEW args \in Arguments
  PROVE  Process(args) = "mount" <=> WellFormed(args)
<1>1. args \in Seq(Seq(Parts) \ {<<>>})
  BY ArgumentsAssumption
<1>2. CASE Len(args) \notin 3..5
  BY <1>2 DEF Process, ParseArguments, WellFormed
<1>3. CASE Len(args) \in 3..5
  <2>. DEFINE d == args[2]
  <2>1. d \in Seq(Parts)
    <3>1. 2 \in 1..Len(args)
      BY <1>3
    <3>. QED  BY <1>1, <3>1, ElementOfSeq
  <2>2. WellFormed(args)
          <=> /\ ParseDevice(d) = "parsed" /\ d[Len(d)] \in Paths
              /\ args[Len(args)] = <<"/directory">>
    BY <1>3, <2>1, DeviceIs DEF WellFormed, Device
  <2>3. CASE HasOptions(args)
    <3>1. ParseDevice(d) # "parsed"
      BY <2>3 DEF HasOptions, ParseDevice
    <3>2. ParseArguments(args) # "mount"
      BY DEF ParseArguments, ParseDevice
    <3>3. ProcessRest(args) = "failure"
      BY <2>3 DEF ProcessRest
    <3>4. Process(args) # "mount"
      BY <3>2, <3>3 DEF Process
    <3>. QED  BY <2>2, <3>1, <3>4
  <2>4. CASE ~HasOptions(args)
    <3>1. ParseArguments(args) = ParseDevice(d)
      BY <1>3, <2>4 DEF ParseArguments, DevicePosition
    <3>2. ParseDevice(d) \in {"parsed", "failure"}
      BY DEF ParseDevice
    <3>. QED  BY <2>2, <2>4, <3>1, <3>2 DEF Process, ProcessRest, DevicePosition
  <2>. QED  BY <2>3, <2>4
<1>. QED  BY <1>2, <1>3

\* Whatever the argument lists, the tool mounts with those its test expects it to
\* accept and no others (LFSMount.m:47-99, LFSMountTestCase.m:33-48).
THEOREM TestedArguments == Spec => []MountsWhatIsTested
<1>1. IInv => MountsWhatIsTested
  BY MountIsWellFormed DEF IInv, TypeOK, MountsWhatIsTested
<1>. QED  BY <1>1, Invariance, PTL
=============================================================================
