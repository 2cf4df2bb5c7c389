--------------------------- MODULE KextLifecycle ---------------------------
(***************************************************************************)
(* The kernel extension around the volumes: lustre_start and lustre_stop,  *)
(* the mount tool and the NetFS plug-in, which load the extension when     *)
(* mount(2) says there is no such file system, and the installer, which    *)
(* unloads it, replaces it on disk and unmounts the volumes afterwards.    *)
(* They are processes of their own and nothing but the kernel orders their *)
(* calls.  A volume is mounted or not; VolumeLifecycle has its inside, and *)
(* MountArguments what a run of the tool does with its arguments.          *)
(***************************************************************************)
EXTENDS MountArguments

CONSTANT Tools     \* runs of the mount tool, each with a mount point

VARIABLES
  loaded,      \* the kernel runs the extension
  running,     \* the version it runs, or "none"
  on_disk,     \* the version in /Library/Extensions/Lustre.kext, or "none"
  registered,  \* vfs_table_ref: the file system is in the kernel's table
  memory,      \* lustre_os_malloc_tag and lustre_lock_group
  loggers,     \* the four os_log_t handles
  panicked,    \* a LUSTRE_BUG_ON fired
  asked,       \* the arguments the runs of the mount tool are given
  pc,          \* where each run of the mount tool is
  mounted,     \* the runs whose volume is mounted
  reported,    \* what each run told its caller
  phase,       \* where the installer is
  listed,      \* the volumes `mount | grep lustre` printed
  raced        \* a tool has loaded the extension between the installer's last look
               \* at it and its removal from the disk

kextVars == <<loaded, running, registered, memory, loggers, panicked>>
toolVars == <<asked, pc, mounted, reported>>
installVars == <<on_disk, phase, listed>>
vars == <<kextVars, toolVars, installVars, raced>>

ToolPCs == {"idle", "mount", "mounting", "load", "retry", "remounting"}

\* As of the installation under way, or of the last one.
Versions == {"none", "old", "new"}

Phases == {"idle", "found", "unload", "remove", "copy", "load", "list", "umount"}

TypeOK ==
  /\ loaded \in BOOLEAN /\ raced \in BOOLEAN
  /\ running \in Versions /\ on_disk \in Versions
  /\ registered \in BOOLEAN /\ memory \in BOOLEAN /\ panicked \in BOOLEAN
  /\ loggers \in {"none", "live", "released"}
  /\ asked \in Arguments
  /\ pc \in [Tools -> ToolPCs]
  /\ mounted \subseteq Tools
  /\ reported \in [Tools -> {"none", "success", "failure"}]
  /\ phase \in Phases
  /\ listed \subseteq Tools

Init ==
  /\ loaded = FALSE /\ running = "none" /\ registered = FALSE /\ memory = FALSE
  /\ loggers = "none" /\ panicked = FALSE
  /\ asked \in Arguments
  /\ pc = [t \in Tools |-> "idle"]
  /\ mounted = {}
  /\ reported = [t \in Tools |-> "none"]
  /\ on_disk \in {"none", "old"} /\ phase = "idle" /\ listed = {}
  /\ raced = FALSE
-----------------------------------------------------------------------------
(* The extension                                                           *)

\* The tools whose lustre_vfsop_mount runs.
Calls == {t \in Tools : pc[t] \in {"mounting", "remounting"}}

\* lustre_start.  Without memory for the tag or the lock group it panics; when
\* vfs_fsadd fails it gives both back, but not the loggers.
Start(status) ==
  /\ loggers' = "live"
  /\ \/ /\ loaded' = status /\ registered' = status /\ memory' = status
        /\ running' = IF status THEN on_disk ELSE "none"
        /\ UNCHANGED panicked
     \/ /\ panicked' = TRUE
        /\ UNCHANGED <<loaded, running, registered, memory>>

\* kextload: nothing to do for a loaded extension; one that fails to start is
\* not loaded.
Kextload(status) ==
  \/ on_disk # "none" /\ loaded /\ status /\ UNCHANGED kextVars
  \/ on_disk = "none" /\ ~status /\ UNCHANGED kextVars
  \/ on_disk # "none" /\ ~loaded /\ Start(status)

\* Mutant: the answer of vfs_fsremove is not looked at.
StopRegardless(status) ==
  /\ loaded
  /\ status
  /\ registered' = (Calls \cup mounted # {})
  /\ memory' = FALSE /\ loaded' = FALSE /\ running' = "none"
  /\ loggers' = "released"
  /\ UNCHANGED panicked

\* lustre_stop: vfs_fsremove fails while a mount exists or is being made, and
\* the extension stays; the loggers are released in either case.
Stop(status) ==
  /\ loaded
  /\ status = (Calls \cup mounted = {})
  /\ loaded' = ~status /\ registered' = ~status /\ memory' = ~status
  /\ running' = IF status THEN "none" ELSE running
  /\ loggers' = "released"
  /\ UNCHANGED panicked
-----------------------------------------------------------------------------
(* LFSMount, in the mount tool and in the NetFS plug-in                    *)

Goto(t, where) == pc' = [pc EXCEPT ![t] = where]

Report(t, answer) == reported' = [reported EXCEPT ![t] = answer]

\* With arguments that are not in order the tool does not get to mount.
Run(t) ==
  /\ pc[t] = "idle"
  /\ t \notin mounted
  /\ IF Process(asked) = "mount" THEN Goto(t, "mount") /\ Report(t, "none")
     ELSE Report(t, "failure") /\ UNCHANGED pc
  /\ UNCHANGED <<kextVars, installVars, raced, asked, mounted>>

\* mount(2), the first time and the second.
MountSyscall(t) ==
  /\ pc[t] \in {"mount", "retry"}
  /\ CASE registered ->
            /\ Goto(t, IF pc[t] = "mount" THEN "mounting" ELSE "remounting")
            /\ UNCHANGED reported
       [] ~registered /\ pc[t] = "mount" ->       \* ENODEV
            /\ Goto(t, "load")
            /\ UNCHANGED reported
       [] ~registered /\ pc[t] = "retry" ->
            /\ Goto(t, "idle")
            /\ Report(t, "failure")
  /\ UNCHANGED <<kextVars, installVars, raced, asked, mounted>>

\* Mutant: the tool does not come back from a mount.
VfsopMountStays(t) ==
  /\ t \in Calls
  /\ \/ mounted' = mounted \cup {t} /\ Goto(t, "mounted") /\ UNCHANGED reported
     \/ Report(t, "failure") /\ Goto(t, "idle") /\ UNCHANGED mounted
  /\ UNCHANGED <<kextVars, installVars, raced, asked>>

\* lustre_vfsop_mount logs and ends.  It may fail; mount leaves force_failure
\* uninitialised, so it may fail for no reason.
VfsopMount(t) ==
  /\ t \in Calls
  /\ \/ mounted' = mounted \cup {t} /\ Report(t, "success")
     \/ Report(t, "failure") /\ UNCHANGED mounted
  /\ Goto(t, "idle")
  /\ UNCHANGED <<kextVars, installVars, raced, asked>>

\* Without the extension the second mount is skipped and result is still YES.
LoadKext(t) ==
  /\ pc[t] = "load"
  /\ \/ /\ Kextload(TRUE)
        /\ Goto(t, "retry")
        /\ raced' = (raced \/ phase = "remove")
        /\ UNCHANGED reported
     \/ /\ Kextload(FALSE)
        /\ UNCHANGED raced
        /\ Goto(t, "idle")
        /\ Report(t, "success")
  /\ UNCHANGED <<installVars, asked, mounted>>

\* umount(8), of a user; a busy volume stays.
Umount(t) ==
  /\ t \in mounted
  /\ mounted' = mounted \ {t}
  /\ UNCHANGED <<kextVars, installVars, raced, asked, pc, reported>>
-----------------------------------------------------------------------------
(* The scripts of the package, in the order of Distribution.xml            *)

\* FOUND=`kextstat ...`; what is there is the old version from now on.
Found ==
  /\ phase = "idle"
  /\ phase' = IF loaded THEN "unload" ELSE "remove"
  /\ on_disk' = IF on_disk = "none" THEN "none" ELSE "old"
  /\ running' = IF loaded THEN "old" ELSE "none"
  /\ raced' = FALSE
  /\ UNCHANGED <<loaded, registered, memory, loggers, panicked, toolVars, listed>>

\* Mutant: one try is enough.
KextunloadOnce ==
  /\ phase = "unload"
  /\ \E status \in BOOLEAN : Stop(status)
  /\ phase' = "remove"
  /\ UNCHANGED <<toolVars, on_disk, listed, raced>>

\* Mutant: the loop does not look at the answer.
KextunloadForEver ==
  /\ phase = "unload"
  /\ \E status \in BOOLEAN : Stop(status)
  /\ UNCHANGED <<toolVars, installVars, raced>>

\* kextunload, once more every second until it succeeds.
Kextunload ==
  /\ phase = "unload"
  /\ \/ Stop(TRUE) /\ phase' = "remove"
     \/ Stop(FALSE) /\ UNCHANGED phase
  /\ UNCHANGED <<toolVars, on_disk, listed, raced>>

\* rm -rf Lustre.kext, and the payload of the package.
Replace ==
  /\ \/ phase = "remove" /\ on_disk' = "none" /\ phase' = "copy"
     \/ phase = "copy" /\ on_disk' = "new" /\ phase' = "load"
  /\ UNCHANGED <<kextVars, toolVars, listed, raced>>

\* postinstall, which ignores a kextload that failed.
Postinstall ==
  /\ phase = "load"
  /\ \E status \in BOOLEAN : Kextload(status)
  /\ phase' = "list"
  /\ UNCHANGED <<toolVars, on_disk, listed, raced>>

\* The Filesystem package: list the volumes, and unmount each of them once.
ListVolumes ==
  /\ phase = "list"
  /\ listed' = mounted
  /\ phase' = "umount"
  /\ UNCHANGED <<kextVars, toolVars, on_disk, raced>>

UmountListed ==
  /\ phase = "umount"
  /\ \/ \E t \in listed :
          /\ listed' = listed \ {t}
          /\ \/ mounted' = mounted \ {t}
             \/ UNCHANGED mounted
          /\ UNCHANGED phase
     \/ /\ listed = {}
        /\ phase' = "idle"
        /\ UNCHANGED <<listed, mounted>>
  /\ UNCHANGED <<kextVars, asked, pc, reported, on_disk, raced>>
-----------------------------------------------------------------------------
ToolStep(t) == Run(t) \/ MountSyscall(t) \/ VfsopMount(t) \/ LoadKext(t) \/ Umount(t)

InstallStep ==
  Found \/ Kextunload \/ Replace \/ Postinstall \/ ListVolumes \/ UmountListed

Halted == panicked /\ UNCHANGED vars

Next ==
  \/ ~panicked /\ (InstallStep \/ \E t \in Tools : ToolStep(t))
  \/ Halted

\* The installer's shell goes on by itself; nobody need run the tool.
Spec == Init /\ [][Next]_vars /\ WF_vars(~panicked /\ InstallStep)
-----------------------------------------------------------------------------
(* Properties                                                              *)

\* The tool goes on to mount exactly with the arguments its test expects it to
\* accept.
MountsWhatIsTested == Process(asked) = "mount" <=> WellFormed(asked)

\* While a volume is mounted, or a mount runs in the kernel, the extension is
\* loaded, however often the installer's loop tries to unload it; and a loaded
\* extension has its entry in the kernel's table, its allocation tag and its lock
\* group, where one that was unloaded or failed to start left nothing
\* (lustre.c:157-246).
ServedByKext ==
  ~panicked => /\ Calls \cup mounted # {} => loaded
               /\ loaded = registered /\ loaded = memory

\* When the installer has loaded what it installed, the old version no longer runs,
\* unless a mount tool loaded it after the installer had looked and before it
\* removed it from the disk (Extension preinstall:23-35).
NewVersionRuns ==
  ~panicked /\ phase \in {"list", "umount"} /\ ~raced => running # "old"

\* Once all volumes are unmounted and nobody mounts one, an installation gets to
\* its end (Extension preinstall:28-33); with a volume that stays it does not.
InstallationEnds ==
  <>[](~panicked /\ Calls \cup mounted = {}) => []<>(phase = "idle")
-----------------------------------------------------------------------------
(* What the code says and does not do.                                     *)

\* "load the KEXT and try again" (LFSMount.m:106): a run says success of a mount
\* that was made, and nobody unmounted.
MountReportsTruth ==
  [][\A t \in Tools :
       reported[t] # "success" /\ reported'[t] = "success" => t \in mounted']_vars
=============================================================================
