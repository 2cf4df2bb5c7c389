--------------------------- MODULE MountArguments ---------------------------
(***************************************************************************)
(* How the mount tool and the NetFS plug-in read their arguments           *)
(* (Tools/LFSMount.m, process:).  An argument is the sequence of its parts *)
(* between colons, so the device host:host:/fs is <<"host", "host", "/fs">> *)
(* and any other word has one part.                                        *)
(***************************************************************************)
EXTENDS Naturals, Sequences

CONSTANT Arguments    \* the argument lists the tool is run with, its name first

Hosts == {"host"}                                 \* names and addresses NSHost resolves
Paths == {"/fs", "/directory", "/file", "/missing"}
Parts == Hosts \cup Paths \cup {"unknown", "fs", "-o"}

ASSUME ArgumentsAssumption == Arguments \subseteq Seq(Seq(Parts) \ {<<>>})

\* index 1 of the array, in which the tool's name is index 0
HasOptions(args) == args[2] = <<"-o">>
DevicePosition(args) == IF HasOptions(args) THEN 4 ELSE 2

\* Mutant: one server that is found is enough.
ParseDeviceAnyServer(device) ==
  IF Len(device) < 2 \/ \A i \in 1..(Len(device) - 1) : device[i] \notin Hosts
  THEN "failure" ELSE "parsed"

\* All parts but the last are management servers, and each must be found.
ParseDevice(device) ==
  IF Len(device) < 2 \/ \E i \in 1..(Len(device) - 1) : device[i] \notin Hosts
  THEN "failure" ELSE "parsed"

\* With -o and three arguments there is none at index 3, and an exception ends the
\* tool.
ParseArguments(args) ==
  IF Len(args) \notin 3..5 THEN "failure"
  ELSE IF DevicePosition(args) > Len(args) THEN "exception"
  ELSE ParseDevice(args[DevicePosition(args)])

\* What the options, the file system and the mount point are checked for.
ProcessRest(args) ==
  LET device == args[DevicePosition(args)]
  IN  IF /\ ~HasOptions(args)
         /\ device[Len(device)] \in Paths
         /\ args[Len(args)] = <<"/directory">>
      THEN "mount" ELSE "failure"

Process(args) ==
  IF ParseArguments(args) = "parsed" THEN ProcessRest(args) ELSE ParseArguments(args)
-----------------------------------------------------------------------------
\* What LFSMountTestCase.m:33-48 expects to be accepted: a device of servers that
\* are all found and a path, and a directory that exists.  One or two words between
\* them are let pass; options are not.
WellFormed(args) ==
  /\ Len(args) \in 3..5
  /\ \E n \in 1..Len(args[2]), fs \in Paths :
       args[2] = [i \in 1..n |-> "host"] \o <<fs>>
  /\ args[Len(args)] = <<"/directory">>
=============================================================================
