------------------------ MODULE VolumeLifecycleProofs ------------------------
(***************************************************************************)
(* VolumeLifecycle, for any number of mount points, addresses and labels:  *)
(* a mount has a volume of its own for as long as it lasts, no lock        *)
(* outlives its structure, and where at most one update of a volume is     *)
(* refused, no entry into it meets a freed lock.                           *)
(***************************************************************************)
EXTENDS VolumeLifecycle, TLAPS

\* The steps in which lustre_volume_alloc works on a structure, those in which the
\* mount has one, and those in which the structure has the mount arguments.
Allocating == LockNames \cup {"alloc_error"}
Set == {"setup_vfs", "url", "url_print", "url_copy", "done", "start", "mounted"}
Attached == Set \cup {"setup"}

\* A structure is worked on by one call, and no mount has it yet.
NewInv ==
  /\ \A m \in Mounts : new[m] # NULL <=> pc[m] \in Allocating
  /\ \A m \in Mounts : new[m] # NULL => /\ mem[new[m]] = "allocated"
                                        /\ mount_point[new[m]] = NULL
  /\ \A m, n \in Mounts : new[m] # NULL /\ new[m] = new[n] => m = n

\* A call that mounts, or fails, knows no volume but its own.
OwnInv ==
  /\ \A m \in Mounts : pc[m] \in Attached => fsprivate[m] # NULL
  /\ \A m \in Mounts : pc[m] # "idle" /\ fsprivate[m] # NULL =>
       /\ pc[m] \in Attached \cup {"error"}
       /\ mount_point[fsprivate[m]] = m
       /\ mem[fsprivate[m]] = "allocated"

\* The mount arguments are in the call, and from lustre_mount_setup on in the volume.
LabelInv ==
  /\ \A m \in Mounts : pc[m] # "idle" => label[m] \in Labels
  /\ \A m \in Mounts : pc[m] \in Set => /\ ready[fsprivate[m]]
                                        /\ volume_label[fsprivate[m]] = label[m]

\* The reference count says what is left of the locks: until it has passed zero,
\* all of them are there.
LockInv ==
  /\ NoOrphanLocks
  /\ \A m \in Mounts : has_root[m] => pc[m] = "mounted"
  /\ \A m \in Mounts : new[m] # NULL =>
       /\ ref_count[new[m]] = 1
       /\ pc[m] \in {"root_lock", "stats_lock"} => locks[new[m]].lock = "valid"
       /\ pc[m] = "stats_lock" => locks[new[m]].root_lock = "valid"
  /\ \A m \in Mounts : pc[m] \in Attached =>
       /\ pc[m] # "mounted" => ref_count[fsprivate[m]] = 1
       /\ ref_count[fsprivate[m]] >= 1 - MaxUpdates
       /\ ref_count[fsprivate[m]] >= 0 =>
            \A n \in LockNames : locks[fsprivate[m]][n] = "valid"

\* What the states before a bug have; bug itself is the business of Safe.
IInv == TypeOK /\ NewInv /\ OwnInv /\ LabelInv /\ LockInv

LEMMA InitIInv == Init => IInv
  BY VolumeAssumption DEF Init, IInv, TypeOK, NewInv, OwnInv, LabelInv, LockInv,
     NoOrphanLocks, PCs, LockNames, Bugs, Allocating, Attached, Set
-----------------------------------------------------------------------------
(* The steps of a mount.                                                   *)

\* A call without data stops the machine and changes nothing else.
LEMMA NoDataStep == ASSUME IInv, NoData PROVE IInv'
<1>1. /\ UNCHANGED <<pc, new, label, force, fsprivate, mntfrom, has_root, url>>
      /\ UNCHANGED <<mem, mount_point, ready, volume_label, ref_count, locks>>
      /\ bug' \in Bugs
  BY DEF NoData, Bugs, mountVars, volumeVars
<1>2. TypeOK'
  BY <1>1 DEF IInv, TypeOK
<1>3. NewInv' /\ OwnInv' /\ LabelInv'
  BY <1>1 DEF IInv, NewInv, OwnInv, LabelInv
<1>4. LockInv'
  BY <1>1 DEF IInv, LockInv, NoOrphanLocks
<1>. QED  BY <1>2, <1>3, <1>4 DEF IInv

LEMMA MountCallStep == ASSUME IInv, NEW m \in Mounts, MountCall(m), ~NoData PROVE IInv'
<1>1. /\ pc[m] = "idle" /\ pc' = [pc EXCEPT ![m] = "alloc"]
      /\ \E l \in Labels : label' = [label EXCEPT ![m] = l]
      /\ \E f \in BOOLEAN : force' = [force EXCEPT ![m] = f]
      /\ fsprivate' = [fsprivate EXCEPT ![m] = NULL]
      /\ mntfrom' = [mntfrom EXCEPT ![m] = NULL]
      /\ UNCHANGED <<new, has_root, url, bug, mem, mount_point, ready,
                     volume_label, ref_count, locks>>
  BY DEF MountCall, Goto, volumeVars
<1>2. TypeOK'
  <2>1. label' \in [Mounts -> Labels \cup {NULL}] /\ force' \in [Mounts -> BOOLEAN]
    BY <1>1 DEF IInv, TypeOK
  <2>. QED  BY <1>1, <2>1 DEF IInv, TypeOK, PCs
<1>3. NewInv'
  BY <1>1 DEF IInv, TypeOK, NewInv, Allocating, LockNames
<1>4. OwnInv'
  BY <1>1 DEF IInv, TypeOK, OwnInv, Attached, Set
<1>5. LabelInv'
  BY <1>1 DEF IInv, TypeOK, LabelInv, Set
<1>6. LockInv'
  BY <1>1 DEF IInv, TypeOK, LockInv, NoOrphanLocks, NewInv, Allocating, Attached, Set, LockNames
<1>. QED  BY <1>2, <1>3, <1>4, <1>5, <1>6 DEF IInv

LEMMA AllocVolumeStep == ASSUME IInv, NEW m \in Mounts, AllocVolume(m) PROVE IInv'
<1>1. /\ pc[m] = "alloc"
      /\ UNCHANGED <<label, force, fsprivate, mntfrom, has_root, url>>
  BY DEF AllocVolume
<1>2. ASSUME NEW v \in Volumes, mem[v] = "free",
             mem' = [mem EXCEPT ![v] = "allocated"],
             mount_point' = [mount_point EXCEPT ![v] = NULL],
             ready' = [ready EXCEPT ![v] = FALSE],
             volume_label' = [volume_label EXCEPT ![v] = NULL],
             ref_count' = [ref_count EXCEPT ![v] = 1],
             locks' = [locks EXCEPT ![v] = [n \in LockNames |-> "null"]],
             new' = [new EXCEPT ![m] = v],
             pc' = [pc EXCEPT ![m] = "lock"],
             bug' = bug
      PROVE  IInv'
  <2>. USE <1>1, <1>2, VolumeAssumption
  <2>1. TypeOK'
    BY DEF IInv, TypeOK, PCs, LockNames
  <2>2. NewInv'
    BY DEF IInv, TypeOK, NewInv, Allocating, LockNames
  <2>3. OwnInv'
    BY DEF IInv, TypeOK, OwnInv, Attached, Set
  <2>4. LabelInv'
    BY DEF IInv, TypeOK, LabelInv, OwnInv, Set, Attached
  <2>5. LockInv'
    <3>1. NoOrphanLocks'
      BY DEF IInv, TypeOK, LockInv, NoOrphanLocks
    <3>2. \A o \in Mounts : has_root'[o] => pc'[o] = "mounted"
      BY DEF IInv, TypeOK, LockInv
    <3>3. \A o \in Mounts : new'[o] # NULL =>
            /\ ref_count'[new'[o]] = 1
            /\ pc'[o] \in {"root_lock", "stats_lock"} => locks'[new'[o]].lock = "valid"
            /\ pc'[o] = "stats_lock" => locks'[new'[o]].root_lock = "valid"
      BY DEF IInv, TypeOK, LockInv, NewInv
    <3>4. \A o \in Mounts : pc'[o] \in Attached =>
            o # m /\ fsprivate[o] \in Volumes /\ fsprivate[o] # v
      BY DEF IInv, TypeOK, OwnInv, Attached, Set
    <3>5. \A o \in Mounts : pc'[o] \in Attached =>
            /\ pc'[o] # "mounted" => ref_count'[fsprivate'[o]] = 1
            /\ ref_count'[fsprivate'[o]] >= 1 - MaxUpdates
            /\ ref_count'[fsprivate'[o]] >= 0 =>
                 \A n \in LockNames : locks'[fsprivate'[o]][n] = "valid"
      BY <3>4 DEF IInv, TypeOK, LockInv
    <3>. QED  BY <3>1, <3>2, <3>3, <3>5 DEF LockInv
  <2>. QED  BY <2>1, <2>2, <2>3, <2>4, <2>5 DEF IInv
<1>3. ASSUME bug' = "null dereference", UNCHANGED <<volumeVars, new, pc>>
      PROVE  IInv'
  <2>. USE <1>1, <1>3
  <2>1. UNCHANGED <<mem, mount_point, ready, volume_label, ref_count, locks>>
    BY DEF volumeVars
  <2>2. TypeOK'
    BY <2>1 DEF IInv, TypeOK, Bugs
  <2>3. NewInv' /\ OwnInv'
    BY <2>1 DEF IInv, NewInv, OwnInv
  <2>4. LabelInv' /\ LockInv'
    BY <2>1 DEF IInv, LabelInv, LockInv, NoOrphanLocks
  <2>. QED  BY <2>2, <2>3, <2>4 DEF IInv
<1>. QED  BY <1>1, <1>2, <1>3 DEF AllocVolume, Goto

LEMMA AllocLockStep == ASSUME IInv, NEW m \in Mounts, AllocLock(m) PROVE IInv'
<1>. DEFINE v == new[m]
<1>1. /\ pc[m] \in LockNames
      /\ UNCHANGED <<label, force, mntfrom, has_root, mem, ready, volume_label,
                     ref_count, url, bug>>
  BY DEF AllocLock
<1>2. /\ v \in Volumes /\ v # NULL /\ mem[v] = "allocated" /\ mount_point[v] = NULL
      /\ ref_count[v] = 1
      /\ fsprivate[m] = NULL
  BY <1>1 DEF IInv, TypeOK, NewInv, OwnInv, LockInv, Allocating, Attached, Set, LockNames
<1>. HIDE DEF v
<1>3. ASSUME pc[m] = "stats_lock", locks' = [locks EXCEPT ![v]["stats_lock"] = "valid"],
             mount_point' = [mount_point EXCEPT ![v] = m],
             fsprivate' = [fsprivate EXCEPT ![m] = v],
             new' = [new EXCEPT ![m] = NULL],
             pc' = [pc EXCEPT ![m] = "setup"]
      PROVE  IInv'
  <2>. USE <1>1, <1>2, <1>3, VolumeAssumption
  <2>1. TypeOK'
    BY DEF IInv, TypeOK, PCs, LockNames
  <2>2. NewInv'
    BY DEF IInv, TypeOK, NewInv, Allocating, LockNames, v
  <2>3. OwnInv'
    BY DEF IInv, TypeOK, OwnInv, Attached, Set
  <2>4. LabelInv'
    BY DEF IInv, TypeOK, LabelInv, OwnInv, Set, Attached, LockNames
  <2>5. LockInv'
    <3>1. NoOrphanLocks'
      BY DEF IInv, TypeOK, LockInv, NoOrphanLocks
    <3>2. \A o \in Mounts : has_root'[o] => pc'[o] = "mounted"
      BY DEF IInv, TypeOK, LockInv
    <3>3. \A o \in Mounts : new'[o] # NULL => o # m /\ new[o] \in Volumes /\ new[o] # v /\ pc'[o] = pc[o]
      BY DEF IInv, TypeOK, NewInv, v
    <3>4. \A n \in LockNames : locks'[v][n] = "valid"
      BY DEF IInv, TypeOK, LockInv, LockNames, v
    <3>5. \A o \in Mounts : o # m /\ pc[o] \in Attached => fsprivate[o] \in Volumes /\ fsprivate[o] # v
      BY DEF IInv, TypeOK, OwnInv, Attached, Set
    <3>6. \A u \in Volumes : u # v => locks'[u] = locks[u]
      BY DEF IInv, TypeOK
    <3>7. \A o \in Mounts : new'[o] # NULL =>
            /\ ref_count'[new'[o]] = 1
            /\ pc'[o] \in {"root_lock", "stats_lock"} => locks'[new'[o]].lock = "valid"
            /\ pc'[o] = "stats_lock" => locks'[new'[o]].root_lock = "valid"
      BY <3>3, <3>6 DEF IInv, TypeOK, LockInv
    <3>8. \A o \in Mounts : pc'[o] \in Attached =>
            /\ pc'[o] # "mounted" => ref_count'[fsprivate'[o]] = 1
            /\ ref_count'[fsprivate'[o]] >= 1 - MaxUpdates
            /\ ref_count'[fsprivate'[o]] >= 0 =>
                 \A n \in LockNames : locks'[fsprivate'[o]][n] = "valid"
      <4>. TAKE o \in Mounts
      <4>1. CASE o = m
        BY <4>1, <3>4 DEF IInv, TypeOK
      <4>2. CASE o # m
        BY <4>2, <3>5, <3>6 DEF IInv, TypeOK, LockInv
      <4>. QED  BY <4>1, <4>2
    <3>. QED  BY <3>1, <3>2, <3>7, <3>8 DEF LockInv
  <2>. QED  BY <2>1, <2>2, <2>3, <2>4, <2>5 DEF IInv
<1>4. ASSUME NEW n \in {"lock", "root_lock"}, NEW w \in {"root_lock", "stats_lock"},
             pc[m] = n, n = "lock" <=> w = "root_lock",
             locks' = [locks EXCEPT ![v][n] = "valid"],
             pc' = [pc EXCEPT ![m] = w],
             UNCHANGED <<mount_point, fsprivate, new>>
      PROVE  IInv'
  <2>. USE <1>1, <1>2, <1>4, VolumeAssumption
  <2>1. TypeOK'
    BY DEF IInv, TypeOK, PCs, LockNames
  <2>2. NewInv'
    BY DEF IInv, TypeOK, NewInv, Allocating, LockNames, v
  <2>3. OwnInv'
    BY DEF IInv, TypeOK, OwnInv, Attached, Set
  <2>4. LabelInv'
    BY DEF IInv, TypeOK, LabelInv, OwnInv, Set, Attached, LockNames
  <2>5. LockInv'
    <3>1. NoOrphanLocks'
      BY DEF IInv, TypeOK, LockInv, NoOrphanLocks
    <3>2. \A o \in Mounts : has_root'[o] => pc'[o] = "mounted"
      BY DEF IInv, TypeOK, LockInv
    <3>3. \A o \in Mounts : o # m /\ new[o] # NULL => new[o] \in Volumes /\ new[o] # v /\ pc'[o] = pc[o]
      BY DEF IInv, TypeOK, NewInv, v
    <3>4. \A o \in Mounts : pc'[o] \in Attached =>
            pc'[o] = pc[o] /\ fsprivate[o] \in Volumes /\ fsprivate[o] # v
      BY DEF IInv, TypeOK, OwnInv, Attached, Set
    <3>5. \A u \in Volumes : u # v => locks'[u] = locks[u]
      BY DEF IInv, TypeOK
    <3>6. /\ w \in {"root_lock", "stats_lock"} => locks'[v].lock = "valid"
          /\ w = "stats_lock" => locks'[v].root_lock = "valid"
      BY DEF IInv, TypeOK, LockInv, LockNames, v
    <3>7. \A o \in Mounts : new'[o] # NULL =>
            /\ ref_count'[new'[o]] = 1
            /\ pc'[o] \in {"root_lock", "stats_lock"} => locks'[new'[o]].lock = "valid"
            /\ pc'[o] = "stats_lock" => locks'[new'[o]].root_lock = "valid"
      <4>. TAKE o \in Mounts
      <4>1. CASE o = m
        BY <4>1, <3>6 DEF IInv, TypeOK, v
      <4>2. CASE o # m
        BY <4>2, <3>3, <3>5 DEF IInv, TypeOK, LockInv
      <4>. QED  BY <4>1, <4>2
    <3>8. \A o \in Mounts : pc'[o] \in Attached =>
            /\ pc'[o] # "mounted" => ref_count'[fsprivate'[o]] = 1
            /\ ref_count'[fsprivate'[o]] >= 1 - MaxUpdates
            /\ ref_count'[fsprivate'[o]] >= 0 =>
                 \A k \in LockNames : locks'[fsprivate'[o]][k] = "valid"
      BY <3>4, <3>5 DEF IInv, TypeOK, LockInv
    <3>. QED  BY <3>1, <3>2, <3>7, <3>8 DEF LockInv
  <2>. QED  BY <2>1, <2>2, <2>3, <2>4, <2>5 DEF IInv
<1>5. ASSUME pc' = [pc EXCEPT ![m] = "alloc_error"],
             UNCHANGED <<locks, mount_point, fsprivate, new>>
      PROVE  IInv'
  <2>. USE <1>1, <1>2, <1>5
  <2>1. TypeOK'
    BY DEF IInv, TypeOK, PCs
  <2>2. NewInv'
    BY DEF IInv, TypeOK, NewInv, Allocating
  <2>3. OwnInv'
    BY DEF IInv, TypeOK, OwnInv, Attached, Set
  <2>4. LabelInv'
    BY DEF IInv, TypeOK, LabelInv, Set, LockNames
  <2>5. LockInv'
    BY DEF IInv, TypeOK, LockInv, NoOrphanLocks, Attached, Set, LockNames
  <2>. QED  BY <2>1, <2>2, <2>3, <2>4, <2>5 DEF IInv
<1>6. CASE pc[m] = "stats_lock"
  BY <1>3, <1>5, <1>6 DEF AllocLock, Goto, v
<1>7. CASE pc[m] \in {"lock", "root_lock"}
  <2>1. After(pc[m]) = IF pc[m] = "lock" THEN "root_lock" ELSE "stats_lock"
    BY <1>7 DEF After
  <2>. QED  BY <1>4, <1>5, <1>7, <2>1 DEF AllocLock, Goto, v
<1>. QED  BY <1>1, <1>6, <1>7 DEF LockNames

LEMMA AllocErrorStep == ASSUME IInv, NEW m \in Mounts, AllocError(m) PROVE IInv'
<1>. DEFINE v == new[m]
<1>1. /\ pc[m] = "alloc_error" /\ pc' = [pc EXCEPT ![m] = "error"]
      /\ locks' = [locks EXCEPT ![v] =
                     [n \in LockNames |-> IF @[n] = "valid" THEN "freed" ELSE @[n]]]
      /\ mem' = [mem EXCEPT ![v] = "free"]
      /\ new' = [new EXCEPT ![m] = NULL]
      /\ UNCHANGED <<label, force, fsprivate, mntfrom, has_root, mount_point, ready,
                     volume_label, ref_count, url, bug>>
  BY DEF AllocError, Goto
<1>2. /\ v \in Volumes /\ v # NULL /\ mem[v] = "allocated" /\ mount_point[v] = NULL
      /\ fsprivate[m] = NULL
  <2>1. v # NULL /\ v \in Volumes
    BY <1>1 DEF IInv, TypeOK, NewInv, Allocating
  <2>2. fsprivate[m] = NULL
    BY <1>1 DEF IInv, TypeOK, OwnInv, Attached, Set
  <2>. QED  BY <2>1, <2>2 DEF IInv, NewInv
<1>3. \A o \in Mounts : o # m /\ new[o] # NULL => new[o] \in Volumes /\ new[o] # v
  BY <1>2 DEF IInv, TypeOK, NewInv
<1>. HIDE DEF v
<1>4. \A o \in Mounts : pc[o] # "idle" /\ fsprivate[o] # NULL =>
        fsprivate[o] \in Volumes /\ fsprivate[o] # v
  BY <1>2, VolumeAssumption DEF IInv, TypeOK, OwnInv
<1>5. /\ locks' \in [Volumes -> [LockNames -> {"null", "valid", "freed"}]]
      /\ \A n \in LockNames : locks'[v][n] # "valid"
      /\ \A u \in Volumes : u # v => locks'[u] = locks[u] /\ mem'[u] = mem[u]
  BY <1>1, <1>2 DEF IInv, TypeOK
<1>6. TypeOK'
  BY <1>1, <1>2, <1>5 DEF IInv, TypeOK, PCs
<1>7. NewInv'
  BY <1>1, <1>2, <1>3, <1>5 DEF IInv, TypeOK, NewInv, Allocating, LockNames
<1>8. OwnInv'
  BY <1>1, <1>2, <1>4, <1>5 DEF IInv, TypeOK, OwnInv, Attached, Set
<1>9. LabelInv'
  BY <1>1 DEF IInv, TypeOK, LabelInv, Set
<1>10. LockInv'
  <2>1. NoOrphanLocks'
    BY <1>1, <1>5 DEF IInv, TypeOK, LockInv, NoOrphanLocks
  <2>2. \A o \in Mounts : has_root'[o] => pc'[o] = "mounted"
    BY <1>1 DEF IInv, TypeOK, LockInv
  <2>3. \A o \in Mounts : new'[o] # NULL =>
          /\ ref_count'[new'[o]] = 1
          /\ pc'[o] \in {"root_lock", "stats_lock"} => locks'[new'[o]].lock = "valid"
          /\ pc'[o] = "stats_lock" => locks'[new'[o]].root_lock = "valid"
    BY <1>1, <1>3, <1>5 DEF IInv, TypeOK, LockInv
  <2>4. \A o \in Mounts : pc'[o] \in Attached =>
          /\ pc'[o] # "mounted" => ref_count'[fsprivate'[o]] = 1
          /\ ref_count'[fsprivate'[o]] >= 1 - MaxUpdates
          /\ ref_count'[fsprivate'[o]] >= 0 =>
               \A n \in LockNames : locks'[fsprivate'[o]][n] = "valid"
    <3>1. \A o \in Mounts : pc'[o] \in Attached =>
            pc'[o] = pc[o] /\ fsprivate[o] \in Volumes /\ fsprivate[o] # v
      BY <1>1, <1>4 DEF IInv, TypeOK, OwnInv, Attached, Set
    <3>. QED  BY <1>1, <1>5, <3>1 DEF IInv, TypeOK, LockInv
  <2>. QED  BY <2>1, <2>2, <2>3, <2>4 DEF LockInv
<1>. QED  BY <1>6, <1>7, <1>8, <1>9, <1>10 DEF IInv

\* A step of a mount that leaves the structures alone.
LEMMA MoveStep ==
  ASSUME IInv, NEW m \in Mounts, NEW w \in Set \cup {"error"},
         pc[m] \in Set \ {"mounted"}, pc' = [pc EXCEPT ![m] = w],
         mntfrom' \in [Mounts -> Labels \cup {NULL, "?", "torn"}],
         url' \in Labels \cup {"?"}, bug' \in Bugs,
         UNCHANGED <<new, label, force, fsprivate, has_root, volumeVars>>
  PROVE  IInv'
<1>1. UNCHANGED <<mem, mount_point, ready, volume_label, ref_count, locks>>
  BY DEF volumeVars
<1>2. TypeOK'
  BY <1>1 DEF IInv, TypeOK, PCs, Set
<1>3. NewInv'
  BY <1>1 DEF IInv, TypeOK, NewInv, Allocating, Set, LockNames
<1>4. OwnInv'
  BY <1>1 DEF IInv, TypeOK, OwnInv, Attached, Set
<1>5. LabelInv'
  BY <1>1 DEF IInv, TypeOK, LabelInv, Set
<1>6. LockInv'
  <2>1. NoOrphanLocks' /\ \A o \in Mounts : has_root'[o] => pc'[o] = "mounted"
    BY <1>1 DEF IInv, TypeOK, LockInv, NoOrphanLocks
  <2>2. \A o \in Mounts : new[o] # NULL => o # m /\ pc'[o] = pc[o]
    BY DEF IInv, TypeOK, NewInv, Allocating, Set, LockNames
  <2>3. \A o \in Mounts : pc'[o] \in Attached => pc[o] \in Attached
    BY DEF IInv, TypeOK, Attached
  <2>4. ref_count[fsprivate[m]] = 1
    BY DEF IInv, LockInv, Attached
  <2>5. \A o \in Mounts : o # m => pc'[o] = pc[o]
    BY DEF IInv, TypeOK
  <2>6. \A o \in Mounts : pc'[o] \in Attached => (pc'[o] # "mounted" => ref_count[fsprivate[o]] = 1)
    BY <2>3, <2>4, <2>5 DEF IInv, LockInv
  <2>. QED  BY <1>1, <2>1, <2>2, <2>3, <2>6 DEF IInv, LockInv
<1>. QED  BY <1>2, <1>3, <1>4, <1>5, <1>6 DEF IInv

LEMMA SetupStep == ASSUME IInv, NEW m \in Mounts, Setup(m) PROVE IInv'
<1>. DEFINE v == fsprivate[m]
<1>1. /\ pc[m] = "setup"
      /\ UNCHANGED <<new, label, force, fsprivate, mntfrom, has_root, mem,
                     mount_point, ref_count, locks, url>>
  BY DEF Setup
<1>2. /\ v \in Volumes /\ mount_point[v] = m /\ label[m] \in Labels
      /\ \A o \in Mounts : o # m /\ pc[o] # "idle" => fsprivate[o] # v
  BY <1>1 DEF IInv, TypeOK, OwnInv, LabelInv, Attached
<1>. HIDE DEF v
<1>3. ASSUME NEW w \in {"setup_vfs", "error"}, pc' = [pc EXCEPT ![m] = w],
             bug' \in Bugs,
             w = "error" => UNCHANGED <<volume_label, ready>>,
             w # "error" => /\ volume_label' = [volume_label EXCEPT ![v] = label[m]]
                            /\ ready' = [ready EXCEPT ![v] = TRUE]
      PROVE  IInv'
  <2>1. /\ volume_label' \in [Volumes -> Labels \cup {NULL}]
        /\ ready' \in [Volumes -> BOOLEAN]
        /\ \A u \in Volumes : u # v => volume_label'[u] = volume_label[u] /\ ready'[u] = ready[u]
        /\ w # "error" => volume_label'[v] = label[m] /\ ready'[v]
    BY <1>2, <1>3 DEF IInv, TypeOK
  <2>2. TypeOK'
    BY <1>1, <1>3, <2>1 DEF IInv, TypeOK, PCs
  <2>3. NewInv'
    BY <1>1, <1>3 DEF IInv, TypeOK, NewInv, Allocating, LockNames
  <2>4. OwnInv'
    BY <1>1, <1>3 DEF IInv, TypeOK, OwnInv, Attached, Set
  <2>5. LabelInv'
    <3>1. \A o \in Mounts : pc'[o] # "idle" => label'[o] \in Labels
      BY <1>1, <1>3 DEF IInv, TypeOK, LabelInv
    <3>2. \A o \in Mounts : pc'[o] \in Set /\ o # m =>
            /\ pc[o] \in Set /\ fsprivate[o] \in Volumes /\ fsprivate[o] # v
            /\ ready'[fsprivate[o]] = ready[fsprivate[o]]
            /\ volume_label'[fsprivate[o]] = volume_label[fsprivate[o]]
      <4>. SUFFICES ASSUME NEW o \in Mounts, pc'[o] \in Set, o # m
                    PROVE  /\ pc[o] \in Set /\ fsprivate[o] \in Volumes /\ fsprivate[o] # v
                           /\ ready'[fsprivate[o]] = ready[fsprivate[o]]
                           /\ volume_label'[fsprivate[o]] = volume_label[fsprivate[o]]
        OBVIOUS
      <4>1. pc[o] \in Set /\ pc[o] # "idle"
        BY <1>3 DEF IInv, TypeOK, Set
      <4>2. fsprivate[o] \in Volumes /\ fsprivate[o] # v
        BY <4>1, <1>2 DEF IInv, TypeOK, OwnInv, Attached
      <4>. QED  BY <4>1, <4>2, <2>1
    <3>3. \A o \in Mounts : pc'[o] \in Set => ready'[fsprivate[o]] /\ volume_label'[fsprivate[o]] = label[o]
      <4>. TAKE o \in Mounts
      <4>1. CASE o = m
        BY <4>1, <1>3, <2>1 DEF IInv, TypeOK, Set, v
      <4>2. CASE o # m
        BY <4>2, <3>2 DEF IInv, LabelInv
      <4>. QED  BY <4>1, <4>2
    <3>. QED  BY <1>1, <3>1, <3>3 DEF LabelInv
  <2>6. LockInv'
    <3>1. NoOrphanLocks' /\ \A o \in Mounts : has_root'[o] => pc'[o] = "mounted"
      BY <1>1, <1>3 DEF IInv, TypeOK, LockInv, NoOrphanLocks
    <3>2. \A o \in Mounts : new[o] # NULL => o # m /\ pc'[o] = pc[o]
      BY <1>1, <1>3 DEF IInv, TypeOK, NewInv, Allocating, LockNames
    <3>3. \A o \in Mounts : pc'[o] \in Attached => pc[o] \in Attached /\ (pc'[o] # "mounted" => pc[o] # "mounted")
      BY <1>1, <1>3 DEF IInv, TypeOK, Attached, Set
    <3>. QED  BY <1>1, <3>1, <3>2, <3>3 DEF IInv, LockInv
  <2>. QED  BY <2>2, <2>3, <2>4, <2>5, <2>6 DEF IInv
<1>4. bug \in Bugs /\ "freed lock" \in Bugs
  BY DEF IInv, TypeOK, Bugs
<1>5. CASE UseLock(fsprivate[m], "lock") /\ Goto(m, "setup_vfs")
  <2>1. bug' \in Bugs /\ pc' = [pc EXCEPT ![m] = "setup_vfs"]
    BY <1>4, <1>5 DEF UseLock, Goto
  <2>2. /\ volume_label' = [volume_label EXCEPT ![v] = label[m]]
        /\ ready' = [ready EXCEPT ![v] = TRUE]
    BY <1>5 DEF Setup, Goto, IInv, TypeOK, v
  <2>. QED  BY <1>3, <2>1, <2>2
<1>6. CASE Goto(m, "error") /\ UNCHANGED <<volume_label, ready, bug>>
  BY <1>3, <1>4, <1>6 DEF Goto
<1>. QED  BY <1>5, <1>6 DEF Setup

\* The steps that leave the structures alone.
LEMMA MoveSteps ==
  ASSUME IInv, NEW m \in Mounts,
         SetupVfs(m) \/ TestUrl(m) \/ PrintUrl(m) \/ CopyUrl(m) \/ MountDone(m) \/ VfsStart(m)
  PROVE  IInv'
<1>1. bug \in Bugs /\ {"BUG_ON", "freed lock"} \subseteq Bugs /\ url \in Labels \cup {"?"}
      /\ mntfrom \in [Mounts -> Labels \cup {NULL, "?", "torn"}]
  BY DEF IInv, TypeOK, Bugs
<1>2. CASE SetupVfs(m)
  <2>1. bug' \in Bugs
    BY <1>1, <1>2 DEF SetupVfs, VolumeGetAttr, UseLock
  <2>. QED  BY <1>1, <1>2, <2>1, MoveStep DEF SetupVfs, Goto, Set
<1>3. CASE TestUrl(m)
  <2>1. CASE pc' = [pc EXCEPT ![m] = "url_print"]
    BY <1>1, <1>3, <2>1, MoveStep DEF TestUrl, Set
  <2>2. CASE pc' = [pc EXCEPT ![m] = "url_copy"]
    BY <1>1, <1>3, <2>2, MoveStep DEF TestUrl, Set
  <2>. QED  BY <1>3, <2>1, <2>2 DEF TestUrl, Goto
<1>4. CASE PrintUrl(m)
  <2>1. volume_label[fsprivate[m]] \in Labels
    BY <1>4 DEF PrintUrl, IInv, LabelInv, Set
  <2>. QED  BY <1>1, <1>4, <2>1, MoveStep DEF PrintUrl, Goto, Set
<1>5. CASE CopyUrl(m)
  <2>1. mntfrom' \in [Mounts -> Labels \cup {NULL, "?", "torn"}]
    BY <1>1, <1>5 DEF CopyUrl
  <2>. QED  BY <1>1, <1>5, <2>1, MoveStep DEF CopyUrl, Goto, Set
<1>6. CASE MountDone(m)
  <2>1. CASE force[m]
    BY <1>1, <1>6, <2>1, MoveStep DEF MountDone, Goto, Set
  <2>2. CASE ~force[m]
    BY <1>1, <1>6, <2>2, MoveStep DEF MountDone, Goto, Set
  <2>. QED  BY <2>1, <2>2
<1>7. CASE VfsStart(m)
  BY <1>1, <1>7, MoveStep DEF VfsStart, Goto, Set
<1>. QED  BY <1>2, <1>3, <1>4, <1>5, <1>6, <1>7
-----------------------------------------------------------------------------
(* Unmounts, and what else enters a mounted volume.                        *)

\* lustre_vfsop_unmount takes one reference of the mount's volume and no other's,
\* and frees locks only with the last.
LEMMA UnmountFacts ==
  ASSUME IInv, NEW m \in Mounts, Unmount(m)
  PROVE  /\ UNCHANGED <<new, label, force, fsprivate, mntfrom, mem, mount_point,
                        ready, volume_label, url>>
         /\ has_root' = [has_root EXCEPT ![m] = FALSE]
         /\ bug' \in Bugs
         /\ ref_count' \in [Volumes -> Int]
         /\ locks' \in [Volumes -> [LockNames -> {"null", "valid", "freed"}]]
         /\ \A v \in Volumes, n \in LockNames : locks'[v][n] = "valid" => locks[v][n] = "valid"
         /\ \A v \in Volumes : v # fsprivate[m] => ref_count'[v] = ref_count[v] /\ locks'[v] = locks[v]
         /\ fsprivate[m] # NULL =>
              /\ ref_count'[fsprivate[m]] = ref_count[fsprivate[m]] - 1
              /\ ref_count[fsprivate[m]] > 0 => locks'[fsprivate[m]] = locks[fsprivate[m]]
<1>1. /\ UNCHANGED <<new, label, force, fsprivate, mntfrom, mount_point, ready,
                     volume_label, url>>
      /\ has_root' = [has_root EXCEPT ![m] = FALSE]
      /\ UNCHANGED mem
  BY DEF Unmount, RefCountDec
<1>2. bug' \in Bugs
  BY DEF Unmount, IInv, TypeOK, Bugs
<1>3. CASE fsprivate[m] = NULL
  <2>1. UNCHANGED <<ref_count, locks>>
    BY <1>3 DEF Unmount
  <2>. QED  BY <1>1, <1>2, <1>3, <2>1 DEF IInv, TypeOK
<1>4. CASE fsprivate[m] # NULL
  <2>. DEFINE v == fsprivate[m]
  <2>1. v \in Volumes
    BY <1>4 DEF IInv, TypeOK
  <2>2. /\ ref_count' = [ref_count EXCEPT ![v] = @ - 1]
        /\ IF ref_count[v] = 0
           THEN locks' = [locks EXCEPT ![v]["root_lock"] = "freed", ![v]["stats_lock"] = "freed"]
           ELSE UNCHANGED locks
    BY <1>4 DEF Unmount, RefCountDec
  <2>. HIDE DEF v
  <2>3. /\ ref_count' \in [Volumes -> Int]
        /\ ref_count'[v] = ref_count[v] - 1
        /\ \A u \in Volumes : u # v => ref_count'[u] = ref_count[u]
    BY <2>1, <2>2 DEF IInv, TypeOK
  <2>4. /\ locks' \in [Volumes -> [LockNames -> {"null", "valid", "freed"}]]
        /\ \A u \in Volumes, n \in LockNames : locks'[u][n] = "valid" => locks[u][n] = "valid"
        /\ \A u \in Volumes : u # v => locks'[u] = locks[u]
        /\ ref_count[v] > 0 => locks'[v] = locks[v]
    <3>1. CASE ref_count[v] = 0
      <4>. DEFINE left == [locks[v] EXCEPT !["root_lock"] = "freed", !["stats_lock"] = "freed"]
      <4>1. locks[v] \in [LockNames -> {"null", "valid", "freed"}]
        BY <2>1 DEF IInv, TypeOK
      <4>2. /\ left \in [LockNames -> {"null", "valid", "freed"}]
            /\ \A n \in LockNames : left[n] = "valid" => locks[v][n] = "valid"
        BY <4>1
      <4>3. locks' = [locks EXCEPT ![v] = left]
        BY <2>2, <3>1, <2>1 DEF IInv, TypeOK
      <4>. HIDE DEF left
      <4>. QED  BY <2>1, <3>1, <4>2, <4>3 DEF IInv, TypeOK
    <3>2. CASE ref_count[v] # 0
      BY <2>1, <2>2, <3>2 DEF IInv, TypeOK
    <3>. QED  BY <3>1, <3>2
  <2>. QED  BY <1>1, <1>2, <1>4, <2>3, <2>4 DEF v
<1>. QED  BY <1>3, <1>4

\* The end of a mount, failed or not.
LEMMA ReleaseStep ==
  ASSUME IInv, NEW m \in Mounts, MountError(m) \/ VfsUnmount(m)
  PROVE  IInv'
<1>1. pc[m] \in {"error", "mounted"} /\ pc' = [pc EXCEPT ![m] = "idle"] /\ Unmount(m)
  BY DEF MountError, VfsUnmount, Goto
<1>2. TypeOK'
  <2>1. /\ UNCHANGED <<new, label, force, fsprivate, mntfrom, mem, mount_point,
                       ready, volume_label, url>>
        /\ has_root' \in [Mounts -> BOOLEAN]
        /\ bug' \in Bugs
        /\ ref_count' \in [Volumes -> Int]
        /\ locks' \in [Volumes -> [LockNames -> {"null", "valid", "freed"}]]
    <3>1. has_root \in [Mounts -> BOOLEAN]
      BY DEF IInv, TypeOK
    <3>. QED  BY <1>1, <3>1, UnmountFacts
  <2>. QED  BY <1>1, <2>1 DEF IInv, TypeOK, PCs
<1>3. NewInv'
  BY <1>1, UnmountFacts DEF IInv, TypeOK, NewInv, Allocating, LockNames
<1>4. OwnInv'
  BY <1>1, UnmountFacts DEF IInv, TypeOK, OwnInv, Attached, Set
<1>5. LabelInv'
  BY <1>1, UnmountFacts DEF IInv, TypeOK, LabelInv, Set
<1>6. LockInv'
  <2>1. NoOrphanLocks'
    BY UnmountFacts, <1>1 DEF IInv, LockInv, NoOrphanLocks
  <2>2. \A o \in Mounts : has_root'[o] => pc'[o] = "mounted"
    BY UnmountFacts, <1>1 DEF IInv, TypeOK, LockInv
  <2>3. \A o \in Mounts : new[o] # NULL =>
          o # m /\ pc'[o] = pc[o] /\ new[o] \in Volumes /\ new[o] # fsprivate[m]
    <3>1. \A o \in Mounts : new[o] # NULL => new[o] \in Volumes /\ mount_point[new[o]] = NULL
      BY DEF IInv, TypeOK, NewInv
    <3>2. fsprivate[m] # NULL => mount_point[fsprivate[m]] = m
      BY <1>1 DEF IInv, OwnInv
    <3>3. \A o \in Mounts : new[o] # NULL => o # m /\ pc'[o] = pc[o]
      BY <1>1 DEF IInv, TypeOK, NewInv, Allocating, LockNames
    <3>. QED  BY <3>1, <3>2, <3>3, VolumeAssumption
  <2>4. \A o \in Mounts : pc'[o] \in Attached =>
          o # m /\ pc'[o] = pc[o] /\ fsprivate[o] \in Volumes /\ fsprivate[o] # fsprivate[m]
    BY <1>1 DEF IInv, TypeOK, OwnInv, Attached, Set
  <2>5. \A o \in Mounts : new'[o] # NULL =>
          /\ ref_count'[new'[o]] = 1
          /\ pc'[o] \in {"root_lock", "stats_lock"} => locks'[new'[o]].lock = "valid"
          /\ pc'[o] = "stats_lock" => locks'[new'[o]].root_lock = "valid"
    BY <1>1, <2>3, UnmountFacts DEF IInv, LockInv
  <2>6. \A o \in Mounts : pc'[o] \in Attached =>
          /\ pc'[o] # "mounted" => ref_count'[fsprivate'[o]] = 1
          /\ ref_count'[fsprivate'[o]] >= 1 - MaxUpdates
          /\ ref_count'[fsprivate'[o]] >= 0 =>
               \A n \in LockNames : locks'[fsprivate'[o]][n] = "valid"
    BY <1>1, <2>4, UnmountFacts DEF IInv, LockInv
  <2>. QED  BY <2>1, <2>2, <2>5, <2>6 DEF LockInv
<1>. QED  BY <1>2, <1>3, <1>4, <1>5, <1>6 DEF IInv

LEMMA UpdateStep == ASSUME IInv, NEW m \in Mounts, Update(m), ~NoData PROVE IInv'
<1>1. pc[m] = "mounted" /\ ref_count[fsprivate[m]] > 1 - MaxUpdates /\ UNCHANGED pc /\ Unmount(m)
  BY DEF Update
<1>2. TypeOK'
  <2>1. /\ UNCHANGED <<new, label, force, fsprivate, mntfrom, mem, mount_point,
                       ready, volume_label, url>>
        /\ has_root' \in [Mounts -> BOOLEAN]
        /\ bug' \in Bugs
        /\ ref_count' \in [Volumes -> Int]
        /\ locks' \in [Volumes -> [LockNames -> {"null", "valid", "freed"}]]
    <3>1. has_root \in [Mounts -> BOOLEAN]
      BY DEF IInv, TypeOK
    <3>. QED  BY <1>1, <3>1, UnmountFacts
  <2>. QED  BY <1>1, <2>1 DEF IInv, TypeOK
<1>3. NewInv' /\ OwnInv'
  BY <1>1, UnmountFacts DEF IInv, NewInv, OwnInv
<1>4. LabelInv'
  BY <1>1, UnmountFacts DEF IInv, LabelInv
<1>5. LockInv'
  <2>. DEFINE v == fsprivate[m]
  <2>1. v # NULL /\ v \in Volumes /\ mount_point[v] = m /\ ref_count[v] \in Int
    BY <1>1 DEF IInv, TypeOK, OwnInv, Attached, Set
  <2>2. \A o \in Mounts : new[o] # NULL => new[o] \in Volumes /\ new[o] # v
    BY <2>1, VolumeAssumption DEF IInv, TypeOK, NewInv
  <2>3. \A o \in Mounts : pc[o] \in Attached /\ o # m => fsprivate[o] \in Volumes /\ fsprivate[o] # v
    BY <2>1 DEF IInv, TypeOK, OwnInv, Attached, Set
  <2>4. /\ ref_count'[v] = ref_count[v] - 1
        /\ ref_count[v] > 0 => locks'[v] = locks[v]
    BY <1>1, <2>1, UnmountFacts
  <2>. HIDE DEF v
  <2>5. NoOrphanLocks'
    BY UnmountFacts, <1>1 DEF IInv, LockInv, NoOrphanLocks
  <2>6. \A o \in Mounts : has_root'[o] => pc'[o] = "mounted"
    <3>1. has_root' = [has_root EXCEPT ![m] = FALSE]
      BY <1>1, UnmountFacts
    <3>. QED  BY <1>1, <3>1 DEF IInv, TypeOK, LockInv
  <2>7. \A o \in Mounts : new'[o] # NULL =>
          /\ ref_count'[new'[o]] = 1
          /\ pc'[o] \in {"root_lock", "stats_lock"} => locks'[new'[o]].lock = "valid"
          /\ pc'[o] = "stats_lock" => locks'[new'[o]].root_lock = "valid"
    BY <1>1, <2>2, UnmountFacts DEF IInv, LockInv, v
  <2>8. \A o \in Mounts : pc'[o] \in Attached =>
          /\ pc'[o] # "mounted" => ref_count'[fsprivate'[o]] = 1
          /\ ref_count'[fsprivate'[o]] >= 1 - MaxUpdates
          /\ ref_count'[fsprivate'[o]] >= 0 =>
               \A n \in LockNames : locks'[fsprivate'[o]][n] = "valid"
    <3>. SUFFICES ASSUME NEW o \in Mounts, pc[o] \in Attached
                  PROVE  /\ pc[o] # "mounted" => ref_count'[fsprivate[o]] = 1
                         /\ ref_count'[fsprivate[o]] >= 1 - MaxUpdates
                         /\ ref_count'[fsprivate[o]] >= 0 =>
                              \A n \in LockNames : locks'[fsprivate[o]][n] = "valid"
      BY <1>1, UnmountFacts
    <3>1. CASE o = m
      <4>1. ref_count'[v] >= 1 - MaxUpdates
        BY <1>1, <2>1, <2>4, VolumeAssumption DEF v
      <4>2. ref_count'[v] >= 0 => \A n \in LockNames : locks'[v][n] = "valid"
        BY <1>1, <2>1, <2>4 DEF IInv, LockInv, Attached, Set, v
      <4>. QED  BY <1>1, <3>1, <4>1, <4>2 DEF v
    <3>2. CASE o # m
      <4>1. ref_count'[fsprivate[o]] = ref_count[fsprivate[o]] /\ locks'[fsprivate[o]] = locks[fsprivate[o]]
        BY <1>1, <2>3, <3>2, UnmountFacts DEF v
      <4>. QED  BY <4>1 DEF IInv, LockInv
    <3>. QED  BY <3>1, <3>2
  <2>. QED  BY <2>5, <2>6, <2>7, <2>8 DEF LockInv
<1>. QED  BY <1>2, <1>3, <1>4, <1>5 DEF IInv

LEMMA EntryStep ==
  ASSUME IInv, NEW m \in Mounts, Root(m) \/ Reclaim(m) \/ GetAttr(m)
  PROVE  IInv'
<1>1. pc[m] = "mounted"
  BY DEF Root, Reclaim, GetAttr
<1>2. UNCHANGED <<pc, new, label, force, fsprivate, mntfrom, url,
                  mem, mount_point, ready, volume_label, ref_count, locks>>
  BY DEF Root, Reclaim, GetAttr, mountVars, volumeVars
<1>3. \E b \in BOOLEAN : has_root' = [has_root EXCEPT ![m] = b]
  <2>1. has_root = [has_root EXCEPT ![m] = has_root[m]] /\ has_root[m] \in BOOLEAN
    BY DEF IInv, TypeOK
  <2>. QED  BY <2>1 DEF Root, Reclaim, GetAttr, mountVars
<1>4. bug' \in Bugs
  BY DEF Root, Reclaim, GetAttr, VolumeGetAttr, UseLock, IInv, TypeOK, Bugs
<1>5. TypeOK'
  BY <1>2, <1>3, <1>4 DEF IInv, TypeOK
<1>6. NewInv' /\ OwnInv'
  BY <1>2 DEF IInv, NewInv, OwnInv
<1>7. LabelInv'
  BY <1>2 DEF IInv, LabelInv
<1>8. LockInv'
  <2>1. \A o \in Mounts : has_root'[o] => pc'[o] = "mounted"
    BY <1>1, <1>2, <1>3 DEF IInv, TypeOK, LockInv
  <2>. QED  BY <1>2, <2>1 DEF IInv, LockInv, NoOrphanLocks
<1>. QED  BY <1>5, <1>6, <1>7, <1>8 DEF IInv
-----------------------------------------------------------------------------
(* The theorems.                                                           *)

LEMMA StepIInv == IInv /\ [Next]_vars => IInv'
<1>. SUFFICES ASSUME IInv, [Next]_vars PROVE IInv'
  OBVIOUS
<1>1. CASE UNCHANGED vars
  <2>1. UNCHANGED <<pc, new, label, force, fsprivate, mntfrom, has_root, url, bug,
                    mem, mount_point, ready, volume_label, ref_count, locks>>
    BY <1>1 DEF vars, mountVars, volumeVars
  <2>2. TypeOK'
    BY <2>1 DEF IInv, TypeOK
  <2>3. NewInv' /\ OwnInv' /\ LabelInv'
    BY <2>1 DEF IInv, NewInv, OwnInv, LabelInv
  <2>4. LockInv'
    BY <2>1 DEF IInv, LockInv, NoOrphanLocks
  <2>. QED  BY <2>2, <2>3, <2>4 DEF IInv
<1>2. ASSUME NEW m \in Mounts, MountStep(m) PROVE IInv'
  BY <1>2, NoDataStep, MountCallStep, AllocVolumeStep, AllocLockStep, AllocErrorStep, SetupStep,
     MoveSteps, ReleaseStep DEF MountStep
<1>3. ASSUME NEW m \in Mounts, Entry(m) PROVE IInv'
  BY <1>3, NoDataStep, UpdateStep, ReleaseStep, EntryStep DEF Entry
<1>. QED  BY <1>1, <1>2, <1>3 DEF Next, Halted

\* IInv holds in every reachable state of the mounts and their structures.
THEOREM Invariance == Spec => []IInv
  BY InitIInv, StepIInv, PTL DEF Spec

\* The variables keep their types, whatever the mounts, addresses and labels.
THEOREM TypeCorrect == Spec => []TypeOK
<1>1. IInv => TypeOK
  BY DEF IInv
<1>. QED  BY <1>1, Invariance, PTL

\* However mounts interleave and fail, a mount that has a volume has one of its own
\* (volume.c:147-159 asserts it at every entry without taking a lock).
THEOREM Owned == Spec => []OwnVolume
<1>1. IInv => OwnVolume
  <2>. SUFFICES ASSUME IInv, NEW m \in Mounts
                PROVE  /\ pc[m] \in Attached => Peekable(m) /\ mem[fsprivate[m]] = "allocated"
                       /\ pc[m] = "mounted" => /\ ready[fsprivate[m]]
                                               /\ volume_label[fsprivate[m]] = label[m]
    BY DEF OwnVolume, Attached, Set
  <2>1. pc[m] \in Attached => Peekable(m) /\ mem[fsprivate[m]] = "allocated"
    BY DEF IInv, OwnInv, Attached, Set, Peekable
  <2>2. pc[m] = "mounted" => ready[fsprivate[m]] /\ volume_label[fsprivate[m]] = label[m]
    BY DEF IInv, LabelInv, Set
  <2>. QED  BY <2>1, <2>2
<1>. QED  BY <1>1, Invariance, PTL

\* However far an allocation came, its clean-up frees every lock it had made
\* (volume.c:81-107).
THEOREM NoOrphans == Spec => []NoOrphanLocks
<1>1. IInv => NoOrphanLocks
  BY DEF IInv, LockInv
<1>. QED  BY <1>1, Invariance, PTL

\* The stops that are not for a volume's state.
Excepted == {"null dereference", "no data", "no vnode"}

LEMMA SafeStep ==
  ASSUME MaxUpdates <= 1, IInv, EntriesAreSafe, [Next]_vars
  PROVE  EntriesAreSafe'
<1>1. \A m \in Mounts : pc[m] \in Attached =>
        /\ Peekable(m)
        /\ locks[fsprivate[m]].lock = "valid" /\ locks[fsprivate[m]].root_lock = "valid"
  <2>1. \A m \in Mounts : pc[m] \in Attached => Peekable(m) /\ fsprivate[m] \in Volumes
    <3>1. \A m \in Mounts : pc[m] \in Attached => pc[m] # "idle" /\ fsprivate[m] # NULL
      BY DEF IInv, OwnInv, Attached, Set
    <3>2. \A m \in Mounts : pc[m] \in Attached => fsprivate[m] \in Volumes
      BY <3>1 DEF IInv, TypeOK
    <3>3. \A m \in Mounts : pc[m] \in Attached => Peekable(m)
      BY <3>1 DEF IInv, OwnInv, Peekable
    <3>. QED  BY <3>2, <3>3
  <2>2. \A m \in Mounts : pc[m] \in Attached => ref_count[fsprivate[m]] >= 0
    <3>1. \A m \in Mounts : pc[m] \in Attached => ref_count[fsprivate[m]] \in Int
      BY <2>1 DEF IInv, TypeOK
    <3>2. \A m \in Mounts : pc[m] \in Attached => ref_count[fsprivate[m]] >= 1 - MaxUpdates
      BY DEF IInv, LockInv
    <3>3. 1 - MaxUpdates >= 0 /\ 1 - MaxUpdates \in Int
      BY VolumeAssumption DEF VolumeAssumption
    <3>. QED  BY <3>1, <3>2, <3>3
  <2>3. \A m \in Mounts : pc[m] \in Attached => \A n \in LockNames : locks[fsprivate[m]][n] = "valid"
    BY <2>2 DEF IInv, LockInv
  <2>. QED  BY <2>1, <2>3 DEF LockNames
<1>2. \A m \in Mounts : has_root[m] => pc[m] = "mounted"
  BY DEF IInv, LockInv
<1>3. CASE bug' = bug \/ bug' \in Excepted
  BY <1>3 DEF EntriesAreSafe, Excepted
<1>4. ASSUME NEW m \in Mounts, MountStep(m), bug' # bug, bug' \notin Excepted PROVE FALSE
  <2>. USE DEF EntriesAreSafe
  <2>1. CASE MountCall(m) \/ AllocVolume(m) \/ AllocLock(m) \/ AllocError(m)
             \/ TestUrl(m) \/ PrintUrl(m) \/ CopyUrl(m) \/ MountDone(m)
    BY <1>4, <2>1 DEF MountCall, NoData, AllocVolume, AllocLock, AllocError, TestUrl, PrintUrl,
                      CopyUrl, MountDone, Excepted
  <2>2. CASE Setup(m)
    BY <1>1, <1>4, <2>2 DEF Setup, UseLock, Attached
  <2>3. CASE SetupVfs(m)
    BY <1>1, <1>2, <1>4, <2>3, VolumeAssumption DEF SetupVfs, VolumeGetAttr, UseLock, Attached, Set, Peekable
  <2>4. CASE VfsStart(m)
    BY <1>1, <1>4, <2>4 DEF VfsStart, Attached, Set
  <2>5. CASE MountError(m)
    BY <1>2, <1>4, <2>5 DEF MountError, Unmount
  <2>. QED  BY <1>4, <2>1, <2>2, <2>3, <2>4, <2>5 DEF MountStep
<1>5. ASSUME NEW m \in Mounts, Entry(m), bug' # bug, bug' \notin Excepted PROVE FALSE
  <2>. USE DEF EntriesAreSafe
  <2>1. pc[m] = "mounted" /\ pc[m] \in Attached
    BY <1>5 DEF Entry, Update, VfsUnmount, Root, Reclaim, GetAttr, Attached, Set
  <2>2. CASE Update(m) \/ VfsUnmount(m)
    BY <1>1, <1>5, <2>1, <2>2 DEF Update, NoData, VfsUnmount, Unmount, Excepted
  <2>3. CASE Root(m)
    BY <1>1, <1>5, <2>1, <2>3 DEF Root, Excepted
  <2>4. CASE Reclaim(m)
    BY <1>1, <1>5, <2>1, <2>4 DEF Reclaim, UseLock
  <2>5. CASE GetAttr(m)
    BY <1>1, <1>5, <2>1, <2>5 DEF GetAttr, VolumeGetAttr, UseLock
  <2>. QED  BY <1>5, <2>2, <2>3, <2>4, <2>5 DEF Entry
<1>6. CASE UNCHANGED vars
  BY <1>6 DEF vars, EntriesAreSafe
<1>. QED  BY <1>3, <1>4, <1>5, <1>6 DEF Next, Halted

\* As long as no volume is refused a second update (vfsop.c:253, 289-292), no entry uses
\* a lock that was freed or never made, and none finds a volume that is not the mount's
\* own (volume.c:155-156) or not as it was set up (mount.c:246-247), however the mounts
\* interleave and fail.  Nothing is said of data, vnode_create and OSMalloc.
THEOREM SafeEntries == MaxUpdates <= 1 /\ Spec => []EntriesAreSafe
<1>. SUFFICES ASSUME MaxUpdates <= 1 PROVE Spec => []EntriesAreSafe
  OBVIOUS
<1>1. Init => EntriesAreSafe
  BY DEF Init, EntriesAreSafe
<1>2. IInv /\ EntriesAreSafe /\ [Next]_vars => EntriesAreSafe'
  BY SafeStep
<1>. QED  BY <1>1, <1>2, Invariance, PTL DEF Spec
=============================================================================
