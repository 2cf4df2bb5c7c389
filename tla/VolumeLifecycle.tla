-------------------------- MODULE VolumeLifecycle --------------------------
(***************************************************************************)
(* The life of the volume structures: allocation with its three locks,     *)
(* the steps of lustre_vfsop_mount with every failure, refused updates,    *)
(* unmounts, the reference count, and the URL buffer that all mounts       *)
(* share.  The file system is registered as thread safe (lustre.c:139), so *)
(* mounts of different mount points interleave.  The protocol on the root  *)
(* vnode is RootVnode's; here a root vnode is there or not, and each use   *)
(* of a lock asks whether the lock still exists.                           *)
(***************************************************************************)
EXTENDS Integers

CONSTANTS Mounts,      \* mount points (mount_t)
          Volumes,     \* addresses a volume structure can be allocated at
          Labels,      \* labels of volumes, as in the mount arguments
          NULL,        \* the null pointer, and no label
          MaxUpdates   \* bound: mount updates tried on one volume

ASSUME VolumeAssumption ==
         /\ NULL \notin Mounts \cup Volumes \cup Labels
         /\ MaxUpdates \in Nat

LockNames == {"lock", "root_lock", "stats_lock"}

VARIABLES
  pc,          \* where the mount call of each mount point is
  new,         \* the structure lustre_volume_alloc is working on
  label,       \* the mount arguments of the call
  force,       \* mount_args.force_failure of the call
  fsprivate,   \* vfs_fsprivate(mp)
  mntfrom,     \* statfs->f_mntfromname
  has_root,    \* the mount has a root vnode
  mem,         \* is there a structure at the address?
  mount_point, ready, volume_label, ref_count,    \* its fields
  locks,       \* its lock pointers: to nothing, a lock, or freed memory
  url,         \* the static buffer of lustre_volume_url, "?" before its use
  bug          \* the panic or memory error that stopped the machine, or "no"

mountVars  == <<pc, new, label, force, fsprivate, mntfrom, has_root>>
volumeVars == <<mem, mount_point, ready, volume_label, ref_count, locks>>
vars == <<mountVars, volumeVars, url, bug>>

\* A call is at "alloc", then at the lock it allocates next, and so on to
\* "mounted"; "alloc_error" and "error" are the two clean-up paths.
PCs == {"idle", "alloc", "alloc_error", "setup", "setup_vfs", "url",
        "url_print", "url_copy", "done", "start", "error", "mounted"} \cup LockNames

\* "no data", "no vnode" and "BUG_ON" are LUSTRE_BUG_ONs: the user's data is NULL
\* (vfsop.c:244), vnode_create fails (vfsop.c:123), a volume is not what it should be.
Bugs == {"no", "null dereference", "no data", "no vnode", "freed lock", "BUG_ON"}

TypeOK ==
  /\ pc \in [Mounts -> PCs]
  /\ new \in [Mounts -> Volumes \cup {NULL}]
  /\ label \in [Mounts -> Labels \cup {NULL}]
  /\ force \in [Mounts -> BOOLEAN]
  /\ fsprivate \in [Mounts -> Volumes \cup {NULL}]
  /\ mntfrom \in [Mounts -> Labels \cup {NULL, "?", "torn"}]
  /\ has_root \in [Mounts -> BOOLEAN]
  /\ mem \in [Volumes -> {"free", "allocated"}]
  /\ mount_point \in [Volumes -> Mounts \cup {NULL}]
  /\ ready \in [Volumes -> BOOLEAN]
  /\ volume_label \in [Volumes -> Labels \cup {NULL}]
  /\ ref_count \in [Volumes -> Int]
  /\ locks \in [Volumes -> [LockNames -> {"null", "valid", "freed"}]]
  /\ url \in Labels \cup {"?"}
  /\ bug \in Bugs

Init ==
  /\ pc = [m \in Mounts |-> "idle"]
  /\ new = [m \in Mounts |-> NULL]
  /\ label = [m \in Mounts |-> NULL]
  /\ force = [m \in Mounts |-> FALSE]
  /\ fsprivate = [m \in Mounts |-> NULL]
  /\ mntfrom = [m \in Mounts |-> NULL]
  /\ has_root = [m \in Mounts |-> FALSE]
  /\ mem = [v \in Volumes |-> "free"]
  /\ mount_point = [v \in Volumes |-> NULL]
  /\ ready = [v \in Volumes |-> FALSE]
  /\ volume_label = [v \in Volumes |-> NULL]
  /\ ref_count = [v \in Volumes |-> 0]
  /\ locks = [v \in Volumes |-> [n \in LockNames |-> "null"]]
  /\ url = "?"
  /\ bug = "no"

Goto(m, where) == pc' = [pc EXCEPT ![m] = where]

\* A lock is taken and given back within the action, as by the getters of the
\* volume: it must exist.
UseLock(v, n) == bug' = IF locks[v][n] = "valid" THEN bug ELSE "freed lock"

\* lustre_mount_volume_get_attr: constants, and getters that take volume->lock.
VolumeGetAttr(v) == UseLock(v, "lock")
-----------------------------------------------------------------------------
(* lustre_volume_alloc                                                     *)

\* data, a user's pointer, is NULL: lustre_vfsop_mount stops at its pre-conditions.
NoData == bug' = "no data" /\ UNCHANGED <<mountVars, volumeVars, url>>

\* A new mount_t, zeroed by VFS.
MountCall(m) ==
  /\ pc[m] = "idle"
  /\ \/ /\ Goto(m, "alloc")
        /\ \E l \in Labels : label' = [label EXCEPT ![m] = l]
        /\ \E f \in BOOLEAN : force' = [force EXCEPT ![m] = f]
        /\ fsprivate' = [fsprivate EXCEPT ![m] = NULL]
        /\ mntfrom' = [mntfrom EXCEPT ![m] = NULL]
        /\ UNCHANGED <<new, has_root, volumeVars, url, bug>>
     \/ NoData

\* OSMalloc and bzero; when it fails, "end:" reads volume->stats_lock.
AllocVolume(m) ==
  /\ pc[m] = "alloc"
  /\ \/ \E v \in Volumes :
          /\ mem[v] = "free"
          /\ mem' = [mem EXCEPT ![v] = "allocated"]
          /\ mount_point' = [mount_point EXCEPT ![v] = NULL]
          /\ ready' = [ready EXCEPT ![v] = FALSE]
          /\ volume_label' = [volume_label EXCEPT ![v] = NULL]
          /\ ref_count' = [ref_count EXCEPT ![v] = 1]
          /\ locks' = [locks EXCEPT ![v] = [n \in LockNames |-> "null"]]
          /\ new' = [new EXCEPT ![m] = v]
          /\ Goto(m, "lock")
          /\ UNCHANGED bug
     \/ /\ bug' = "null dereference"
        /\ UNCHANGED <<volumeVars, new, pc>>
  /\ UNCHANGED <<label, force, fsprivate, mntfrom, has_root, url>>

After(n) == CASE n = "lock" -> "root_lock" [] n = "root_lock" -> "stats_lock"

\* One lock after the other.  With the third, the structure is complete and
\* lustre_vfsop_mount attaches it to the mount (vfsop.c:262-263).
AllocLock(m) ==
  /\ pc[m] \in LockNames
  /\ \/ /\ locks' = [locks EXCEPT ![new[m]][pc[m]] = "valid"]
        /\ IF pc[m] = "stats_lock"
           THEN /\ mount_point' = [mount_point EXCEPT ![new[m]] = m]
                /\ fsprivate' = [fsprivate EXCEPT ![m] = new[m]]
                /\ new' = [new EXCEPT ![m] = NULL]
                /\ Goto(m, "setup")
           ELSE /\ Goto(m, After(pc[m]))
                /\ UNCHANGED <<mount_point, fsprivate, new>>
     \/ /\ Goto(m, "alloc_error")
        /\ UNCHANGED <<locks, mount_point, fsprivate, new>>
  /\ UNCHANGED <<label, force, mntfrom, has_root, mem, ready, volume_label,
                 ref_count, url, bug>>

\* Mutant: one lock is forgotten on the error path.
AllocErrorForgets(m) ==
  /\ pc[m] = "alloc_error"
  /\ locks' = [locks EXCEPT ![new[m]].lock = IF @ = "valid" THEN "freed" ELSE @]
  /\ mem' = [mem EXCEPT ![new[m]] = "free"]
  /\ new' = [new EXCEPT ![m] = NULL]
  /\ Goto(m, "error")
  /\ UNCHANGED <<label, force, fsprivate, mntfrom, has_root, mount_point, ready,
                 volume_label, ref_count, url, bug>>

\* "end:" frees the locks that were allocated, and the structure.
AllocError(m) ==
  /\ pc[m] = "alloc_error"
  /\ locks' = [locks EXCEPT ![new[m]] =
                 [n \in LockNames |-> IF @[n] = "valid" THEN "freed" ELSE @[n]]]
  /\ mem' = [mem EXCEPT ![new[m]] = "free"]
  /\ new' = [new EXCEPT ![m] = NULL]
  /\ Goto(m, "error")
  /\ UNCHANGED <<label, force, fsprivate, mntfrom, has_root, mount_point, ready,
                 volume_label, ref_count, url, bug>>
-----------------------------------------------------------------------------
(* lustre_mount_setup and lustre_mount_setup_vfs                           *)

\* Mutant: the volume does not keep the mount arguments.
SetupForgets(m) ==
  /\ pc[m] = "setup"
  /\ \/ /\ UseLock(fsprivate[m], "lock")
        /\ ready' = [ready EXCEPT ![fsprivate[m]] = TRUE]
        /\ Goto(m, "setup_vfs")
     \/ /\ Goto(m, "error")
        /\ UNCHANGED <<ready, bug>>
  /\ UNCHANGED <<new, label, force, fsprivate, mntfrom, has_root, mem, volume_label,
                 mount_point, ref_count, locks, url>>

\* Copies the arguments in, which may fail, and keeps them under volume->lock.
Setup(m) ==
  /\ pc[m] = "setup"
  /\ \/ /\ UseLock(fsprivate[m], "lock")
        /\ volume_label' = [volume_label EXCEPT ![fsprivate[m]] = label[m]]
        /\ ready' = [ready EXCEPT ![fsprivate[m]] = TRUE]
        /\ Goto(m, "setup_vfs")
     \/ /\ Goto(m, "error")
        /\ UNCHANGED <<volume_label, ready, bug>>
  /\ UNCHANGED <<new, label, force, fsprivate, mntfrom, has_root, mem,
                 mount_point, ref_count, locks, url>>

\* Fills in statfs, all but the name, from the volume's attributes.
SetupVfs(m) ==
  /\ pc[m] = "setup_vfs"
  /\ IF has_root[m] \/ mount_point[fsprivate[m]] = NULL
     THEN bug' = "BUG_ON"
     ELSE VolumeGetAttr(fsprivate[m])
  /\ Goto(m, "url")
  /\ UNCHANGED <<new, label, force, fsprivate, mntfrom, has_root, volumeVars, url>>

\* Somebody is writing to the URL buffer.
Printing == \E m \in Mounts : pc[m] = "url_print"

\* lustre_volume_url prints into its static buffer if the buffer still begins
\* with "?"; while another mount prints, either may be read.
TestUrl(m) ==
  /\ pc[m] = "url"
  /\ \/ url = "?" /\ Goto(m, "url_print")
     \/ (url # "?" \/ Printing) /\ Goto(m, "url_copy")
  /\ UNCHANGED <<new, label, force, fsprivate, mntfrom, has_root, volumeVars, url, bug>>

PrintUrl(m) ==
  /\ pc[m] = "url_print"
  /\ url' = volume_label[fsprivate[m]]
  /\ Goto(m, "url_copy")
  /\ UNCHANGED <<new, label, force, fsprivate, mntfrom, has_root, volumeVars, bug>>

\* strlcpy(statfs->f_mntfromname, ...) and the flags.
CopyUrl(m) ==
  /\ pc[m] = "url_copy"
  /\ mntfrom' = [mntfrom EXCEPT ![m] = IF Printing THEN "torn" ELSE url]
  /\ Goto(m, "done")
  /\ UNCHANGED <<new, label, force, fsprivate, has_root, volumeVars, url, bug>>

\* The end of lustre_vfsop_mount, and the failure its caller may ask for.
MountDone(m) ==
  /\ pc[m] = "done"
  /\ Goto(m, IF force[m] THEN "error" ELSE "start")
  /\ UNCHANGED <<new, label, force, fsprivate, mntfrom, has_root, volumeVars, url, bug>>
\* What lustre_volume_peek insists on.
Peekable(m) == fsprivate[m] # NULL /\ mount_point[fsprivate[m]] = m

\* lustre_vfsop_start, which VFS calls next, only peeks.
VfsStart(m) ==
  /\ pc[m] = "start"
  /\ bug' = IF Peekable(m) THEN bug ELSE "BUG_ON"
  /\ Goto(m, "mounted")
  /\ UNCHANGED <<new, label, force, fsprivate, mntfrom, has_root, volumeVars, url>>
-----------------------------------------------------------------------------
(* lustre_vfsop_unmount, called by VFS and by a failing lustre_vfsop_mount *)

\* Mutant: compare the new value, and free the structure too.
RefCountDecNew(v) ==
  /\ ref_count' = [ref_count EXCEPT ![v] = @ - 1]
  /\ IF ref_count[v] = 1
     THEN /\ locks' = [locks EXCEPT ![v] = [n \in LockNames |-> "freed"]]
          /\ mem' = [mem EXCEPT ![v] = "free"]
     ELSE UNCHANGED <<locks, mem>>

\* Mutant: compare the new value.
RefCountDecEarly(v) ==
  /\ ref_count' = [ref_count EXCEPT ![v] = @ - 1]
  /\ IF ref_count[v] = 1
     THEN locks' = [locks EXCEPT ![v].root_lock = "freed", ![v].stats_lock = "freed"]
     ELSE UNCHANGED locks
  /\ UNCHANGED mem

\* OSDecrementAtomic returns the value before the decrement.  lustre_volume_free
\* frees two of the locks, and not the structure.
RefCountDec(v) ==
  /\ ref_count' = [ref_count EXCEPT ![v] = @ - 1]
  /\ IF ref_count[v] = 0
     THEN locks' = [locks EXCEPT ![v].root_lock = "freed", ![v].stats_lock = "freed"]
     ELSE UNCHANGED locks
  /\ UNCHANGED mem

\* vflush reclaims the root vnode (which takes root_lock), then the volume, if
\* there is one, is torn down.  The mount keeps its pointer to it.
Unmount(m) ==
  /\ bug' = IF has_root[m] /\ locks[fsprivate[m]].root_lock # "valid"
            THEN "freed lock" ELSE bug
  /\ has_root' = [has_root EXCEPT ![m] = FALSE]
  /\ IF fsprivate[m] # NULL
     THEN RefCountDec(fsprivate[m])
     ELSE UNCHANGED <<ref_count, locks, mem>>
  /\ UNCHANGED <<new, label, force, fsprivate, mntfrom,
                 mount_point, ready, volume_label, url>>

\* The mount fails; VFS throws the mount_t away.
MountError(m) ==
  /\ pc[m] = "error"
  /\ Unmount(m)
  /\ Goto(m, "idle")

VfsUnmount(m) ==
  /\ pc[m] = "mounted"
  /\ Unmount(m)
  /\ Goto(m, "idle")

\* An update, unless it comes without data, is refused with ENOTSUP, which runs the
\* same clean-up; the volume stays mounted.
Update(m) ==
  /\ pc[m] = "mounted"
  /\ \/ /\ ref_count[fsprivate[m]] > 1 - MaxUpdates
        /\ Unmount(m)
        /\ UNCHANGED pc
     \/ NoData
-----------------------------------------------------------------------------
(* Entries into a mounted volume, through lustre_volume_peek.              *)

\* lustre_vfsop_root, as a whole (RootVnode has its steps): a root vnode that is not
\* there is created, which may fail.
Root(m) ==
  /\ pc[m] = "mounted"
  /\ \/ /\ bug' = CASE ~Peekable(m) -> "BUG_ON"
                    [] locks[fsprivate[m]].root_lock # "valid" -> "freed lock"
                    [] OTHER -> bug
        /\ has_root' = [has_root EXCEPT ![m] = TRUE]
     \/ /\ Peekable(m) /\ locks[fsprivate[m]].root_lock = "valid" /\ ~has_root[m]
        /\ bug' = "no vnode"
        /\ UNCHANGED has_root
  /\ UNCHANGED <<pc, new, label, force, fsprivate, mntfrom, volumeVars, url>>

\* lustre_vnop_reclaim of the root vnode.
Reclaim(m) ==
  /\ pc[m] = "mounted"
  /\ has_root[m]
  /\ UseLock(fsprivate[m], "root_lock")
  /\ has_root' = [has_root EXCEPT ![m] = FALSE]
  /\ UNCHANGED <<pc, new, label, force, fsprivate, mntfrom, volumeVars, url>>

\* lustre_vfsop_getattr only reads.
GetAttr(m) ==
  /\ pc[m] = "mounted"
  /\ IF Peekable(m) THEN VolumeGetAttr(fsprivate[m]) ELSE bug' = "BUG_ON"
  /\ UNCHANGED <<mountVars, volumeVars, url>>
-----------------------------------------------------------------------------
MountStep(m) ==
  \/ MountCall(m) \/ AllocVolume(m) \/ AllocLock(m) \/ AllocError(m)
  \/ Setup(m) \/ SetupVfs(m) \/ TestUrl(m) \/ PrintUrl(m) \/ CopyUrl(m)
  \/ MountDone(m) \/ VfsStart(m) \/ MountError(m)

Entry(m) == Update(m) \/ VfsUnmount(m) \/ Root(m) \/ Reclaim(m) \/ GetAttr(m)

Halted == bug # "no" /\ UNCHANGED vars

Next ==
  \/ bug = "no" /\ \E m \in Mounts : MountStep(m) \/ Entry(m)
  \/ Halted

Spec == Init /\ [][Next]_vars
-----------------------------------------------------------------------------
(* Properties                                                              *)

\* From its allocation to its unmount, a mount has a volume structure of its
\* own, never one that was freed or that another mount took over; once mounted,
\* the volume is ready and carries the label the mount asked for.  This is what
\* lustre_volume_peek (volume.c:147-159) relies on without a lock.
OwnVolume ==
  \A m \in Mounts :
    /\ pc[m] \in {"setup", "setup_vfs", "url", "url_print", "url_copy",
                  "done", "start", "mounted"} =>
         /\ Peekable(m)
         /\ mem[fsprivate[m]] = "allocated"
    /\ pc[m] = "mounted" =>
         /\ ready[fsprivate[m]]
         /\ volume_label[fsprivate[m]] = label[m]

\* However far an allocation came before it failed, and however calls for
\* other mounts interleave with it, no lock outlives its structure.
NoOrphanLocks ==
  \A v \in Volumes : mem[v] = "free" => \A n \in LockNames : locks[v][n] # "valid"

\* However mounts, failures, refused updates and unmounts interleave, no entry uses
\* a lock of a volume that was freed or never made, and none finds another volume than
\* lustre_volume_peek asserts (volume.c:155-156) or one that lustre_mount_setup_vfs
\* does not expect (mount.c:246-247).  The stops that no volume is to blame for are not
\* meant, and each has a name of its own in Bugs: NULL for data (vfsop.c:244), a
\* vnode_create that fails (vfsop.c:123), an OSMalloc that fails (volume.c:81).
\* The run allows one refused update per volume: NoFreedLock says what a second does.
EntriesAreSafe == bug \notin {"BUG_ON", "freed lock"}
-----------------------------------------------------------------------------
(* What the code says and does not do.                                     *)

\* "If we return an error, our unmount vfsop is never called.  Thus, we have
\* to clean up ourselves." (vfsop.c:289): true of a mount, not of an update.
NoFreedLock == bug # "freed lock"

\* "Clean up the file system specific data attached to the mount."
\* (vfsop.c:361): a structure belongs to a mount or to a call that mounts.
VolumesBelongToMounts ==
  \A v \in Volumes : mem[v] = "allocated" =>
    \E m \in Mounts : new[m] = v \/ (pc[m] # "idle" /\ fsprivate[m] = v)
=============================================================================
