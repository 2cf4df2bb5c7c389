----------------------------- MODULE RootVnode -----------------------------
(***************************************************************************)
(* The root vnode of a mounted Lustre volume: how threads obtain it        *)
(* (lustre_vfsop_root), create it when there is none, sleep while another  *)
(* thread creates it, and how the kernel's reclaim takes it away           *)
(* (lustre_vnop_reclaim), around mounts, unmounts and mount updates.       *)
(*                                                                         *)
(* The volume keeps no reference on the vnode (volume.h:50), only a        *)
(* pointer under root_lock that must be re-confirmed with the vnode's      *)
(* identifier each time.  Every step between two acquisitions or releases  *)
(* of root_lock, and every call to the kernel made without it, is an       *)
(* action.  The kernel's side (vnode_create, vnode_getwithvid, vflush,     *)
(* recycling) is modelled from how the code uses it.                       *)
(***************************************************************************)
EXTENDS Naturals

CONSTANTS Threads,   \* the threads that enter the file system
          Vnodes,    \* the vnode structures of the kernel
          NULL,      \* the null pointer; as lock owner, nobody
          MaxVid     \* bound: how often one vnode structure may be reused

ASSUME RootAssumption ==
         /\ NULL \notin Threads \cup Vnodes
         /\ Threads \cap Vnodes = {}
         /\ MaxVid \in Nat

VARIABLES
  \* struct lustre_volume, the fields that root_lock protects
  root_lock,       \* who owns the lock: a thread, or the reclaim of a vnode
  root_attaching,
  root_waiting,
  root_vnode,
  \* lustre_vfsop_get_root_vnode_creating_if_necessary, one call per thread
  pc,
  local_vn,        \* new_vn or candidate_vn
  vid,
  result_vn,       \* once returned, the I/O reference the caller owns
  \* the kernel
  open,            \* open[t]: the vnode thread t has opened
  vstate,          \* where each vnode structure is in its life
  v_id,            \* its identifier, new at each reuse
  fsref,           \* the vnodes with a file system's soft reference
  mount_state,
  panicked         \* why the machine stopped, or "no"

volumeVars == <<root_lock, root_attaching, root_waiting, root_vnode>>
threadVars == <<pc, local_vn, vid, result_vn>>
kernelVars == <<open, vstate, v_id, fsref, mount_state>>
vars == <<root_lock, root_attaching, root_waiting, root_vnode,
          pc, local_vn, vid, result_vn,
          open, vstate, v_id, fsref, mount_state, panicked>>

-----------------------------------------------------------------------------
\* "lock", "install" and "relock" wait for root_lock; "loop", "installing"
\* and "unlock" own it; "create" and "getvnode" are calls to the kernel.
PCs == {"idle", "lock", "loop", "asleep", "create", "install", "installing",
        "getvnode", "relock", "unlock"}

\* "foreign" belongs to another file system.  "draining" waits for the last
\* I/O reference of a forced flush; "terminating" waits for our reclaim, and
\* "detached" for the kernel to make the structure free again.
VStates == {"free", "foreign", "live", "draining", "terminating",
            "detaching", "detached"}

\* "updating" is the forced unmount that lustre_vfsop_mount runs on the
\* mounted volume when it refuses an update (vfsop.c:253-255 and 291-293).
MountStates == {"unmounted", "mounted", "unmounting", "forcing", "updating"}

TypeOK ==
  /\ root_lock \in Threads \cup Vnodes \cup {NULL}
  /\ root_attaching \in BOOLEAN
  /\ root_waiting \in BOOLEAN
  /\ root_vnode \in Vnodes \cup {NULL}
  /\ pc \in [Threads -> PCs]
  /\ local_vn \in [Threads -> Vnodes \cup {NULL}]
  /\ vid \in [Threads -> Nat]
  /\ result_vn \in [Threads -> Vnodes \cup {NULL}]
  /\ open \in [Threads -> Vnodes \cup {NULL}]
  /\ vstate \in [Vnodes -> VStates]
  /\ v_id \in [Vnodes -> Nat]
  /\ fsref \subseteq Vnodes
  /\ mount_state \in MountStates
  /\ panicked \in {"no", "vnode_create", "bug"}

Init ==
  /\ root_lock = NULL
  /\ root_attaching = FALSE
  /\ root_waiting = FALSE
  /\ root_vnode = NULL
  /\ pc = [t \in Threads |-> "idle"]
  /\ local_vn = [t \in Threads |-> NULL]
  /\ vid = [t \in Threads |-> 0]
  /\ result_vn = [t \in Threads |-> NULL]
  /\ open = [t \in Threads |-> NULL]
  /\ vstate = [v \in Vnodes |-> "free"]
  /\ v_id = [v \in Vnodes |-> 0]
  /\ fsref = {}
  /\ mount_state = "unmounted"
  /\ panicked = "no"

-----------------------------------------------------------------------------
Goto(t, label) == pc' = [pc EXCEPT ![t] = label]

\* LUSTRE_BUG_ON: the kernel panics and nothing runs any more.
BugOn(cond) == panicked' = IF cond THEN "bug" ELSE panicked

\* The threads whose I/O reference keeps v from being terminated: the owners
\* of a returned reference, and the thread vnode_create gave v to.
Holders(v) == {t \in Threads : \/ result_vn[t] = v
                               \/ /\ pc[t] \in {"install", "installing"}
                                  /\ local_vn[t] = v}

Openers(v) == {t \in Threads : open[t] = v}

AllIdle == \A t \in Threads : pc[t] = "idle"
-----------------------------------------------------------------------------
(* lustre_vfsop_root and lustre_vfsop_get_root_vnode_creating_if_necessary *)

VfsRoot(t) ==
  /\ mount_state = "mounted"
  /\ pc[t] = "idle"
  /\ result_vn[t] = NULL
  /\ Goto(t, "lock")
  /\ UNCHANGED <<volumeVars, local_vn, vid, result_vn, kernelVars, panicked>>

\* lck_mtx_lock(volume->root_lock), at each of its four places in the function
\* (msleep's own relock is the fourth).
AcquireRootLock(t) ==
  /\ pc[t] \in {"lock", "install", "relock"}
  /\ root_lock = NULL
  /\ root_lock' = t
  /\ Goto(t, CASE pc[t] = "lock" -> "loop"
               [] pc[t] = "install" -> "installing"
               [] pc[t] = "relock" -> "unlock")
  /\ UNCHANGED <<root_attaching, root_waiting, root_vnode,
                 local_vn, vid, result_vn, kernelVars, panicked>>

\* Mutant: sleep without leaving word that somebody sleeps.
WaitUnannounced(t) ==
  /\ pc[t] = "loop"
  /\ root_attaching
  /\ BugOn(result_vn[t] # NULL)
  /\ root_lock' = NULL
  /\ Goto(t, "asleep")
  /\ UNCHANGED <<root_attaching, root_waiting, root_vnode,
                 local_vn, vid, result_vn, kernelVars>>

\* Somebody is creating the root vnode: msleep releases the lock.
WaitForAttach(t) ==
  /\ pc[t] = "loop"
  /\ root_attaching
  /\ BugOn(result_vn[t] # NULL)
  /\ root_waiting' = TRUE
  /\ root_lock' = NULL
  /\ Goto(t, "asleep")
  /\ UNCHANGED <<root_attaching, root_vnode, local_vn, vid, result_vn, kernelVars>>

\* Mutant: drop the lock without claiming the creation.
BeginAttachUnmarked(t) ==
  /\ pc[t] = "loop"
  /\ ~root_attaching
  /\ root_vnode = NULL
  /\ BugOn(result_vn[t] # NULL)
  /\ root_lock' = NULL
  /\ local_vn' = [local_vn EXCEPT ![t] = NULL]
  /\ Goto(t, "create")
  /\ UNCHANGED <<root_attaching, root_waiting, root_vnode, vid, result_vn, kernelVars>>

\* There is no root vnode: claim its creation and drop the lock.
BeginAttach(t) ==
  /\ pc[t] = "loop"
  /\ ~root_attaching
  /\ root_vnode = NULL
  /\ BugOn(result_vn[t] # NULL)
  /\ root_attaching' = TRUE
  /\ root_lock' = NULL
  /\ local_vn' = [local_vn EXCEPT ![t] = NULL]
  /\ Goto(t, "create")
  /\ UNCHANGED <<root_waiting, root_vnode, vid, result_vn, kernelVars>>

\* There is a root vnode: remember it with its identifier, drop the lock.
PickCandidate(t) ==
  /\ pc[t] = "loop"
  /\ ~root_attaching
  /\ root_vnode # NULL
  /\ BugOn(result_vn[t] # NULL)
  /\ local_vn' = [local_vn EXCEPT ![t] = root_vnode]
  /\ vid' = [vid EXCEPT ![t] = v_id[root_vnode]]
  /\ root_lock' = NULL
  /\ Goto(t, "getvnode")
  /\ UNCHANGED <<root_attaching, root_waiting, root_vnode, result_vn, kernelVars>>

\* vnode_create makes a free structure ours; if it fails, the code panics.
CreateRoot(t) ==
  /\ pc[t] = "create"
  /\ \/ \E v \in Vnodes :
          /\ vstate[v] = "free"
          /\ vstate' = [vstate EXCEPT ![v] = "live"]
          /\ local_vn' = [local_vn EXCEPT ![t] = v]
          /\ Goto(t, "install")
          /\ UNCHANGED panicked
     \/ /\ panicked' = "vnode_create"
        /\ UNCHANGED <<vstate, local_vn, pc>>
  /\ UNCHANGED <<volumeVars, vid, result_vn, open, v_id, fsref, mount_state>>

\* Mutant: no wakeup.
StillAsleep == pc

\* wakeup makes every sleeper compete for the lock again.
Woken == [t \in Threads |-> IF pc[t] = "asleep" THEN "lock" ELSE pc[t]]

\* Mutant: vnode_addfsref(root_vnode) before root_vnode is assigned.
InstallRootSwapped(t) ==
  /\ pc[t] = "installing"
  /\ BugOn(root_vnode # NULL \/ ~root_attaching)
  /\ root_vnode' = local_vn[t]
  /\ fsref' = fsref \cup {root_vnode}
  /\ root_attaching' = FALSE
  /\ root_waiting' = FALSE
  /\ result_vn' = [result_vn EXCEPT ![t] = local_vn[t]]
  /\ pc' = [(IF root_waiting THEN Woken ELSE pc) EXCEPT ![t] = "unlock"]
  /\ UNCHANGED <<root_lock, local_vn, vid, open, vstate, v_id, mount_state>>

\* With the lock again: publish the new vnode, end the attach, wake sleepers.
\* (vnode_addfsref itself panics on a vnode that has the soft reference.)
InstallRoot(t) ==
  /\ pc[t] = "installing"
  /\ BugOn(root_vnode # NULL \/ ~root_attaching \/ local_vn[t] \in fsref)
  /\ root_vnode' = local_vn[t]
  /\ fsref' = fsref \cup {local_vn[t]}
  /\ root_attaching' = FALSE
  /\ root_waiting' = FALSE
  /\ result_vn' = [result_vn EXCEPT ![t] = local_vn[t]]
  /\ pc' = [(IF root_waiting THEN Woken ELSE pc) EXCEPT ![t] = "unlock"]
  /\ UNCHANGED <<root_lock, local_vn, vid, open, vstate, v_id, mount_state>>

\* Mutant: vnode_get, which does not look at the identifier.
GetUnchecked(t) ==
  /\ pc[t] = "getvnode"
  /\ vstate[local_vn[t]] \in {"live", "foreign"}
  /\ result_vn' = [result_vn EXCEPT ![t] = local_vn[t]]
  /\ Goto(t, "relock")
  /\ UNCHANGED <<volumeVars, local_vn, vid, kernelVars, panicked>>

\* Mutant: a failed vnode_getwithvid is retried without reading root_vnode again.
GetSameCandidate(t) ==
  /\ pc[t] = "getvnode"
  /\ \/ /\ v_id[local_vn[t]] = vid[t]
        /\ vstate[local_vn[t]] \in {"live", "foreign"}
        /\ result_vn' = [result_vn EXCEPT ![t] = local_vn[t]]
        /\ Goto(t, "relock")
     \/ /\ v_id[local_vn[t]] # vid[t]
        /\ UNCHANGED <<result_vn, pc>>
  /\ UNCHANGED <<volumeVars, local_vn, vid, kernelVars, panicked>>

\* vnode_getwithvid: a structure that was reused has another identifier, and
\* one that is being drained or terminated makes the caller wait.
GetWithVid(t) ==
  /\ pc[t] = "getvnode"
  /\ \/ /\ v_id[local_vn[t]] = vid[t]
        /\ vstate[local_vn[t]] \in {"live", "foreign"}
        /\ result_vn' = [result_vn EXCEPT ![t] = local_vn[t]]
        /\ Goto(t, "relock")
     \/ /\ v_id[local_vn[t]] # vid[t]
        /\ Goto(t, "lock")
        /\ UNCHANGED result_vn
  /\ UNCHANGED <<volumeVars, local_vn, vid, kernelVars, panicked>>

\* Leave the loop and give the I/O reference to the caller of VFS_ROOT.
ReturnRoot(t) ==
  /\ pc[t] = "unlock"
  /\ BugOn(result_vn[t] = NULL)
  /\ root_lock' = NULL
  /\ Goto(t, "idle")
  /\ UNCHANGED <<root_attaching, root_waiting, root_vnode,
                 local_vn, vid, result_vn, kernelVars>>
-----------------------------------------------------------------------------
(* The owner of the reference uses the root directory.                     *)

VnodePut(t) ==
  /\ pc[t] = "idle"
  /\ result_vn[t] # NULL
  /\ result_vn' = [result_vn EXCEPT ![t] = NULL]
  /\ UNCHANGED <<volumeVars, pc, local_vn, vid, kernelVars, panicked>>

\* lustre_vnop_open has nothing to do; VFS takes a use count.
VnopOpen(t) ==
  /\ pc[t] = "idle"
  /\ result_vn[t] # NULL
  /\ open[t] = NULL
  /\ vstate[result_vn[t]] = "live"
  /\ open' = [open EXCEPT ![t] = result_vn[t]]
  /\ UNCHANGED <<volumeVars, threadVars, vstate, v_id, fsref, mount_state, panicked>>

VnopClose(t) ==
  /\ open[t] # NULL
  /\ open' = [open EXCEPT ![t] = NULL]
  /\ UNCHANGED <<volumeVars, threadVars, vstate, v_id, fsref, mount_state, panicked>>

\* "." and ".." of the open root: another I/O reference on the same vnode.
VnopLookup(t) ==
  /\ pc[t] = "idle"
  /\ open[t] # NULL
  /\ result_vn[t] = NULL
  /\ vstate[open[t]] = "live"
  /\ result_vn' = [result_vn EXCEPT ![t] = open[t]]
  /\ UNCHANGED <<volumeVars, pc, local_vn, vid, kernelVars, panicked>>
-----------------------------------------------------------------------------
(* The kernel takes vnodes away, and lustre_vnop_reclaim.                  *)

\* A vnode nobody uses is recycled at any time the volume is mounted.
Recycle(v) ==
  /\ vstate[v] = "live"
  /\ Holders(v) = {}
  /\ Openers(v) = {}
  /\ v_id[v] < MaxVid
  /\ vstate' = [vstate EXCEPT ![v] = "terminating"]
  /\ UNCHANGED <<volumeVars, threadVars, open, v_id, fsref, mount_state, panicked>>

\* Mutant: MNT_FORCE is not turned into FORCECLOSE.
FlushUnforced(v) ==
  /\ vstate[v] = "live"
  /\ mount_state \in {"unmounting", "forcing", "updating"}
  /\ Openers(v) = {}
  /\ vstate' = [vstate EXCEPT ![v] = "draining"]
  /\ UNCHANGED <<volumeVars, threadVars, open, v_id, fsref, mount_state, panicked>>

\* vflush, in an unmount: new references wait from here on.
FlushVnode(v) ==
  /\ vstate[v] = "live"
  /\ \/ mount_state \in {"forcing", "updating"}
     \/ mount_state = "unmounting" /\ Openers(v) = {}
  /\ vstate' = [vstate EXCEPT ![v] = "draining"]
  /\ UNCHANGED <<volumeVars, threadVars, open, v_id, fsref, mount_state, panicked>>

\* The last I/O reference is gone; openers are disconnected from the mount.
Drained(v) ==
  /\ vstate[v] = "draining"
  /\ Holders(v) = {}
  /\ vstate' = [vstate EXCEPT ![v] = "terminating"]
  /\ open' = [t \in Threads |-> IF open[t] = v THEN NULL ELSE open[t]]
  /\ UNCHANGED <<volumeVars, threadVars, v_id, fsref, mount_state, panicked>>

ReclaimLock(v) ==
  /\ vstate[v] = "terminating"
  /\ root_lock = NULL
  /\ root_lock' = v
  /\ vstate' = [vstate EXCEPT ![v] = "detaching"]
  /\ UNCHANGED <<root_attaching, root_waiting, root_vnode, threadVars,
                 open, v_id, fsref, mount_state, panicked>>

\* Mutant: root_vnode is cleared before vnode_removefsref(root_vnode).
DetachSwapped(v) ==
  /\ vstate[v] = "detaching"
  /\ BugOn(root_attaching \/ root_vnode # v)
  /\ root_vnode' = NULL
  /\ root_lock' = NULL
  /\ vstate' = [vstate EXCEPT ![v] = "detached"]
  /\ UNCHANGED <<root_attaching, root_waiting, threadVars, open, v_id, fsref, mount_state>>

\* lustre_mount_detach_root_vnode, under the lock.
DetachRoot(v) ==
  /\ vstate[v] = "detaching"
  /\ BugOn(root_attaching \/ root_vnode # v \/ root_vnode \notin fsref)
  /\ fsref' = fsref \ {root_vnode}
  /\ root_vnode' = NULL
  /\ root_lock' = NULL
  /\ vstate' = [vstate EXCEPT ![v] = "detached"]
  /\ UNCHANGED <<root_attaching, root_waiting, threadVars, open, v_id, mount_state>>

FreeVnode(v) ==
  /\ vstate[v] = "detached"
  /\ vstate' = [vstate EXCEPT ![v] = "free"]
  /\ v_id' = [v_id EXCEPT ![v] = @ + 1]
  /\ UNCHANGED <<volumeVars, threadVars, open, fsref, mount_state, panicked>>

\* Another file system takes a free structure, and gives it back.
ForeignAlloc(v) ==
  /\ vstate[v] = "free"
  /\ v_id[v] < MaxVid
  /\ vstate' = [vstate EXCEPT ![v] = "foreign"]
  /\ UNCHANGED <<volumeVars, threadVars, open, v_id, fsref, mount_state, panicked>>

ForeignFree(v) ==
  /\ vstate[v] = "foreign"
  /\ vstate' = [vstate EXCEPT ![v] = "free"]
  /\ v_id' = [v_id EXCEPT ![v] = @ + 1]
  /\ UNCHANGED <<volumeVars, threadVars, open, fsref, mount_state, panicked>>
-----------------------------------------------------------------------------
(* Mounts and unmounts, for which VFS keeps everybody out of the volume.   *)

\* lustre_volume_alloc hands out a zeroed structure.
Mount ==
  /\ mount_state = "unmounted"
  /\ mount_state' = "mounted"
  /\ root_lock' = NULL
  /\ root_attaching' = FALSE
  /\ root_waiting' = FALSE
  /\ root_vnode' = NULL
  /\ UNCHANGED <<threadVars, open, vstate, v_id, fsref, panicked>>

BeginUnmount(how) ==
  /\ mount_state = "mounted"
  /\ AllIdle
  /\ \A v \in Vnodes : v_id[v] < MaxVid
  /\ mount_state' = how
  /\ UNCHANGED <<volumeVars, threadVars, open, vstate, v_id, fsref, panicked>>

\* vflush finds the root open and the unmount is not forced: EBUSY.
UnmountBusy ==
  /\ mount_state = "unmounting"
  /\ \E v \in Vnodes : vstate[v] = "live" /\ Openers(v) # {}
  /\ mount_state' = "mounted"
  /\ UNCHANGED <<volumeVars, threadVars, open, vstate, v_id, fsref, panicked>>

\* vflush has succeeded: the checks, and the volume is released.  After a
\* refused update the same volume stays mounted.
FinishUnmount ==
  /\ mount_state \in {"unmounting", "forcing", "updating"}
  /\ \A v \in Vnodes : vstate[v] \in {"free", "foreign"}
  /\ BugOn(root_attaching \/ root_waiting \/ root_vnode # NULL)
  /\ mount_state' = IF mount_state = "updating" THEN "mounted" ELSE "unmounted"
  /\ UNCHANGED <<volumeVars, threadVars, open, vstate, v_id, fsref>>
-----------------------------------------------------------------------------
RootCallStep(t) ==
  \/ WaitForAttach(t) \/ BeginAttach(t) \/ PickCandidate(t)
  \/ CreateRoot(t) \/ InstallRoot(t) \/ GetWithVid(t) \/ ReturnRoot(t)

ThreadStep(t) ==
  \/ VfsRoot(t) \/ AcquireRootLock(t) \/ RootCallStep(t)
  \/ VnodePut(t) \/ VnopOpen(t) \/ VnopClose(t) \/ VnopLookup(t)

ReclaimStep(v) == ReclaimLock(v) \/ DetachRoot(v) \/ FreeVnode(v)

VnodeStep(v) ==
  \/ Recycle(v) \/ FlushVnode(v) \/ Drained(v) \/ ReclaimStep(v)
  \/ ForeignAlloc(v) \/ ForeignFree(v)

MountStep ==
  \/ Mount \/ UnmountBusy \/ FinishUnmount
  \/ \E how \in {"unmounting", "forcing", "updating"} : BeginUnmount(how)

\* A panicked machine does nothing, for ever.
Halted == panicked # "no" /\ UNCHANGED vars

Next ==
  \/ /\ panicked = "no"
     /\ \/ \E t \in Threads : ThreadStep(t)
        \/ \E v \in Vnodes : VnodeStep(v)
        \/ MountStep
  \/ Halted

Spec == Init /\ [][Next]_vars

\* The kernel keeps running a thread that can run, its reclaims and flushes;
\* an I/O reference is put back; and a mutex that becomes free again and
\* again is at some time given to a thread that waits for it.  Nothing makes
\* threads call, open or close, or makes the kernel recycle or unmount.
Running(A) == panicked = "no" /\ A

Fairness ==
  /\ \A t \in Threads : /\ WF_vars(Running(RootCallStep(t)))
                        /\ SF_vars(Running(AcquireRootLock(t)))
                        /\ WF_vars(Running(VnodePut(t)))
  /\ \A v \in Vnodes : /\ WF_vars(Running(FlushVnode(v)))
                       /\ WF_vars(Running(Drained(v)))
                       /\ WF_vars(Running(ReclaimStep(v)))
  /\ WF_vars(Running(FinishUnmount))
  /\ WF_vars(Running(UnmountBusy))

FairSpec == Spec /\ Fairness
-----------------------------------------------------------------------------
(* Properties                                                              *)

Ours == {"live", "draining", "terminating", "detaching"}

Usable == {"live", "draining"}

\* No LUSTRE_BUG_ON of the root vnode's code fires, in any interleaving of
\* calls, reclaims and unmounts: not the ones of the loop (vfsop.c:77), of the
\* install (133, 143), of lustre_vfsop_root (437), of the unmount (381, 382,
\* 387) and of the reclaim (vnop.c:62, 63, 71).  The one about a failed
\* vnode_create (vfsop.c:123) is the code's answer to an error of the kernel.
NoUnexpectedBug == panicked # "bug"

\* Whoever was given the root vnode, or has opened it, has the volume's
\* current root and not a structure that was reclaimed or reused meanwhile,
\* although the volume itself keeps no reference (volume.h:50) and the lock is
\* dropped around vnode_getwithvid (vfsop.c:166-192).
HeldRootIsCurrent ==
  \A t \in Threads : \A v \in {result_vn[t], open[t]} \ {NULL} :
    v = root_vnode /\ vstate[v] \in Usable

\* Two threads never create two root vnodes for one volume (vfsop.c:97-100),
\* and a new one is not created before the old one has been reclaimed.
SingleRoot ==
  \A u, v \in Vnodes : vstate[u] \in Ours /\ vstate[v] \in Ours => u = v

\* A thread asleep in msleep (vfsop.c:88-90) sleeps only while somebody is
\* attaching and will see that it has to be woken: no wakeup is lost.
SleepersAnnounced ==
  \A t \in Threads : pc[t] = "asleep" => root_attaching /\ root_waiting
-----------------------------------------------------------------------------
(* The inductive invariant behind these properties.                        *)

Owning(t) == pc[t] \in {"loop", "installing", "unlock"}

Attaching(t) == pc[t] \in {"create", "install", "installing"}

\* A vnode made by vnode_create and not yet published.
Unpublished(t) == pc[t] \in {"install", "installing"}

LockInv ==
  /\ \A t \in Threads : root_lock = t <=> Owning(t)
  /\ \A v \in Vnodes : root_lock = v <=> vstate[v] = "detaching"

AttachInv ==
  /\ \A t \in Threads : Attaching(t) => root_attaching
  /\ \A t, u \in Threads : Attaching(t) /\ Attaching(u) => t = u
  /\ root_attaching => root_vnode = NULL /\ \E t \in Threads : Attaching(t)
  /\ root_waiting => root_attaching

VnodeInv ==
  /\ \A v \in Vnodes : vstate[v] \in Ours =>
       v = root_vnode \/ \E t \in Threads : Unpublished(t) /\ local_vn[t] = v
  /\ \A t \in Threads : Unpublished(t) =>
       local_vn[t] \in Vnodes /\ vstate[local_vn[t]] = "live"
  /\ root_vnode # NULL => vstate[root_vnode] \in Ours
  /\ \A v \in Vnodes : v \in fsref <=> v = root_vnode

ResultInv ==
  \A t \in Threads : /\ pc[t] \in {"relock", "unlock"} => result_vn[t] # NULL
                     /\ result_vn[t] # NULL => pc[t] \in {"idle", "relock", "unlock"}

\* A candidate whose identifier still matches is the root, or is on its way
\* from the reclaim to the free structures.
CandidateInv ==
  \A t \in Threads : pc[t] = "getvnode" =>
    /\ local_vn[t] \in Vnodes
    /\ vid[t] <= v_id[local_vn[t]]
    /\ vid[t] = v_id[local_vn[t]] =>
         local_vn[t] = root_vnode \/ vstate[local_vn[t]] = "detached"

MountInv ==
  /\ mount_state # "mounted" => AllIdle
  /\ mount_state = "unmounted" =>
       \A v \in Vnodes : vstate[v] \in {"free", "foreign"}
  /\ \A v \in Vnodes : vstate[v] = "draining" =>
       mount_state \in {"unmounting", "forcing", "updating"}

\* Everything the threads, the reclaim and the unmount rely on in each other:
\* the lock, who attaches, whose vnode it is, what a candidate may still be.
IInv ==
  /\ TypeOK /\ NoUnexpectedBug
  /\ LockInv /\ AttachInv /\ VnodeInv /\ ResultInv /\ CandidateInv /\ MountInv
  /\ HeldRootIsCurrent /\ SleepersAnnounced
-----------------------------------------------------------------------------
\* The threads whose call has not got its result yet.
Asking == {t \in Threads : pc[t] \notin {"idle", "relock", "unlock"}}

\* The root vnode counts from its publication until the kernel takes it back.
UsableRoot == IF \E v \in Vnodes : v = root_vnode /\ vstate[v] \in Usable
              THEN root_vnode ELSE NULL

Service == INSTANCE RootService WITH
  serving <- mount_state = "mounted",
  asking  <- Asking,
  root    <- UsableRoot,
  held    <- result_vn

\* The volume keeps the promise of RootService: locks, sleeping, identifiers,
\* reclaim and flushes are invisible to the callers of VFS_ROOT.
ServiceSpec == Service!Spec

\* A sleeper is woken, or the machine has panicked.
SleepersWoken ==
  \A t \in Threads : pc[t] = "asleep" ~> (pc[t] # "asleep" \/ panicked # "no")

\* A call of lustre_vfsop_root returns: the loop (vfsop.c:76-198) ends, however
\* the root vnode is recycled and created meanwhile (MaxVid times at most).
RootCallReturns ==
  \A t \in Threads : pc[t] = "lock" ~> (pc[t] = "idle" \/ panicked # "no")

\* A forced unmount, and the one of a refused update, ends, files open or not
\* (vfsop.c:352-356): nobody waits for ever for the root's I/O references, for
\* its reclaim, or for root_lock.
ForcedUnmountEnds ==
  \A how \in {"forcing", "updating"} :
    mount_state = how ~> (mount_state # how \/ panicked # "no")
=============================================================================
