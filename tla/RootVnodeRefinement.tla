------------------------ MODULE RootVnodeRefinement ------------------------
(***************************************************************************)
(* RootVnode implements RootService: every step of the locks, sleeps,      *)
(* identifiers, reclaims and flushes is a step of the promise or changes   *)
(* nothing that the callers of VFS_ROOT see.                               *)
(***************************************************************************)
EXTENDS RootVnodeProofs

\* A step of the promise, or a stutter.
Promised == Service!Next \/ UNCHANGED Service!vars

\* What an action has to leave alone to be a stutter of the promise.
LEMMA Unseen ==
  ASSUME UNCHANGED <<Asking, UsableRoot, result_vn, open, mount_state>>
  PROVE  Promised
BY DEF Promised, Service!vars

LEMMA InitRefines == Init => Service!Init
<1> SUFFICES ASSUME Init PROVE Service!Init
  OBVIOUS
<1>1. Asking = {}  BY DEF Init, Asking
<1>2. UsableRoot = NULL  BY RootAssumption DEF Init, UsableRoot
<1> QED  BY <1>1, <1>2 DEF Init, Service!Init, Service!Nobody
-----------------------------------------------------------------------------
(* The root that counts, and who keeps it.                                 *)

LEMMA RootUnchanged ==
  ASSUME UNCHANGED root_vnode,
         \A v \in Vnodes : v = root_vnode =>
           (vstate[v] \in Usable <=> vstate'[v] \in Usable)
  PROVE  UNCHANGED UsableRoot
BY DEF UsableRoot

LEMMA HeldIsUsableRoot ==
  ASSUME IInv, NEW t \in Threads
  PROVE  /\ result_vn[t] # NULL => result_vn[t] = UsableRoot
         /\ open[t] # NULL => open[t] = UsableRoot
BY DEF IInv, TypeOK, HeldRootIsCurrent, UsableRoot

\* Nobody uses a vnode that is not kept by a holder or an opener.
LEMMA NobodyHolds ==
  ASSUME IInv, NEW v \in Vnodes, vstate[v] \in Usable, Holders(v) = {}
  PROVE  /\ v = root_vnode
         /\ result_vn = Service!Nobody
         /\ \A t \in Threads : open[t] \in {NULL, v}
<1>1. v = root_vnode
  BY DEF IInv, VnodeInv, Holders, Unpublished, Usable, Ours
<1>2. ASSUME NEW t \in Threads  PROVE result_vn[t] = NULL /\ open[t] \in {NULL, v}
  BY <1>1 DEF IInv, HeldRootIsCurrent, Holders
<1>3. result_vn = [t \in Threads |-> NULL]  BY <1>2 DEF IInv, TypeOK
<1> QED  BY <1>1, <1>2, <1>3 DEF Service!Nobody
-----------------------------------------------------------------------------
(* The steps of a call.                                                    *)

LEMMA VfsRootRefines ==
  ASSUME IInv, NEW t \in Threads, VfsRoot(t)
  PROVE  Promised
<1>1. Asking' = Asking \cup {t}  BY DEF IInv, TypeOK, VfsRoot, Goto, Asking
<1>2. t \notin Asking  BY DEF VfsRoot, Asking
<1>3. UNCHANGED UsableRoot  BY DEF VfsRoot, volumeVars, kernelVars, UsableRoot
<1>4. Service!Ask(t)
  BY <1>1, <1>2, <1>3 DEF VfsRoot, kernelVars, Service!Ask
<1> QED  BY <1>4 DEF Promised, Service!Next

LEMMA AcquireRootLockRefines ==
  ASSUME IInv, NEW t \in Threads, AcquireRootLock(t)
  PROVE  Promised
<1>1. UNCHANGED Asking  BY DEF IInv, TypeOK, AcquireRootLock, Goto, Asking
<1>2. UNCHANGED UsableRoot  BY DEF AcquireRootLock, kernelVars, UsableRoot
<1> QED  BY <1>1, <1>2, Unseen DEF AcquireRootLock, kernelVars

LEMMA LoopRefines ==
  ASSUME IInv, NEW t \in Threads,
         WaitForAttach(t) \/ BeginAttach(t) \/ PickCandidate(t)
  PROVE  Promised
<1> USE DEF WaitForAttach, BeginAttach, PickCandidate, kernelVars
<1>1. UNCHANGED Asking  BY DEF IInv, TypeOK, Goto, Asking
<1>2. UNCHANGED UsableRoot  BY DEF UsableRoot
<1> QED  BY <1>1, <1>2, Unseen

\* The new vnode does not count before it is published.
LEMMA CreateRootRefines ==
  ASSUME IInv, NEW t \in Threads, CreateRoot(t)
  PROVE  Promised
<1>1. UNCHANGED Asking  BY DEF IInv, TypeOK, CreateRoot, Goto, Asking
<1>2. root_vnode = NULL  BY DEF IInv, AttachInv, Attaching, CreateRoot
<1>3. UNCHANGED UsableRoot
  BY <1>2, RootAssumption DEF CreateRoot, volumeVars, UsableRoot
<1> QED  BY <1>1, <1>3, Unseen DEF CreateRoot

LEMMA InstallRootRefines ==
  ASSUME IInv, NEW t \in Threads, InstallRoot(t)
  PROVE  Promised
<1>1. root_vnode = NULL  BY DEF IInv, AttachInv, Attaching, InstallRoot
<1>2. local_vn[t] \in Vnodes /\ vstate[local_vn[t]] = "live"
  BY DEF IInv, VnodeInv, Unpublished, InstallRoot
<1>3. UsableRoot = NULL  BY <1>1 DEF UsableRoot
<1>4. UsableRoot' = local_vn[t]  BY <1>2 DEF UsableRoot, Usable, InstallRoot
<1>5. t \in Asking  BY DEF Asking, InstallRoot
<1>6. Asking' = Asking \ {t}
  BY DEF IInv, TypeOK, InstallRoot, Woken, Asking
<1>7. Service!Attach(t, local_vn[t])
  BY <1>3, <1>4, <1>5, <1>6 DEF InstallRoot, Service!Attach
<1> QED  BY <1>2, <1>7 DEF Promised, Service!Next

\* The identifier tells whether the candidate is still the root.
LEMMA GetWithVidRefines ==
  ASSUME IInv, NEW t \in Threads, GetWithVid(t)
  PROVE  Promised
<1>1. UNCHANGED UsableRoot
  BY DEF GetWithVid, volumeVars, kernelVars, UsableRoot
<1>2. CASE v_id[local_vn[t]] # vid[t]
  <2>1. UNCHANGED Asking  BY <1>2 DEF IInv, TypeOK, GetWithVid, Goto, Asking
  <2> QED  BY <1>1, <1>2, <2>1, Unseen DEF GetWithVid, kernelVars
<1>3. CASE v_id[local_vn[t]] = vid[t]
  <2>1. local_vn[t] \in Vnodes /\ local_vn[t] = root_vnode
    BY <1>3 DEF IInv, CandidateInv, GetWithVid
  <2>2. vstate[root_vnode] = "live"
    BY <1>3, <2>1, RootAssumption DEF IInv, VnodeInv, Ours, GetWithVid
  <2>3. UsableRoot = local_vn[t]  BY <2>1, <2>2 DEF UsableRoot, Usable
  <2>4. UsableRoot # NULL  BY <2>1, <2>3, RootAssumption
  <2>5. t \in Asking  BY DEF Asking, GetWithVid
  <2>6. Asking' = Asking \ {t}
    BY <1>3 DEF IInv, TypeOK, GetWithVid, Goto, Asking
  <2>7. Service!Share(t)
    BY <1>1, <1>3, <2>3, <2>4, <2>5, <2>6
       DEF GetWithVid, kernelVars, Service!Share
  <2> QED  BY <2>7 DEF Promised, Service!Next
<1> QED  BY <1>2, <1>3

LEMMA ReturnRootRefines ==
  ASSUME IInv, NEW t \in Threads, ReturnRoot(t)
  PROVE  Promised
<1>1. UNCHANGED Asking  BY DEF IInv, TypeOK, ReturnRoot, Goto, Asking
<1>2. UNCHANGED UsableRoot  BY DEF ReturnRoot, kernelVars, UsableRoot
<1> QED  BY <1>1, <1>2, Unseen DEF ReturnRoot, kernelVars
-----------------------------------------------------------------------------
(* The users of the root.                                                  *)

LEMMA VnodePutRefines ==
  ASSUME IInv, NEW t \in Threads, VnodePut(t)
  PROVE  Promised
<1>1. UNCHANGED <<Asking, UsableRoot>>
  BY DEF VnodePut, volumeVars, kernelVars, Asking, UsableRoot
<1>2. Service!Release(t)
  BY <1>1 DEF VnodePut, kernelVars, Service!Release
<1> QED  BY <1>2 DEF Promised, Service!Next

LEMMA VnopOpenRefines ==
  ASSUME IInv, NEW t \in Threads, VnopOpen(t)
  PROVE  Promised
<1>1. UNCHANGED <<Asking, UsableRoot>>
  BY DEF VnopOpen, volumeVars, threadVars, Asking, UsableRoot
<1>2. Service!Open(t)  BY <1>1 DEF VnopOpen, threadVars, Service!Open
<1> QED  BY <1>2 DEF Promised, Service!Next

LEMMA VnopCloseRefines ==
  ASSUME IInv, NEW t \in Threads, VnopClose(t)
  PROVE  Promised
<1>1. UNCHANGED <<Asking, UsableRoot>>
  BY DEF VnopClose, volumeVars, threadVars, Asking, UsableRoot
<1>2. Service!Close(t)  BY <1>1 DEF VnopClose, threadVars, Service!Close
<1> QED  BY <1>2 DEF Promised, Service!Next

LEMMA VnopLookupRefines ==
  ASSUME IInv, NEW t \in Threads, VnopLookup(t)
  PROVE  Promised
<1>1. UNCHANGED <<Asking, UsableRoot>>
  BY DEF VnopLookup, volumeVars, kernelVars, Asking, UsableRoot
<1>2. t \notin Asking  BY DEF VnopLookup, Asking
<1>3. Service!Lookup(t)
  BY <1>1, <1>2 DEF VnopLookup, kernelVars, Service!Lookup
<1> QED  BY <1>3 DEF Promised, Service!Next
-----------------------------------------------------------------------------
(* The kernel's steps.                                                     *)

\* Recycling takes the root away from nobody.
LEMMA RecycleRefines ==
  ASSUME IInv, NEW v \in Vnodes, Recycle(v)
  PROVE  Promised
<1>1. /\ v = root_vnode
      /\ result_vn = Service!Nobody
      /\ \A t \in Threads : open[t] \in {NULL, v}
  BY NobodyHolds DEF Recycle, Usable
<1>2. open = Service!Nobody
  <2>1. ASSUME NEW t \in Threads  PROVE open[t] = NULL
    BY <1>1 DEF Recycle, Openers
  <2>2. open = [t \in Threads |-> NULL]  BY <2>1 DEF IInv, TypeOK
  <2> QED  BY <2>2 DEF Service!Nobody
<1>3. UsableRoot # NULL
  BY <1>1, RootAssumption DEF Recycle, UsableRoot, Usable
<1>4. vstate'[v] = "terminating" /\ root_vnode' = v
  BY <1>1 DEF IInv, TypeOK, Recycle, volumeVars
<1>5. UsableRoot' = NULL  BY <1>4 DEF UsableRoot, Usable
<1>6. UNCHANGED Asking  BY DEF Recycle, threadVars, Asking
<1>7. Service!Recycle
  BY <1>1, <1>2, <1>3, <1>5, <1>6 DEF Recycle, threadVars, Service!Recycle
<1> QED  BY <1>7 DEF Promised, Service!Next

LEMMA FlushVnodeRefines ==
  ASSUME IInv, NEW v \in Vnodes, FlushVnode(v)
  PROVE  Promised
<1>1. UNCHANGED Asking  BY DEF FlushVnode, threadVars, Asking
<1>2. UNCHANGED UsableRoot
  BY DEF IInv, TypeOK, FlushVnode, volumeVars, UsableRoot, Usable
<1> QED  BY <1>1, <1>2, Unseen DEF FlushVnode, threadVars

\* A flush ends: the volume is not serving, and openers lose the root.
LEMMA DrainedRefines ==
  ASSUME IInv, NEW v \in Vnodes, Drained(v)
  PROVE  Promised
<1>1. /\ v = root_vnode
      /\ result_vn = Service!Nobody
      /\ \A t \in Threads : open[t] \in {NULL, v}
  BY NobodyHolds DEF Drained, Usable
<1>2. open' = [t \in Threads |-> NULL]  BY <1>1 DEF Drained
<1>3. mount_state # "mounted"  BY DEF IInv, MountInv, Drained
<1>4. vstate'[v] = "terminating" /\ root_vnode' = v
  BY <1>1 DEF IInv, TypeOK, Drained, volumeVars
<1>5. UsableRoot' = NULL  BY <1>4 DEF UsableRoot, Usable
<1>6. UNCHANGED Asking  BY DEF Drained, threadVars, Asking
<1>7. Service!Revoke
  BY <1>1, <1>2, <1>3, <1>5, <1>6
     DEF Drained, threadVars, Service!Revoke, Service!Nobody
<1> QED  BY <1>7 DEF Promised, Service!Next

\* A vnode on its way out no longer counts.
LEMMA ReclaimRefines ==
  ASSUME IInv, NEW v \in Vnodes, ReclaimLock(v) \/ DetachRoot(v)
  PROVE  Promised
<1> USE DEF ReclaimLock, DetachRoot, threadVars
<1>1. UNCHANGED Asking  BY DEF Asking
<1>2. CASE ReclaimLock(v)
  <2>1. UNCHANGED UsableRoot  BY <1>2 DEF IInv, TypeOK, UsableRoot, Usable
  <2> QED  BY <1>1, <1>2, <2>1, Unseen
<1>3. CASE DetachRoot(v)
  <2>1. v = root_vnode
    BY <1>3 DEF IInv, VnodeInv, Ours, Unpublished
  <2>2. UsableRoot = NULL  BY <1>3, <2>1 DEF UsableRoot, Usable
  <2>3. UsableRoot' = NULL  BY <1>3, RootAssumption DEF UsableRoot
  <2> QED  BY <1>1, <1>3, <2>2, <2>3, Unseen
<1> QED  BY <1>2, <1>3

\* A structure that is not the root changes its state outside the volume.
LEMMA OtherVnodeRefines ==
  ASSUME IInv, NEW v \in Vnodes,
         FreeVnode(v) \/ ForeignAlloc(v) \/ ForeignFree(v)
  PROVE  Promised
<1> USE DEF FreeVnode, ForeignAlloc, ForeignFree, volumeVars, threadVars
<1>1. UNCHANGED Asking  BY DEF Asking
<1>2. UNCHANGED UsableRoot  BY DEF IInv, TypeOK, UsableRoot, Usable
<1> QED  BY <1>1, <1>2, Unseen
-----------------------------------------------------------------------------
(* Mounts and unmounts.                                                    *)

LEMMA MountRefines == ASSUME IInv, Mount  PROVE Promised
<1>1. UNCHANGED Asking  BY DEF Mount, threadVars, Asking
<1>2. UsableRoot = NULL  BY DEF IInv, MountInv, Mount, UsableRoot, Usable
<1>3. UsableRoot' = NULL  BY RootAssumption DEF Mount, UsableRoot
<1>4. Service!Start
  BY <1>1, <1>2, <1>3 DEF Mount, threadVars, Service!Start
<1> QED  BY <1>4 DEF Promised, Service!Next

LEMMA BeginUnmountRefines ==
  ASSUME IInv, NEW how \in {"unmounting", "forcing", "updating"},
         BeginUnmount(how)
  PROVE  Promised
<1>1. UNCHANGED <<Asking, UsableRoot>>
  BY DEF BeginUnmount, volumeVars, threadVars, Asking, UsableRoot
<1>2. Asking = {}  BY DEF BeginUnmount, AllIdle, Asking
<1>3. Service!Stop
  BY <1>1, <1>2 DEF BeginUnmount, threadVars, Service!Stop
<1> QED  BY <1>3 DEF Promised, Service!Next

LEMMA EndUnmountRefines ==
  ASSUME IInv, UnmountBusy \/ FinishUnmount
  PROVE  Promised
<1> USE DEF UnmountBusy, FinishUnmount, volumeVars, threadVars
<1>1. UNCHANGED <<Asking, UsableRoot>>  BY DEF Asking, UsableRoot
<1>2. CASE mount_state' = "mounted"
  <2>1. Service!Start  BY <1>1, <1>2 DEF Service!Start
  <2> QED  BY <2>1 DEF Promised, Service!Next
<1>3. CASE mount_state' # "mounted"
  BY <1>1, <1>3 DEF Promised, Service!vars
<1> QED  BY <1>2, <1>3
-----------------------------------------------------------------------------
LEMMA StepRefines == IInv /\ [Next]_vars => [Service!Next]_(Service!vars)
<1> SUFFICES ASSUME IInv, [Next]_vars PROVE Promised
  BY DEF Promised
<1>1. ASSUME NEW t \in Threads, ThreadStep(t)  PROVE Promised
  BY <1>1, VfsRootRefines, AcquireRootLockRefines, LoopRefines,
     CreateRootRefines, InstallRootRefines, GetWithVidRefines,
     ReturnRootRefines, VnodePutRefines, VnopOpenRefines, VnopCloseRefines,
     VnopLookupRefines
     DEF ThreadStep, RootCallStep
<1>2. ASSUME NEW v \in Vnodes, VnodeStep(v)  PROVE Promised
  BY <1>2, RecycleRefines, FlushVnodeRefines, DrainedRefines, ReclaimRefines,
     OtherVnodeRefines
     DEF VnodeStep, ReclaimStep
<1>3. CASE MountStep
  BY <1>3, MountRefines, BeginUnmountRefines, EndUnmountRefines DEF MountStep
<1>4. CASE UNCHANGED vars
  BY <1>4 DEF Promised, vars, Service!vars, Asking, UsableRoot
<1> QED  BY <1>1, <1>2, <1>3, <1>4 DEF Next, Halted

\* The root vnode's protocol (vfsop.c:55-207, vnop.c:48-81) implements the
\* promise of RootService, for any number of threads.
THEOREM Refinement == Spec => ServiceSpec
BY InitRefines, StepRefines, Invariance, PTL DEF Spec, ServiceSpec, Service!Spec
=============================================================================
