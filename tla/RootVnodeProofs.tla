-------------------------- MODULE RootVnodeProofs --------------------------
(***************************************************************************)
(* Theorems about RootVnode, for any sets of threads and vnode structures  *)
(* and any bound on their reuse.  The invariant IInv is kept by every      *)
(* action, one lemma each; its consequences and the refinement follow.     *)
(***************************************************************************)
EXTENDS RootVnode, TLAPS

-----------------------------------------------------------------------------
(* The invariant holds initially and is kept by every action.              *)

LEMMA InitIInv == Init => IInv
<1> SUFFICES ASSUME Init PROVE IInv
  OBVIOUS
<1> USE RootAssumption DEF Init
<1>1. TypeOK
  <2>1. pc \in [Threads -> PCs]  BY DEF PCs
  <2>2. vstate \in [Vnodes -> VStates]  BY DEF VStates
  <2>3. v_id \in [Vnodes -> Nat] /\ vid \in [Threads -> Nat]
    OBVIOUS
  <2>4. /\ local_vn \in [Threads -> Vnodes \cup {NULL}]
        /\ result_vn \in [Threads -> Vnodes \cup {NULL}]
        /\ open \in [Threads -> Vnodes \cup {NULL}]
    OBVIOUS
  <2>5. root_attaching \in BOOLEAN /\ root_waiting \in BOOLEAN
    OBVIOUS
  <2> QED  BY <2>1, <2>2, <2>3, <2>4, <2>5 DEF TypeOK, MountStates
<1>2. NoUnexpectedBug  BY DEF NoUnexpectedBug
<1>3. LockInv  BY DEF LockInv, Owning
<1>4. AttachInv  BY DEF AttachInv, Attaching
<1>5. VnodeInv  BY DEF VnodeInv, Unpublished, Ours
<1>6. ResultInv  BY DEF ResultInv
<1>7. CandidateInv  BY DEF CandidateInv
<1>8. MountInv  BY DEF MountInv, AllIdle
<1>9. HeldRootIsCurrent  BY DEF HeldRootIsCurrent
<1>10. SleepersAnnounced  BY DEF SleepersAnnounced
<1> QED  BY <1>1, <1>2, <1>3, <1>4, <1>5, <1>6, <1>7, <1>8, <1>9, <1>10 DEF IInv

\* A call starts: the thread has no lock yet and no candidate.
LEMMA VfsRootPreserves ==
  ASSUME IInv, NEW t \in Threads, VfsRoot(t)
  PROVE  IInv'
<1> USE RootAssumption DEF IInv, VfsRoot, Goto, volumeVars, kernelVars
<1>1. TypeOK'  BY DEF TypeOK, PCs
<1>2. LockInv'  BY DEF LockInv, Owning
<1>3. AttachInv'  BY DEF AttachInv, Attaching
<1>4. VnodeInv'  BY DEF VnodeInv, Unpublished, Ours
<1>5. ResultInv'  BY DEF ResultInv
<1>6. CandidateInv'  BY DEF CandidateInv
<1>7. MountInv'  BY DEF MountInv, AllIdle
<1>8. SleepersAnnounced'  BY DEF SleepersAnnounced
<1>9. NoUnexpectedBug' /\ HeldRootIsCurrent'
  BY DEF NoUnexpectedBug, HeldRootIsCurrent, Usable
<1> QED  BY <1>1, <1>2, <1>3, <1>4, <1>5, <1>6, <1>7, <1>8, <1>9

\* The lock changes hands only from nobody to a waiting thread.
LEMMA AcquireRootLockPreserves ==
  ASSUME IInv, NEW t \in Threads, AcquireRootLock(t)
  PROVE  IInv'
<1> USE RootAssumption DEF IInv, AcquireRootLock, Goto, kernelVars
<1>1. TypeOK'  BY DEF TypeOK, PCs
<1>2. LockInv'  BY DEF TypeOK, LockInv, Owning, PCs
<1>3. AttachInv'  BY DEF AttachInv, Attaching
<1>4. VnodeInv'  BY DEF VnodeInv, Unpublished, Ours
<1>5. ResultInv'  BY DEF ResultInv
<1>6. CandidateInv'  BY DEF CandidateInv
<1>7. MountInv'  BY DEF MountInv, AllIdle
<1>8. SleepersAnnounced'  BY DEF SleepersAnnounced
<1>9. NoUnexpectedBug' /\ HeldRootIsCurrent'
  BY DEF NoUnexpectedBug, HeldRootIsCurrent, Usable
<1> QED  BY <1>1, <1>2, <1>3, <1>4, <1>5, <1>6, <1>7, <1>8, <1>9

\* A thread falls asleep, and says so.
LEMMA WaitForAttachPreserves ==
  ASSUME IInv, NEW t \in Threads, WaitForAttach(t)
  PROVE  IInv'
<1> USE RootAssumption DEF IInv, WaitForAttach, BugOn, Goto, kernelVars
<1>1. TypeOK'  BY DEF TypeOK, PCs
<1>2. NoUnexpectedBug'  BY DEF NoUnexpectedBug, ResultInv
<1>3. LockInv'  BY DEF TypeOK, LockInv, Owning, PCs
<1>4. AttachInv'  BY DEF AttachInv, Attaching
<1>5. VnodeInv'  BY DEF VnodeInv, Unpublished, Ours
<1>6. ResultInv'  BY DEF ResultInv
<1>7. CandidateInv'  BY DEF CandidateInv
<1>8. MountInv'  BY DEF MountInv, AllIdle
<1>9. SleepersAnnounced'  BY DEF SleepersAnnounced
<1>10. HeldRootIsCurrent'
  BY DEF HeldRootIsCurrent, Usable
<1> QED  BY <1>1, <1>2, <1>3, <1>4, <1>5, <1>6, <1>7, <1>8, <1>9, <1>10

\* A thread claims the creation of the root: there is none, and nobody is at it.
LEMMA BeginAttachPreserves ==
  ASSUME IInv, NEW t \in Threads, BeginAttach(t)
  PROVE  IInv'
<1> USE RootAssumption DEF IInv, BeginAttach, BugOn, Goto, kernelVars
<1>1. TypeOK'  BY DEF TypeOK, PCs
<1>2. NoUnexpectedBug'  BY DEF NoUnexpectedBug, HeldRootIsCurrent, Usable
<1>3. LockInv'  BY DEF TypeOK, LockInv, Owning, PCs
<1>4. AttachInv'  BY DEF TypeOK, AttachInv, Attaching, PCs
<1>5. VnodeInv'  BY DEF VnodeInv, Unpublished, Ours
<1>6. ResultInv'  BY DEF ResultInv
<1>7. CandidateInv'  BY DEF CandidateInv
<1>8. MountInv'  BY DEF MountInv, AllIdle
<1>9. SleepersAnnounced'  BY DEF SleepersAnnounced
<1>10. HeldRootIsCurrent'
  BY DEF HeldRootIsCurrent, Usable
<1> QED  BY <1>1, <1>2, <1>3, <1>4, <1>5, <1>6, <1>7, <1>8, <1>9, <1>10

\* The candidate is the root, with its present identifier.
LEMMA PickCandidatePreserves ==
  ASSUME IInv, NEW t \in Threads, PickCandidate(t)
  PROVE  IInv'
<1> USE RootAssumption DEF IInv, PickCandidate, BugOn, Goto, kernelVars
<1>1. TypeOK'  BY DEF TypeOK, PCs
<1>2. NoUnexpectedBug'  BY DEF NoUnexpectedBug, ResultInv
<1>3. LockInv'  BY DEF TypeOK, LockInv, Owning, PCs
<1>4. AttachInv'  BY DEF AttachInv, Attaching
<1>5. VnodeInv'  BY DEF VnodeInv, Unpublished, Ours
<1>6. ResultInv'  BY DEF ResultInv
<1>7. CandidateInv'  BY DEF TypeOK, CandidateInv, PCs
<1>8. MountInv'  BY DEF MountInv, AllIdle
<1>9. SleepersAnnounced'  BY DEF SleepersAnnounced
<1>10. HeldRootIsCurrent'
  BY DEF HeldRootIsCurrent, Usable
<1> QED  BY <1>1, <1>2, <1>3, <1>4, <1>5, <1>6, <1>7, <1>8, <1>9, <1>10

\* The structure was free: nobody had it as root, candidate or result.
LEMMA CreateRootPreserves ==
  ASSUME IInv, NEW t \in Threads, CreateRoot(t)
  PROVE  IInv'
<1> USE RootAssumption DEF IInv, CreateRoot, Goto, volumeVars
<1>1. TypeOK'  BY DEF TypeOK, PCs, VStates
<1>2. NoUnexpectedBug'  BY DEF NoUnexpectedBug
<1>3. LockInv'  BY DEF TypeOK, LockInv, Owning, PCs, VStates
<1>4. AttachInv'  BY DEF TypeOK, AttachInv, Attaching, PCs, VStates
<1>5. VnodeInv'  BY DEF TypeOK, VnodeInv, Unpublished, Ours, PCs, VStates
<1>6. ResultInv'  BY DEF TypeOK, ResultInv, PCs, VStates
<1>7. CandidateInv'  BY DEF TypeOK, CandidateInv, PCs, VStates
<1>8. MountInv'  BY DEF TypeOK, MountInv, AllIdle, PCs, VStates
<1>9. HeldRootIsCurrent'  BY DEF AttachInv, Attaching, HeldRootIsCurrent, Usable
<1>10. SleepersAnnounced'  BY DEF TypeOK, SleepersAnnounced, PCs, VStates
<1> QED  BY <1>1, <1>2, <1>3, <1>4, <1>5, <1>6, <1>7, <1>8, <1>9, <1>10

\* The creating thread publishes its vnode; every sleeper is woken.
LEMMA InstallRootPreserves ==
  ASSUME IInv, NEW t \in Threads, InstallRoot(t)
  PROVE  IInv'
<1> USE RootAssumption DEF IInv, InstallRoot, BugOn, Woken
<1>1. TypeOK'
  <2>1. local_vn[t] \in Vnodes  BY DEF VnodeInv, Unpublished
  <2>2. pc' \in [Threads -> PCs]  BY DEF TypeOK, Woken, PCs
  <2>3. fsref' \subseteq Vnodes  BY <2>1 DEF TypeOK
  <2>4. result_vn' \in [Threads -> Vnodes \cup {NULL}]  BY <2>1 DEF TypeOK
  <2>5. panicked' \in {"no", "vnode_create", "bug"}  BY DEF TypeOK
  <2> QED  BY <2>1, <2>2, <2>3, <2>4, <2>5 DEF TypeOK
<1>2. NoUnexpectedBug'
  BY DEF NoUnexpectedBug, AttachInv, Attaching, VnodeInv, Unpublished, Ours
<1>3. LockInv'  BY DEF LockInv, Owning
<1>4. AttachInv'  BY DEF TypeOK, AttachInv, Attaching, PCs
<1>5. VnodeInv'
  <2>1. local_vn[t] \in Vnodes /\ vstate[local_vn[t]] = "live"
    BY DEF VnodeInv, Unpublished
  <2>2. root_vnode = NULL  BY DEF AttachInv, Attaching
  <2>3. ASSUME NEW u \in Threads, Unpublished(u)
        PROVE  u = t
    BY <2>3 DEF AttachInv, Attaching, Unpublished
  <2>4. ASSUME NEW u \in Threads  PROVE  ~Unpublished(u)'
    BY <2>3 DEF TypeOK, Unpublished, Woken
  <2>5. ASSUME NEW v \in Vnodes, vstate[v] \in Ours
        PROVE  v = local_vn[t]
    BY <2>2, <2>3, <2>5 DEF VnodeInv
  <2>6. ASSUME NEW v \in Vnodes  PROVE  v \in fsref' <=> v = root_vnode'
    BY <2>2 DEF VnodeInv
  <2> QED  BY <2>1, <2>4, <2>5, <2>6 DEF VnodeInv, Ours
<1>6. ResultInv'  BY DEF TypeOK, VnodeInv, Unpublished, Ours, ResultInv, PCs
<1>7. CandidateInv'  BY DEF AttachInv, Attaching, CandidateInv
<1>8. MountInv'  BY DEF MountInv, AllIdle
<1>9. HeldRootIsCurrent'
  BY DEF AttachInv, Attaching, VnodeInv, Unpublished, Ours, HeldRootIsCurrent,
         Usable
<1>10. SleepersAnnounced'  BY DEF SleepersAnnounced
<1> QED  BY <1>1, <1>2, <1>3, <1>4, <1>5, <1>6, <1>7, <1>8, <1>9, <1>10

\* A candidate whose identifier matches is the root.
LEMMA GetWithVidPreserves ==
  ASSUME IInv, NEW t \in Threads, GetWithVid(t)
  PROVE  IInv'
<1> USE RootAssumption DEF IInv, GetWithVid, Goto, volumeVars, kernelVars
<1>1. TypeOK'  BY DEF TypeOK, PCs
<1>2. LockInv'  BY DEF TypeOK, LockInv, Owning, PCs
<1>3. AttachInv'  BY DEF TypeOK, AttachInv, Attaching, PCs
<1>4. VnodeInv'  BY DEF TypeOK, VnodeInv, Unpublished, Ours, PCs
<1>5. ResultInv'  BY DEF TypeOK, ResultInv, CandidateInv, PCs
<1>6. CandidateInv'  BY DEF TypeOK, CandidateInv, PCs
<1>7. MountInv'  BY DEF MountInv, AllIdle
<1>8. HeldRootIsCurrent'
  BY DEF TypeOK, VnodeInv, Unpublished, Ours, CandidateInv, HeldRootIsCurrent,
         Usable, PCs
<1>9. SleepersAnnounced'  BY DEF TypeOK, SleepersAnnounced, PCs
<1>10. NoUnexpectedBug'
  BY DEF NoUnexpectedBug
<1> QED  BY <1>1, <1>2, <1>3, <1>4, <1>5, <1>6, <1>7, <1>8, <1>9, <1>10

\* The lock is released by its owner.
LEMMA ReturnRootPreserves ==
  ASSUME IInv, NEW t \in Threads, ReturnRoot(t)
  PROVE  IInv'
<1> USE RootAssumption DEF IInv, ReturnRoot, BugOn, Goto, kernelVars
<1>1. TypeOK'  BY DEF TypeOK, PCs
<1>2. NoUnexpectedBug'  BY DEF NoUnexpectedBug, ResultInv
<1>3. LockInv'  BY DEF TypeOK, LockInv, Owning, PCs
<1>4. AttachInv'  BY DEF AttachInv, Attaching
<1>5. VnodeInv'  BY DEF VnodeInv, Unpublished, Ours
<1>6. ResultInv'  BY DEF ResultInv
<1>7. CandidateInv'  BY DEF CandidateInv
<1>8. MountInv'  BY DEF MountInv, AllIdle
<1>9. SleepersAnnounced'  BY DEF SleepersAnnounced
<1>10. HeldRootIsCurrent'
  BY DEF HeldRootIsCurrent, Usable
<1> QED  BY <1>1, <1>2, <1>3, <1>4, <1>5, <1>6, <1>7, <1>8, <1>9, <1>10

LEMMA VnodePutPreserves ==
  ASSUME IInv, NEW t \in Threads, VnodePut(t)
  PROVE  IInv'
<1> USE RootAssumption DEF IInv, VnodePut, volumeVars, kernelVars
<1>1. TypeOK'  BY DEF TypeOK
<1>2. ResultInv'  BY DEF ResultInv
<1>3. HeldRootIsCurrent'  BY DEF HeldRootIsCurrent, Usable
<1>4. NoUnexpectedBug' /\ LockInv' /\ AttachInv' /\ VnodeInv' /\ CandidateInv'
     /\ MountInv' /\ SleepersAnnounced'
  BY DEF NoUnexpectedBug, LockInv, Owning, AttachInv, Attaching, VnodeInv,
         Unpublished, Ours, CandidateInv, MountInv, AllIdle, SleepersAnnounced
<1> QED  BY <1>1, <1>2, <1>3, <1>4

LEMMA VnopOpenPreserves ==
  ASSUME IInv, NEW t \in Threads, VnopOpen(t)
  PROVE  IInv'
<1> USE RootAssumption DEF IInv, VnopOpen, volumeVars, threadVars
<1>1. TypeOK'  BY DEF TypeOK
<1>2. HeldRootIsCurrent'  BY DEF HeldRootIsCurrent, Usable
<1>3. NoUnexpectedBug' /\ LockInv' /\ AttachInv' /\ VnodeInv' /\ ResultInv' /\
     CandidateInv' /\ MountInv' /\ SleepersAnnounced'
  BY DEF NoUnexpectedBug, LockInv, Owning, AttachInv, Attaching, VnodeInv,
         Unpublished, Ours, ResultInv, CandidateInv, MountInv, AllIdle,
         SleepersAnnounced
<1> QED  BY <1>1, <1>2, <1>3

LEMMA VnopClosePreserves ==
  ASSUME IInv, NEW t \in Threads, VnopClose(t)
  PROVE  IInv'
<1> USE RootAssumption DEF IInv, VnopClose, volumeVars, threadVars
<1>1. TypeOK'  BY DEF TypeOK
<1>2. HeldRootIsCurrent'  BY DEF HeldRootIsCurrent, Usable
<1>3. NoUnexpectedBug' /\ LockInv' /\ AttachInv' /\ VnodeInv' /\ ResultInv' /\
     CandidateInv' /\ MountInv' /\ SleepersAnnounced'
  BY DEF NoUnexpectedBug, LockInv, Owning, AttachInv, Attaching, VnodeInv,
         Unpublished, Ours, ResultInv, CandidateInv, MountInv, AllIdle,
         SleepersAnnounced
<1> QED  BY <1>1, <1>2, <1>3

LEMMA VnopLookupPreserves ==
  ASSUME IInv, NEW t \in Threads, VnopLookup(t)
  PROVE  IInv'
<1> USE RootAssumption DEF IInv, VnopLookup, volumeVars, kernelVars
<1>1. TypeOK'  BY DEF TypeOK
<1>2. ResultInv'  BY DEF ResultInv
<1>3. HeldRootIsCurrent'  BY DEF HeldRootIsCurrent, Usable
<1>4. NoUnexpectedBug' /\ LockInv' /\ AttachInv' /\ VnodeInv' /\ CandidateInv'
     /\ MountInv' /\ SleepersAnnounced'
  BY DEF NoUnexpectedBug, LockInv, Owning, AttachInv, Attaching, VnodeInv,
         Unpublished, Ours, CandidateInv, MountInv, AllIdle, SleepersAnnounced
<1> QED  BY <1>1, <1>2, <1>3, <1>4

\* Nobody holds the vnode, so it is published and nobody's result.
LEMMA RecyclePreserves ==
  ASSUME IInv, NEW v \in Vnodes, Recycle(v)
  PROVE  IInv'
<1> USE RootAssumption DEF IInv, Recycle, volumeVars, threadVars, Holders,
        Openers
<1>1. TypeOK'  BY DEF TypeOK, VStates
<1>2. LockInv'  BY DEF LockInv, Owning
<1>3. VnodeInv'  BY DEF VnodeInv, Unpublished, Ours
<1>4. CandidateInv'  BY DEF CandidateInv
<1>5. MountInv'  BY DEF MountInv, AllIdle
<1>6. HeldRootIsCurrent'  BY DEF HeldRootIsCurrent, Usable
<1>7. NoUnexpectedBug' /\ AttachInv' /\ ResultInv' /\ SleepersAnnounced'
  BY DEF NoUnexpectedBug, AttachInv, Attaching, ResultInv, SleepersAnnounced
<1> QED  BY <1>1, <1>2, <1>3, <1>4, <1>5, <1>6, <1>7

LEMMA FlushVnodePreserves ==
  ASSUME IInv, NEW v \in Vnodes, FlushVnode(v)
  PROVE  IInv'
<1> USE RootAssumption DEF IInv, FlushVnode, volumeVars, threadVars, Openers
<1>1. TypeOK'  BY DEF TypeOK, VStates
<1>2. LockInv'  BY DEF LockInv, Owning
<1>3. VnodeInv'  BY DEF VnodeInv, Unpublished, Ours, MountInv, AllIdle
<1>4. CandidateInv'  BY DEF CandidateInv
<1>5. MountInv'  BY DEF MountInv, AllIdle
<1>6. HeldRootIsCurrent'  BY DEF HeldRootIsCurrent, Usable
<1>7. NoUnexpectedBug' /\ AttachInv' /\ ResultInv' /\ SleepersAnnounced'
  BY DEF NoUnexpectedBug, AttachInv, Attaching, ResultInv, SleepersAnnounced
<1> QED  BY <1>1, <1>2, <1>3, <1>4, <1>5, <1>6, <1>7

\* The last reference is gone, and openers are cut off.
LEMMA DrainedPreserves ==
  ASSUME IInv, NEW v \in Vnodes, Drained(v)
  PROVE  IInv'
<1> USE RootAssumption DEF IInv, Drained, volumeVars, threadVars, Holders
<1>1. TypeOK'  BY DEF TypeOK, VStates
<1>2. LockInv'  BY DEF LockInv, Owning
<1>3. VnodeInv'  BY DEF VnodeInv, Unpublished, Ours
<1>4. CandidateInv'  BY DEF CandidateInv
<1>5. MountInv'  BY DEF MountInv, AllIdle
<1>6. HeldRootIsCurrent'  BY DEF HeldRootIsCurrent, Usable
<1>7. NoUnexpectedBug' /\ AttachInv' /\ ResultInv' /\ SleepersAnnounced'
  BY DEF NoUnexpectedBug, AttachInv, Attaching, ResultInv, SleepersAnnounced
<1> QED  BY <1>1, <1>2, <1>3, <1>4, <1>5, <1>6, <1>7

LEMMA ReclaimLockPreserves ==
  ASSUME IInv, NEW v \in Vnodes, ReclaimLock(v)
  PROVE  IInv'
<1> USE RootAssumption DEF IInv, ReclaimLock, threadVars
<1>1. TypeOK'  BY DEF TypeOK, VStates
<1>2. LockInv'  BY DEF TypeOK, LockInv, Owning, VStates
<1>3. VnodeInv'  BY DEF VnodeInv, Unpublished, Ours
<1>4. CandidateInv'  BY DEF CandidateInv
<1>5. MountInv'  BY DEF MountInv, AllIdle
<1>6. HeldRootIsCurrent'  BY DEF HeldRootIsCurrent, Usable
<1>7. NoUnexpectedBug' /\ AttachInv' /\ ResultInv' /\ SleepersAnnounced'
  BY DEF NoUnexpectedBug, AttachInv, Attaching, ResultInv, SleepersAnnounced
<1> QED  BY <1>1, <1>2, <1>3, <1>4, <1>5, <1>6, <1>7

\* The vnode in reclaim is the root: nobody attaches, nobody holds it.
LEMMA DetachRootPreserves ==
  ASSUME IInv, NEW v \in Vnodes, DetachRoot(v)
  PROVE  IInv'
<1> USE RootAssumption DEF IInv, DetachRoot, BugOn, threadVars
<1>1. TypeOK'  BY DEF TypeOK, VStates
<1>2. NoUnexpectedBug'
  BY DEF NoUnexpectedBug, AttachInv, Attaching, VnodeInv, Unpublished, Ours
<1>3. LockInv'  BY DEF TypeOK, LockInv, Owning, VStates
<1>4. AttachInv'  BY DEF AttachInv, Attaching
<1>5. VnodeInv'  BY DEF TypeOK, VnodeInv, Unpublished, Ours, VStates
<1>6. CandidateInv'
  BY DEF TypeOK, VnodeInv, Unpublished, Ours, CandidateInv, VStates
<1>7. MountInv'  BY DEF MountInv, AllIdle
<1>8. HeldRootIsCurrent'
  BY DEF VnodeInv, Unpublished, Ours, HeldRootIsCurrent, Usable
<1>9. ResultInv' /\ SleepersAnnounced'
  BY DEF ResultInv, SleepersAnnounced
<1> QED  BY <1>1, <1>2, <1>3, <1>4, <1>5, <1>6, <1>7, <1>8, <1>9

\* The new identifier ends every candidate's hope for the structure.
LEMMA FreeVnodePreserves ==
  ASSUME IInv, NEW v \in Vnodes, FreeVnode(v)
  PROVE  IInv'
<1> USE RootAssumption DEF IInv, FreeVnode, volumeVars, threadVars
<1>1. TypeOK'  BY DEF TypeOK, VStates
<1>2. LockInv'  BY DEF LockInv, Owning
<1>3. VnodeInv'  BY DEF VnodeInv, Unpublished, Ours
<1>4. CandidateInv'  BY DEF TypeOK, CandidateInv, VStates
<1>5. MountInv'  BY DEF MountInv, AllIdle
<1>6. HeldRootIsCurrent'  BY DEF HeldRootIsCurrent, Usable
<1>7. NoUnexpectedBug' /\ AttachInv' /\ ResultInv' /\ SleepersAnnounced'
  BY DEF NoUnexpectedBug, AttachInv, Attaching, ResultInv, SleepersAnnounced
<1> QED  BY <1>1, <1>2, <1>3, <1>4, <1>5, <1>6, <1>7

LEMMA ForeignAllocPreserves ==
  ASSUME IInv, NEW v \in Vnodes, ForeignAlloc(v)
  PROVE  IInv'
<1> USE RootAssumption DEF IInv, ForeignAlloc, volumeVars, threadVars
<1>1. TypeOK'  BY DEF TypeOK, VStates
<1>2. LockInv'  BY DEF LockInv, Owning
<1>3. VnodeInv'  BY DEF VnodeInv, Unpublished, Ours
<1>4. CandidateInv'  BY DEF CandidateInv
<1>5. MountInv'  BY DEF MountInv, AllIdle
<1>6. HeldRootIsCurrent'  BY DEF HeldRootIsCurrent, Usable
<1>7. NoUnexpectedBug' /\ AttachInv' /\ ResultInv' /\ SleepersAnnounced'
  BY DEF NoUnexpectedBug, AttachInv, Attaching, ResultInv, SleepersAnnounced
<1> QED  BY <1>1, <1>2, <1>3, <1>4, <1>5, <1>6, <1>7

LEMMA ForeignFreePreserves ==
  ASSUME IInv, NEW v \in Vnodes, ForeignFree(v)
  PROVE  IInv'
<1> USE RootAssumption DEF IInv, ForeignFree, volumeVars, threadVars
<1>1. TypeOK'  BY DEF TypeOK, VStates
<1>2. LockInv'  BY DEF LockInv, Owning
<1>3. VnodeInv'  BY DEF VnodeInv, Unpublished, Ours
<1>4. CandidateInv'  BY DEF TypeOK, CandidateInv, VStates
<1>5. MountInv'  BY DEF MountInv, AllIdle
<1>6. HeldRootIsCurrent'  BY DEF HeldRootIsCurrent, Usable
<1>7. NoUnexpectedBug' /\ AttachInv' /\ ResultInv' /\ SleepersAnnounced'
  BY DEF NoUnexpectedBug, AttachInv, Attaching, ResultInv, SleepersAnnounced
<1> QED  BY <1>1, <1>2, <1>3, <1>4, <1>5, <1>6, <1>7

LEMMA MountPreserves ==
  ASSUME IInv, Mount
  PROVE  IInv'
<1> USE RootAssumption DEF IInv, Mount, threadVars
<1>1. TypeOK'
  <2>1. root_attaching' \in BOOLEAN /\ root_waiting' \in BOOLEAN
    OBVIOUS
  <2> QED  BY <2>1 DEF TypeOK, MountStates
<1>2. LockInv'  BY DEF LockInv, Owning, MountInv, AllIdle
<1>3. AttachInv'  BY DEF AttachInv, Attaching, MountInv, AllIdle
<1>4. VnodeInv'  BY DEF VnodeInv, Unpublished, Ours, MountInv, AllIdle
<1>5. CandidateInv'  BY DEF CandidateInv, MountInv, AllIdle
<1>6. MountInv'  BY DEF MountInv, AllIdle
<1>7. HeldRootIsCurrent'
  BY DEF TypeOK, MountInv, AllIdle, HeldRootIsCurrent, Usable, MountStates
<1>8. SleepersAnnounced'  BY DEF MountInv, AllIdle, SleepersAnnounced
<1>9. NoUnexpectedBug' /\ ResultInv'
  BY DEF NoUnexpectedBug, ResultInv
<1> QED  BY <1>1, <1>2, <1>3, <1>4, <1>5, <1>6, <1>7, <1>8, <1>9

LEMMA BeginUnmountPreserves ==
  ASSUME IInv, NEW how \in {"unmounting", "forcing", "updating"}, BeginUnmount(how)
  PROVE  IInv'
<1> USE RootAssumption DEF IInv, BeginUnmount, volumeVars, threadVars, AllIdle
<1>1. TypeOK'  BY DEF TypeOK, MountStates
<1>2. MountInv'  BY DEF MountInv
<1>3. NoUnexpectedBug' /\ LockInv' /\ AttachInv' /\ VnodeInv' /\ ResultInv' /\
     CandidateInv' /\ HeldRootIsCurrent' /\ SleepersAnnounced'
  BY DEF NoUnexpectedBug, LockInv, Owning, AttachInv, Attaching, VnodeInv,
         Unpublished, Ours, ResultInv, CandidateInv, HeldRootIsCurrent,
         Usable, SleepersAnnounced
<1> QED  BY <1>1, <1>2, <1>3

LEMMA UnmountBusyPreserves ==
  ASSUME IInv, UnmountBusy
  PROVE  IInv'
<1> USE RootAssumption DEF IInv, UnmountBusy, volumeVars, threadVars, Openers
<1>1. TypeOK'  BY DEF TypeOK, MountStates
<1>2. MountInv'  BY DEF VnodeInv, Unpublished, Ours, MountInv, AllIdle
<1>3. NoUnexpectedBug' /\ LockInv' /\ AttachInv' /\ VnodeInv' /\ ResultInv' /\
     CandidateInv' /\ HeldRootIsCurrent' /\ SleepersAnnounced'
  BY DEF NoUnexpectedBug, LockInv, Owning, AttachInv, Attaching, VnodeInv,
         Unpublished, Ours, ResultInv, CandidateInv, HeldRootIsCurrent,
         Usable, SleepersAnnounced
<1> QED  BY <1>1, <1>2, <1>3

\* All vnodes are gone and all threads are idle.
LEMMA FinishUnmountPreserves ==
  ASSUME IInv, FinishUnmount
  PROVE  IInv'
<1> USE RootAssumption DEF IInv, FinishUnmount, BugOn, volumeVars, threadVars
<1>1. TypeOK'  BY DEF TypeOK, MountStates
<1>2. NoUnexpectedBug'
  BY DEF TypeOK, NoUnexpectedBug, AttachInv, Attaching, VnodeInv, Unpublished,
         Ours, MountInv, AllIdle, MountStates
<1>3. MountInv'  BY DEF MountInv, AllIdle
<1>4. LockInv' /\ AttachInv' /\ VnodeInv' /\ ResultInv' /\ CandidateInv' /\
     HeldRootIsCurrent' /\ SleepersAnnounced'
  BY DEF LockInv, Owning, AttachInv, Attaching, VnodeInv, Unpublished, Ours,
         ResultInv, CandidateInv, HeldRootIsCurrent, Usable, SleepersAnnounced
<1> QED  BY <1>1, <1>2, <1>3, <1>4
-----------------------------------------------------------------------------
LEMMA StutterPreserves == IInv /\ UNCHANGED vars => IInv'
BY DEF IInv, vars, TypeOK, NoUnexpectedBug, LockInv, AttachInv, VnodeInv,
       ResultInv, CandidateInv, MountInv, HeldRootIsCurrent, SleepersAnnounced,
       Owning, Attaching, Unpublished, AllIdle, Usable

LEMMA NextPreserves == IInv /\ [Next]_vars => IInv'
<1> SUFFICES ASSUME IInv, [Next]_vars PROVE IInv'
  OBVIOUS
<1>1. ASSUME NEW t \in Threads, ThreadStep(t)  PROVE IInv'
  BY <1>1, VfsRootPreserves, AcquireRootLockPreserves, WaitForAttachPreserves,
          BeginAttachPreserves, PickCandidatePreserves, CreateRootPreserves,
          InstallRootPreserves, GetWithVidPreserves, ReturnRootPreserves,
          VnodePutPreserves, VnopOpenPreserves, VnopClosePreserves,
          VnopLookupPreserves
     DEF ThreadStep, RootCallStep
<1>2. ASSUME NEW v \in Vnodes, VnodeStep(v)  PROVE IInv'
  BY <1>2, RecyclePreserves, FlushVnodePreserves, DrainedPreserves,
          ReclaimLockPreserves, DetachRootPreserves, FreeVnodePreserves,
          ForeignAllocPreserves, ForeignFreePreserves
     DEF VnodeStep, ReclaimStep
<1>3. CASE MountStep
  BY <1>3, MountPreserves, UnmountBusyPreserves, FinishUnmountPreserves,
          BeginUnmountPreserves
     DEF MountStep
<1>4. CASE UNCHANGED vars  BY <1>4, StutterPreserves
<1> QED  BY <1>1, <1>2, <1>3, <1>4 DEF Next, Halted

\* Every reachable state satisfies the inductive invariant.
THEOREM Invariance == Spec => []IInv
BY InitIInv, NextPreserves, PTL DEF Spec
-----------------------------------------------------------------------------
(* What follows from it.                                                   *)

\* The types are right; a soft reference, in particular, is never taken on
\* the null pointer (vfsop.c:139, vnop.c:75).
THEOREM TypeCorrect == Spec => []TypeOK
<1>1. IInv => TypeOK  BY DEF IInv
<1> QED  BY <1>1, Invariance, PTL

\* None of the LUSTRE_BUG_ONs of the root vnode's protocol can fire.
THEOREM BugFree == Spec => []NoUnexpectedBug
<1>1. IInv => NoUnexpectedBug  BY DEF IInv
<1> QED  BY <1>1, Invariance, PTL

\* A root vnode in use is the volume's current one.
THEOREM HeldRoot == Spec => []HeldRootIsCurrent
<1>1. IInv => HeldRootIsCurrent  BY DEF IInv
<1> QED  BY <1>1, Invariance, PTL

\* A volume never has two root vnodes: two would both be published, or one
\* published while another thread attaches, or two threads would attach.
LEMMA InvSingleRoot == IInv => SingleRoot
<1> SUFFICES ASSUME IInv, NEW u \in Vnodes, NEW v \in Vnodes,
                    vstate[u] \in Ours, vstate[v] \in Ours
             PROVE  u = v
  BY DEF SingleRoot
<1> USE RootAssumption DEF IInv
<1>1. CASE root_vnode # NULL
  <2>1. ASSUME NEW t \in Threads  PROVE ~Unpublished(t)
    BY <1>1 DEF AttachInv, Attaching, Unpublished
  <2> QED  BY <2>1 DEF VnodeInv
<1>2. CASE root_vnode = NULL
  <2>1. PICK t \in Threads : Unpublished(t) /\ local_vn[t] = u
    BY <1>2 DEF VnodeInv
  <2>2. PICK s \in Threads : Unpublished(s) /\ local_vn[s] = v
    BY <1>2 DEF VnodeInv
  <2>3. s = t  BY <2>1, <2>2 DEF AttachInv, Attaching, Unpublished
  <2> QED  BY <2>1, <2>2, <2>3
<1> QED  BY <1>1, <1>2

THEOREM OneRoot == Spec => []SingleRoot
BY InvSingleRoot, Invariance, PTL

\* No thread sleeps without an attach in progress that knows of sleepers.
THEOREM NoLostWakeup == Spec => []SleepersAnnounced
<1>1. IInv => SleepersAnnounced  BY DEF IInv
<1> QED  BY <1>1, Invariance, PTL
=============================================================================
