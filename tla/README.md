# A TLA+ model of the Lustre file system extension

This directory holds TLA+ specifications of the program in `src/`, the TLC
configurations that check them on small instances, and TLAPS proofs of the most
important theorems.  `PROJECT.json` maps every definition to the source lines it
stands for and lists the runs, their mutants, the findings, the hazards and the
theorems.

    tlc -workers 2 -config MCRootVnode.cfg MCRootVnode     # one run
    tlapm RootVnodeProofs.tla                              # one module's proofs

## 1. The system

Lustre is a macOS file system in the kernel.  It mounts a volume whose root
directory has the two entries "." and ".." and nothing else; around it are a
mount tool, a NetFS plug-in, an installer, and an application that deploys a
build to test machines and runs tests there.

| Component | State it keeps | Operations | Talks to |
|---|---|---|---|
| Root vnode protocol (`Filesystem/vfsop.c`, `vnop.c`) | in `struct lustre_volume`: `root_lock`, `root_attaching`, `root_waiting`, `root_vnode`; in a call: `new_vn`, `candidate_vn`, `vid`, `root_vn` | `lustre_vfsop_root`, `lustre_vnop_open/close/lookup/reclaim`, the vflush of `lustre_vfsop_unmount` | the VFS layer (calls it from any number of threads), the vnode allocator, `msleep`/`wakeup` |
| Volume structures (`volume.c`, `mount.c`, `vfsop.c`) | the structure, its three mutexes, the reference count, the mount arguments, the static URL buffer, `vfs_fsprivate(mp)` | `lustre_volume_alloc/free`, `..._ref_count_inc/dec`, `..._peek`, `..._set_mount_args`, `..._url`, getters; `lustre_mount_setup`, `lustre_vfsop_mount/unmount/getattr` | VFS, the allocator |
| Extension (`lustre.c`, `Utility/logging.c`) | allocation tag, lock group, `vfs_table_ref`, four loggers | `lustre_start`, `lustre_stop` | the kernel's file system table |
| Mount tool (`Tools/LFSMount.m`, `Tools/main.m`) and NetFS plug-in (`NetFS/netfs.m`) | one call's result and error | parse the arguments, `mount(2)`, on ENODEV `kextload` and again | the extension, through the kernel |
| Installer (`Package/`) | the files on disk, a list of volumes in a shell variable | unload the extension, replace it, load it, unmount the volumes | the extension, users' volumes |
| Directory reading (`vnop.c`, `Utility/extensions.c`) | the offset of an open file (kept by VFS), the index in the call | `lustre_vnop_read_dir`, `lustre_extension_uio_move` | user programs |
| Linked list (`Utility/list.c`) | head, tail, size, links, a mutex, a reference on each datum | enqueue and dequeue at both ends, empty, count, free | nobody yet |
| Red-black tree (`Utility/rb_tree.c`) | root, links, colours, size, a reference on each datum; an iterator's node and path | insert, find, remove, free; first, last, next and prev of an iterator | nobody yet |
| Kernel test extension (`Tests/Filesystem/test.c`) | the list of tests, one message per call | a sysctl that takes a test's name and gives its result | the daemon of the test machine |
| Test cases (`Tests/Filesystem Test Runner`, `Tests/NetFS`) | the proxy, the failures recorded | set up, run a remote test, handle a possible panic | the host's side of the test machine |
| Test machines (`Utility/Models`, `Utility/App`) | a connection, a retry count, an `NSError`; on the machine the disk and the loaded extensions; a virtual machine's snapshot | configure, invalidate, install, uninstall, run a test, revert | a daemon on the machine over distributed objects, VMware's VIX, lldb |

### What is hard in it

- **Interleaving.**  The file system is registered as thread safe
  (`lustre.c:139`), so every entry point may run in several threads.  The root
  vnode is created lazily with the lock dropped around `vnode_create`, found
  again with the lock dropped around `vnode_getwithvid`, and taken away by a
  reclaim that the kernel starts when it likes.
- **Sleeping and waking.**  A second creator sleeps in `msleep` without a
  timeout; one lost `wakeup` and it sleeps for ever.
- **Reuse.**  A vnode structure that was reclaimed comes back as the root of the
  same volume or as a file of another file system, at the same address.
- **Partial failure.**  Mounting takes a dozen steps; every failure after the
  first is cleaned up by a call of the unmount entry point.
- **State shared by accident.**  The URL of a volume is printed into one static
  buffer; an `NSError` of one attempt to install is taken for the next one's.
- **Order between processes.**  The installer, mount tools and users load,
  unload, mount and unmount with nothing between them but the kernel's checks.
- **Time.**  A call to a test machine that is not answered in five seconds raises,
  whether the machine executed it or not, and the whole installation is tried again
  on what the calls have left, while an `rm` may still be running.
- **Long sequences.**  The red-black tree and the list are right after one call and
  must be after any number of them, over addresses that are used again.

`PROJECT.json` lists each hazard with its line; those no property covers say why.

### What makes each component correct

- *Root vnode*: one root vnode per volume; whoever holds or has opened it has the
  current one; no `LUSTRE_BUG_ON` fires but that on a failed `vnode_create`; no sleeper is forgotten; a call returns;
  a forced unmount ends.  In one sentence: it behaves as `RootService`.
- *Volumes*: a mount has a volume structure of its own from its allocation to its
  unmount; no lock is used that was freed and none outlives its structure; a
  structure goes when its mount goes; the URL is the volume's own.
- *Extension*: what is mounted is served by a registered extension, and one that
  is not loaded leaves nothing behind.
- *Installer*: when it is through, the old extension does not run; it gets through.
- *Mount tool*: it mounts with the arguments its tests accept and no others, and
  says "success" of a mount that was made.
- *Directory reading*: each entry once, in order, whatever the buffers; the end is
  announced by the call that gives the last entry, and by none before; an offset the file system gave out stops no machine.
- *List*: a double-ended queue; no entry lost; references follow the data.
- *Red-black tree*: an ordered set, in a balanced search tree that loses no node.
- *Test machines*: "passed" is said only of a test that ran, on the build that was
  installed, on a machine that is not given up; and a session ends.

## 2. The plan

Most important behaviour first.

| # | Modules | Content | State |
|---|---|---|---|
| 1 | `RootService` (abstract), `RootVnode`, `RootVnodeProofs`, `RootVnodeRefinement` | the root vnode protocol: safety, liveness, refinement | checked and proved |
| 2 | `VolumeLifecycle`, `VolumeLifecycleProofs` | volume structures, mounts, updates, unmounts, the URL | checked and proved |
| 3 | `KextLifecycle`, `MountArguments`, `KextLifecycleProofs` | the extension, the mount tools, their arguments and the installer together | checked; safety proved |
| 4 | `Deque` (abstract), `List`, `ListProofs` | the linked list and its promise | checked and proved |
| 5 | `ReadDir`, `ReadDirProofs` | reading the directory in pieces | checked and proved |
| 6 | `RemoteMachine`, `RemoteMachineProofs` | a session of kernel tests: install, time out, retry, run, panic, revert | checked; safety proved |
| 7 | `OrderedSet` (abstract), `RBTree`, `RBTreeProofs` | the red-black tree and its promise | checked; safety proved |

`RootVnode` and `VolumeLifecycle` share `lustre_vfsop_mount` and
`lustre_vfsop_unmount`: the first keeps what they do to the root vnode and assumes
that the structure and `root_lock` exist, the second keeps what they do to the
structure and treats `lustre_vfsop_root` as one step.  `KextLifecycle` has a mount
as one call that succeeds or fails, and composes three parties: the extension, the
tools (through `MountArguments`, which it extends) and the installer.
`RemoteMachine` composes the host, the machine and the test extension.

What a next step would be: a second client of the test extension's sysctl, and a
composition of `RootVnode` and `VolumeLifecycle` that shows at which step of the
protocol a second refused update meets the freed `root_lock`.

## 3. The modules and the code

Each action names its function in a comment; `PROJECT.json` has the lines.

### RootVnode

The four fields of `struct lustre_volume` under `root_lock` are variables of the
same names; `root_lock` holds its owner, a thread or (by the vnode's name) the
thread that reclaims a vnode.  `pc[t]` is where thread t is in
`lustre_vfsop_get_root_vnode_creating_if_necessary`.  A step runs from one
acquisition or release of the lock, or call into the kernel, to the next:

| Action | Code |
|---|---|
| `VfsRoot`, `ReturnRoot` | entry and exit of the call |
| `AcquireRootLock` | `lck_mtx_lock`, also the one inside `msleep` |
| `WaitForAttach` | `root_attaching` is set: set `root_waiting`, sleep |
| `BeginAttach`, `CreateRoot`, `InstallRoot` | claim the creation, `vnode_create` without the lock, publish and wake |
| `PickCandidate`, `GetWithVid` | remember vnode and identifier, `vnode_getwithvid` without the lock, EAGAIN on a mismatch |
| `VnopOpen`, `VnopClose`, `VnopLookup`, `VnodePut` | what the owner of a reference does |
| `ReclaimLock`, `DetachRoot` | `lustre_vnop_reclaim` |
| `Mount`, `BeginUnmount`, `FlushVnode`, `UnmountBusy`, `FinishUnmount` | the parts of mount and unmount that concern the root vnode, also when a refused update runs the unmount on a live volume |
| `Recycle`, `Drained`, `FreeVnode`, `ForeignAlloc`, `ForeignFree` | the kernel: external, from how the code uses it |

Kept exactly: the order of the steps, every `LUSTRE_BUG_ON` (it sets `panicked`),
where the lock is held.  Abstracted: identifiers are counters, file handles and
names are gone.  The kernel is assumed to do what the code relies on: a structure
with an I/O reference is not terminated, a new use changes its identifier,
`vnode_getwithvid` waits for a vnode that is being drained, VFS keeps everybody out
during an unmount.

### RootService

What the callers see: a set of threads that have asked, the root or none, who
holds it and who has it open.  A request is answered by creating the root for
everybody or by sharing it; the root goes when nobody uses it or the volume is
taken down.  `RootVnode` maps its usable, published root vnode to `root` and calls
that have no result yet to `asking`.

### VolumeLifecycle

A pool of addresses for structures; each lock pointer of a structure is null,
valid or freed, each structure allocated or free.  `pc[m]` walks mount m through
`lustre_volume_alloc` (one step per lock), `lustre_mount_setup`,
`lustre_mount_setup_vfs`, `lustre_volume_url` (test, print and copy are separate
steps, the buffer is shared), the forced failure at the end and `lustre_vfsop_start`; `AllocError` and
`MountError` are its clean-up paths.  `Unmount` is the body both callers share.
`RefCountDec` keeps the code's comparison with the value *before* the decrement.
Failures of the allocator, of `copyin` and of the tests' `force_failure` are
choices, and so are a NULL pointer from the user in place of the mount arguments
(`NoData`, in a mount and in an update) and a `vnode_create` that fails in
`lustre_vfsop_root` (`Root`).  `bug` records the first memory error or `LUSTRE_BUG_ON`
and stops the model there.  It has a name for each kind: "BUG_ON" and "freed lock" are
about the volume that a call finds, and these `EntriesAreSafe` excludes; "no data", "no
vnode" and "null dereference" come from the caller and from the kernel.

### KextLifecycle and MountArguments

`lustre_start` and `lustre_stop` as operators used by whoever loads or unloads;
runs of the mount tool with the ENODEV, `kextload`, mount-again path; the
installer's scripts one command after the other in the order of
`Distribution.xml`.  `vfs_fsremove` fails while a mount exists or is being made.
`force_failure` is uninitialised in the tool (`LFSMount.m:101`), so a mount may
fail for no reason.  `on_disk` and `running` are the versions of the extension, as
seen from the installation under way: when it begins, what is there becomes "old".
`raced` remembers that a tool loaded the extension after the installer had looked at
it and before it removed the files; that is a window the script has, and the old
version then runs on.

`MountArguments` is the parsing.  An argument is the sequence of its parts between
colons; a part is a host that is found, one that is not, or a path.  `Process` follows
`process:` step by step, with the exception that an index past the end raises, and
`WellFormed` says what `LFSMountTestCase.m` expects.

### List and Deque

Addresses from a pool (so that reuse is seen), `prev` and `next` as functions, the
size, and the count of references taken on each datum.  Allocation of an entry is
a step before the mutex is taken; every function of the list is an action.  `misused`
is set when a step goes through a pointer to a freed entry, and the model stops
there.  `cut` is set when a dequeue at the tail may have followed a `prev` that is
not what it should be: no enqueue sets `prev`, so a tail that has an entry before it
is cut off with all of them.  After a cut the links may close into a cycle, and a
`lustre_list_free` that follows them comes to an entry it has freed (`misused`).
`gone` is set by `lustre_list_free`.

### RBTree and OrderedSet

The nodes of a pool as one record of functions (`heap`); HEAD is the local node `head`
of insert and remove, below which they hang the tree.  A step is one round of a loop,
and `frame` holds the local variables of the call under way under their names in the
source.  The tree has no lock, so a caller has to bring one: calls do not overlap, and
every call begins in a state that another has left.

| Action | Code |
|---|---|
| `InsertFirst`, `InsertFirstFails` | an insert into an empty tree |
| `InsertBegin`, `InsertPass` | the loop of an insert at a node: flip colours, rotate, stop at an equal datum, move the helpers down |
| `InsertNew`, `InsertFails` | its last round, at a null link, with and without memory |
| `RemoveBegin`, `RemovePass` | the loop of a removal: move down, then one of `NothingPushed`, `ChildRotated`, `ColoursFlipped`, `SiblingRotated` |
| `RemoveEnd` | the replacement, the unlinking, the root's colour |
| `FindBegin`, `FindPass`, `FindEnd` | a search |
| `IteratorStart`, `IteratorMove`, `WalkPass`, `WalkEnd`, `ClimbPass`, `ClimbEnd` | first and last, next and prev, the way down and the way up |
| `FreeTree` | `lustre_rb_tree_free`, and another `alloc` |

Each allocation may fail.  Null pointers that the code follows and `LUSTRE_BUG_ON`s end
the model (`heap.bug`).  A caller is assumed not to ask an iterator for more once it
has answered that there is nothing (`IteratorMove`): `rb_tree.c:107` would read through
the null pointer that is left.  Three things in this code the model
keeps as they are:

- `size` and the colour of the root are written only where the insert failed
  (`rb_tree.c:286`).  A tree grown by inserts alone has a red root, and the second
  insert rotates at its missing parent (`rbtree_rotate`).  After a failed insert or
  a removal the root is black and the tree goes on.
- Both kinds of red violation get a single rotation (`rb_tree.c:260`).  After one of
  the inner kind a red node has a red child; the data are still all there and in
  order.  The next insert rotates at such a pair again and may make a cycle of links
  and lose a datum (insert 2, an insert that fails, then 5, 3, 4).  The model sets
  `inner` and stops, so that no property depends on what follows.
- A search compares through a `uint8_t` and walks to the left only
  (`rb_tree.c:177`).  `OrderedSet` asks of a search that what it finds is there.

### ReadDir

A client's offset, the names it got since it last rewound, `eofflag`.  A call is
one step (VFS serialises calls on an open file); the buffer has room for none, one
or two entries.  A call may also fail and then leaves the offset where it was:
`uiomove` fails, or the flags are those that NFS uses, which are refused before the
offset is looked at (`vnop.c:309`).  `eof` is that of the last call that succeeded, and
`AtEnd` the test that decides it.  `lseek` may set any offset; `strayed` remembers
that a client has moved its offset to anywhere but the start.

### RemoteMachine

One host process, in `pc` and `step`, and one machine.  The host's part follows
`LFSTestCase.m` (`SetUp`, `RunTest`, `HandlePossiblePanic`), `LFSVirtualMachine.m`
(`ConfigureVM`) and the loop of `configure:` in `LFSMachine.m`: a round is an
`Attempt` to connect and then the calls of `Calls` one by one.  Each call ends as
`Answer` (the machine did what `Outcomes` allows and said so) or `Raise` (five
seconds have passed; the machine has not executed it, or has, or an `rm` is still
running and ends in `RemovalEnds`).  What an answer leads to is `After`: YES goes on
to the next call, NO ends the loop, and of the installs only the last has the loop go
on.  `error` is the caller's `NSError`, which nobody clears.  A session is all
requests of `tests`, or one deployment to a virtual or a real machine.

The machine has a build of each extension on its disk ("partial" after a copy that
failed on the way) and one in its kernel; loading and unloading follow the kernel's
rules (no two builds at once, no unload under a dependent, a load may bring the
dependency along).  It may panic whenever the extension is loaded.  The handler of
the test extension's sysctl takes the first listing whose section is a prefix of the
one asked for; `RequestsAssumption` says that no test of the listing is mistaken for
another by that.

## 4. The runs

| Run | Shows |
|---|---|
| `root_safety` | types, no `LUSTRE_BUG_ON` but that on a failed `vnode_create`, held vnodes are current, one root, no lost wakeup, the inductive invariant, and the refinement of `RootService` |
| `root_liveness` | sleepers are woken, calls return, forced unmounts end |
| `volume_safety` | own structure, no orphaned lock, no entry into a volume uses a lock that is not there or finds another volume than it asserts |
| `volume_update_twice` | **violated**: the second refused update frees locks in use |
| `volume_leak` | **violated**: an unmount leaves the structure allocated |
| `kext_safety` | the tool mounts with the arguments its tests accept and no others; mounted volumes are served; an unloaded extension leaves nothing; the new version runs; the installation ends once the volumes are gone |
| `kext_report` | **violated**: the tool reports success when the extension did not load |
| `list` | head, tail, links and size agree and no entry is lost until a dequeue at the tail meets a second entry; references follow the data until freed memory is used; up to either, the list implements `Deque` |
| `rbtree` | a search tree that loses no node, balanced, and an `OrderedSet`, up to the first inner rotation; a black root never panics; up to the end of that call, every round of a loop leaves fewer nodes to come to |
| `rbtree_rotate` | **violated**: the second insert rotates at a missing node |
| `readdir` | each entry once, in order, whatever the buffers and the failures; the end is announced by the call that gives the last entry and by none before; only an offset that a client chose itself panics |
| `machine` | passed tests ran, on the new build when the installation was complete; no two builds together; no test on a machine given up; the session ends |

The violated properties quote a comment or an assertion of the source;
`PROJECT.json` gives the line and the counterexample's meaning.

### Bounds, and why they are enough

- *Root vnode, safety*: three threads, so that one attaches, one sleeps and one
  arrives, or two hold what a third lets go; two vnode structures, so that one is
  reused elsewhere while the other becomes the root; `MaxVid = 2`, so that a
  candidate can be stale by two reuses.  Threads and structures are symmetric.
  The proofs remove these bounds (and no proof relies on `MaxVid`).
- *Root vnode, liveness*: two threads, one reuse of each structure, no symmetry.
  Without a bound on reuse a call could lose its candidate for ever, and so it can
  in the code: `RootCallReturns` holds for finitely many recyclings.
- *Volumes*: two mounts and three structures, because structures leak and the
  mounts must be able to go on; one refused update per volume, the largest number
  under which the safety properties hold (`volume_update_twice` shows two).
- *Extension*: three tools, so that one is mounting, one is loading and one is
  mounted while the installer is at any of its steps; 21 argument lists, those of
  `LFSMountTestCase.m` and some at the edge of what is accepted; no symmetry,
  because a liveness property is checked.
- *List*: two threads, two data, three addresses: a middle entry exists, an address
  is reused while two others are linked.
- *Red-black tree*: five data and five addresses: with three nodes a colour flip at
  a grandparent and both kinds of violation occur, with four a removal meets each of
  its cases, with five a removal that rotated goes on below.  `MaxRemoves` and
  `MaxSize` bound the removals and the failed inserts, which alone could go on changing
  `size` for ever; after a removal at the bound the tree can still grow.  Addresses are
  symmetric.
- *Directory*: two clients, offsets 0 to 21, one entry beyond the end.
- *Test machine*: three requests, one of which the test extension does not know and
  one whose section begins like another's; two retries in place of 120, so that an
  attempt meets what another one left and the retries run out.

### Fairness

`RootVnode`'s `FairSpec` assumes:

- weak fairness of each thread's own steps inside the call, of the reclaim and of
  the flush: the kernel goes on running what can run;
- strong fairness of acquiring `root_lock`: a kernel mutex that is free again and
  again is at some time given to a thread that waits for it (the lock is held for a
  few instructions);
- weak fairness of `VnodePut`: whoever gets the root vnode puts it back, as VFS
  does at the end of each system call.

Nothing makes a thread call, open or close, or the kernel recycle or unmount.

`KextLifecycle` assumes weak fairness of the installer: a shell script goes on with
its next command while the machine runs.  Nothing is assumed of the tools or of users:
`InstallationEnds` is about the case in which the volumes are unmounted for good.

`RemoteMachine` assumes weak fairness of the host's steps: every call to the machine
is answered or raises after five seconds, and calls of VIX and lldb return.  Nothing
is assumed of the machine; that a session ends comes from the retry count.

`RBTree` needs no fairness: that its loops end is stated as a measure that every round
decreases (`LoopsEnd`), which a cycle of links would break; so it is a safety property,
and proved, up to the end of the call that first rotates at a violation of the inner kind.

## 5. What is proved

Each of these for every value of the constants, from the assumptions the modules
name and nothing else.

| Module | From | Theorems |
|---|---|---|
| `RootVnodeProofs` | `RootAssumption` | `Invariance`, `TypeCorrect`, `BugFree`, `HeldRoot`, `OneRoot`, `NoLostWakeup` |
| `RootVnodeRefinement` | `RootAssumption` | `Refinement`: `Spec => ServiceSpec` |
| `VolumeLifecycleProofs` | `VolumeAssumption` | `Invariance`, `TypeCorrect`, `Owned`, `NoOrphans`; `SafeEntries` where `MaxUpdates <= 1` |
| `KextLifecycleProofs` | `ArgumentsAssumption` | `Invariance`, `TypeCorrect`, `Served`, `NewVersion`, `TestedArguments` |
| `ListProofs` | `ListAssumption` | `Invariance`, `TypeCorrect`, `ReferencesFollow`, `SizeCorrect`, `NothingLost`, `Refinement`: `Spec => ImplementsDeque` |
| `RBTreeProofs` | `RBTreeAssumption` | `Invariance`, `TypeCorrect`, `PanicsExplained`, `StaysSearchTree`, `StaysBalanced`, `LoopsShorten`, `Refinement`: `Spec => ImplementsOrderedSet` |
| `ReadDirProofs` | `ReadDirAssumption` | `Invariance`, `TypeCorrect`, `EachOnce`, `StrayOffsets` |
| `RemoteMachineProofs` | `RetriesAssumption`, `RequestsAssumption` | `Invariance`, `TypeCorrect`, `PassedRan`, `PassedNew`, `Matching`, `RevertedFirst` |

The properties are not inductive.  Each module has an invariant `IInv` that is, with a
named part for each thing the actors rely on, and one lemma per action that it is
preserved.

**Root vnode.**

- `LockInv`: the lock's owner is exactly the thread in a critical section, or the
  reclaim of exactly one vnode.  Without it two installs could race.
- `AttachInv`: at most one thread attaches; while it does there is no root vnode,
  and `root_waiting` is set only then.  `root_attaching` is what keeps a second
  creator out while the lock is dropped around `vnode_create`.
- `VnodeInv`: a vnode of ours is the root or is about to be published by the one
  thread that attaches; the soft reference is on the root and on nothing else.
- `ResultInv`: where in a call a result exists.
- `CandidateInv`: a candidate whose identifier still matches is the current root,
  or was reclaimed and is not yet free again, so that `vnode_getwithvid` waits for
  it and then fails.  This is why dropping the lock before `vnode_getwithvid` is
  safe.
- `MountInv`: nobody is in a call while the volume is not mounted; nothing of ours
  is left when it is unmounted; vnodes are drained only in an unmount.

Each action has a lemma that it preserves `IInv`, and one that it is a step of
`RootService` or a stutter under the mapping; the steps that matter are
`InstallRoot` (maps to `Attach`), `GetWithVid` (`Share`, by `CandidateInv`),
`Recycle` (`Recycle`, because nobody holds or has opened the root) and `Drained`
(`Revoke`).

**Volumes.**

- `NewInv`: a structure is worked on by one call of `lustre_volume_alloc`, and no
  mount has it.  Otherwise the failure of one mount could free another's.
- `OwnInv`: a call that mounts knows no structure but its own, also on its way out.
- `LabelInv`: the arguments are in the call and, from `lustre_mount_setup` on, in
  the volume.
- `LockInv`: the reference count says what is left of the locks.  All three are there
  as long as it has not passed zero, and `Update` cannot bring it below
  `1 - MaxUpdates`.  That is what `SafeEntries` rests on, and why it needs
  `MaxUpdates <= 1`: with one refused update the count is zero and the locks are
  there; the next decrement frees them.  `SafeEntries` speaks of the locks and of the
  `LUSTRE_BUG_ON`s on the volume that is found (`volume.c:155`, `mount.c:246`).  It does
  not speak of those on NULL data and on a failed `vnode_create`, which the model
  reaches without any of this.

**Extension.**  `InstallInv` relates the phase of the installer to what is on disk
and what runs: between the removal and the copy there is nothing to load, and what can
be loaded after it is new.  Without it `NewVersionRuns` says nothing of the phases
before the last.  `TestedArguments` needs no invariant: it is `MountIsWellFormed`,
about lists of any length, which shows that `ParseDevice` and the checks after it
accept exactly a device that is a sequence of hosts and a path.

**List.**  `SizeIsLength` and `NoEntryLost` speak of the walk from `head`, which no
single step can be reasoned about.  The invariant speaks of a chain instead: there is a
sequence `q` of as many different allocated entries as `size` says, beginning at `head`,
ending at `tail`, each linked to the next and the last to nothing (`LinkInv`).  Each
action of the code then is an operation on that sequence (`LinksPushed`,
`LinksAppended`, `LinksPopped`, `LinksNone`), and the walk is read off it once and for
all (`NthOfChain`).

- `PendingInv`: an entry a thread has allocated for an enqueue is its own, is not
  on the chain and leads nowhere.  An enqueue allocates before it takes the mutex, so
  others change the list in between.
- `FiniteInv`: the reference counts are counted over a finite set.
- The walk is a recursive function over the numbers.  That it exists is not taken for
  granted: `WalkExists` and `NthRecursion` show it, by the least number for which it
  would fail (the library's induction rule is out of the provers' reach).

For the refinement each action has a lemma that it is a step of `Deque` or changes
nothing there: an allocation is `Ask`, an enqueue `Put`, and so on.  Steps that misuse or
cut the list, and all after them, are excepted in `ImplementsDeque` itself.

**Red-black tree.**  `SearchTree` speaks of what can be reached from a node, and
`Balanced` of the ways down from it; neither can be computed by the provers, for which
induction over trees is out of reach.  The invariant has witnesses in their place:

- `Tree`: there is a function B that gives each node the two nodes that bound it, or
  NULL where nothing does.  A child on side i has its parent's bound on side i and the
  parent as its bound on the other side (`Bounded`); a node's datum lies between its bounds and no link
  leads to a node twice (`Ordered`, `Unshared`).  `Complete` is what makes it a tree
  that loses nothing: where a datum lies within the bounds of a node and on one side of
  it, the link on that side is not null.
- `Heights`: there is a function H with the number of black nodes on every way down.
- `Sound` holds of the *whole* tree, that is including the node HEAD while a call has
  the tree hanging there (`Whole`), so that it does not stop to hold within a call.
- `InsertInv`: where the helpers t, g, p and q are, that the datum belongs below p, that
  a red node has no red child unless it is on the way of this insertion, and that
  where g is missing a black root was black all the time.  The last is what
  `PanicsExplained` rests on.  `Placed` tells where t and g are after a rotation has
  moved them apart.
- `RemoveInv`: q or its child on the way is red (or q is the top), which is what
  lets the last node be unlinked without a change to the heights; and f, once found, is
  the bound of q, so that q's datum may take its place.
- `WalkInv`: the path of the iterator is the way from the root to its node, and the
  bound of the node on the way is where the walk came from.

Each change of links is a lemma of its own that gives the new B (`BoundsGrown`,
`BoundsRotated`, `BoundsWithout`) and the new H: a leaf hung below a node, a rotation, a
node taken out.  What `SearchTree` says of reachable nodes follows from `Tree` through
the set of all nodes within a node's bounds (`Part`): the links do not leave it; and of
the reachable nodes whose part holds a given node m, the one with the smallest part
(`Sizes`) is m itself, as otherwise a link would lead to one with a smaller part.  The
choice of a smallest part takes the place of the induction that the provers do not have.
The bound of `Balanced` on the heights is shown in the same way.

`LoopsShorten` needs no more of the invariant.  A round goes down one link, and what is
below that link before the round contains all that is below the same node after it:
the rotations of an insertion, and those at the sibling in a removal, write only to
links of nodes that are not below it (`LinksStay`), and the rotation at the node itself
only to links within that part (`Kept`).  The node left behind is not in the part.

For the refinement, what the calls of the iterator answer is the nearest datum on the
side they go to (`IsNearest`), which is the bound of the node at which a walk ends or from
which a climb begins.

**Directory.**  `ReadInv`: the offset of a client that only reads and rewinds is 7
times the number of entries it has, and it was told of the end exactly when it has them
all.  `EachEntryOnce` speaks only of what was read and announced; the next call depends
on the offset.

**Test machine.**

- `StageInv`: what the calls answered YES in this attempt have left on the machine.
  It is stated with "none or new" for the disk, because an `rm` of an earlier attempt
  may end at any time, and holds although the attempt began on whatever the earlier
  ones left: the unloads and removals that begin an attempt must have been answered.
- `CompleteInv`: after the last YES both extensions in the kernel are new, until
  another attempt begins or the machine is reverted.
- `ControlInv`: where the host may be, with which proxy; in particular that a test
  is run without a proxy only if a failure is recorded (which is why a nil proxy,
  whose answer counts as no failure, passes nothing).
- `PanicInv`: a machine given up as panicked has neither proxy nor connection to
  VIX, so the host has to go through the revert.

### What is only model-checked

- Every liveness property (`SleepersWoken`, `RootCallReturns`, `ForcedUnmountEnds`,
  `InstallationEnds`, `SessionEnds`): the proof system has no rule for fairness and
  ENABLED that would do.
- The four violated properties.

## 6. What is not modelled, and why

- `RootVnode` assumes that `struct lustre_volume` and `root_lock` exist as long as
  the volume is mounted.  `VolumeLifecycle` shows that they do with at most one
  refused update, and `volume_update_twice` that they do not with two.
- A failed allocation of the volume structure reads through a null pointer
  (`volume.c:81`).  `AllocVolume` has this outcome and `EntriesAreSafe` excludes it
  by name: no path reports the failure, so there is nothing else to check.
- Two more stops are steps of the model about which nothing is claimed, because the
  code does reach them.  `mount(2)` hands the user's own pointer to
  `lustre_vfsop_mount` (`lustre.c:143` does not set `VFS_TBLLOCALVOL`), which insists
  that it is not NULL (`vfsop.c:244`): `NoData`.  `lustre_vfsop_root` insists that
  `vnode_create` succeeds (`vfsop.c:123`): `Root`, and `CreateRoot` of `RootVnode`.
- The static buffer of `lustre_volume_url` (`volume.c:194`): a second mount reports
  the first one's URL, or a torn one.  `TestUrl`, `PrintUrl` and `CopyUrl` have it;
  no property worth stating holds of it.
- A refused `lustre_stop` has already released the loggers that the running
  extension goes on using (`lustre.c:243`), and a failed `lustre_start` does not
  release them (`lustre.c:207`).  `Start` and `Stop` have both; no property is about
  the loggers.
- `lustre_list_empty` reads entries it has freed (`list.c:231`): `Empty` sets
  `misused`, and nothing is claimed after it.  `lustre_list_free` drops the data
  without their references (`list.c:92`): `RefsFollowData` is claimed up to it.
  What is left of a list after a dequeue at its tail (`list.c:203`) is not described:
  the properties on links and entries end at `cut`.
- Of the tree, what a search misses (`rb_tree.c:177`) and what the insert after an
  inner rotation loses (`rb_tree.c:260`) are in the code and caught by no property:
  `OrderedSet` lets a search find nothing, and the model stops before that insert.
- An offset that is no multiple of 7 panics (`vnop.c:335`), as the comment at
  `vnop.c:332` says.  `readdir` shows that only a client's own `lseek` gets there.
- `configure:` answers YES when a step failed and the heartbeat was set before it
  (`LFSMachine.m:67-93`): `After` has it, and `PassedOnNewBuild` is claimed of
  installations whose last call was answered.  `uninstallAll:` removes
  `Filesystems/Lustre.kext`, not the bundle that was installed; that bundle holds
  no extension, and the calls about it change nothing that is modelled.  Likewise
  nothing but that no test passes unrun is claimed of a `configure:` that takes the
  last attempt's `NSError` for its own and answers YES with nothing installed
  (`LFSMachine.m:265`).
- A machine that may have panicked is not given up when the debugger's output has no
  end (`LFSTestCase.m:114`): `HandlePossiblePanic` has it, and `PanicIsReverted` speaks
  only of machines that were given up.  A request whose section begins with the section
  of another test of that name would run that other test (`test.c:84`): `Handler` has
  it, and `RequestsAssumption` rules it out, as the repository's listing does.
- Properties whose hypothesis leaves a window of the code out: `NewVersionRuns` a load
  between the installer's last look and the removal of the files (`preinstall:23`),
  `InstallationEnds` a volume that stays mounted (`preinstall:28`),
  `MountsWhatIsTested` the way in which an exception is reported (`LFSMount.m:140`).
- That the connection's death is noticed only between tests or during a call
  (`ConnectionDidDie`, `Raise`) is an assumption about the run loop, and whether
  XCTest calls a test whose `setUp` raised is left open (`Heartbeat`).
- Of the test machines: the start and stop of the daemon (`LFSMachineDaemon.m`),
  `copyResource:` and the functions of `LFSVix.m` that have no caller.  Of the test
  extension: names that are no `section.name`, and a second client of the sysctl,
  which would share its one message buffer; the runner has one connection.
- Attributes of files and volumes are constants or numbers no property is about
  (`VolumeGetAttr` keeps the lock they are read under).  `lustre_vfsop_sync` does
  nothing; the entry points that are NULL in `vfs_ops` do not exist.
  `lustre_volume_ref_count_inc` has no caller.
- `apple_private.c` (declarations and string helpers that nothing uses), the
  vendored `vix.h` and `vm_basic_types.h`, wording, logging, locales, the entry
  points of the NetFS plug-in that build dictionaries, and the build scripts.
