# TEADFS: a TLA+ verification project

TEADFS is a stackable Linux file system (after eCryptfs) that leaves encryption to a
user-mode daemon. A thread that opens, closes, reads or writes a file of the mount
asks the daemon over netlink and waits for the answer. This directory models that
system, model-checks it with TLC and proves its safety properties with TLAPS.

## 1. Inventory

| Component | Source | State | Operations | Talks to |
|---|---|---|---|---|
| Upcall | `user_com.c`, `netlink.c`, `global_param.c`, `protocol.h` | queue of message contexts (state, id, response) with a mutex, `unique_id`, client pid, connect flag | `teadfs_request_open/release/read/write`, `teadfs_request_send`, `wait_answer`, `teadfs_netlink_receive` | daemon, by netlink |
| Control device | `miscdev.c` | connect flag | open (refused while open), release | upcall |
| Daemon library | `TEADFS-utils/main.cpp`, `netlink.cpp`, `request.cpp` | socket, device, callbacks | `StartTEADFS`, HELLO, receive thread, `deal_teadfs_msg` | kernel; thread pool |
| Thread pool | `thread_pool.h`, `pevents.cpp` | task list, workers with status and event, dispatcher with event | `AddTask`, dispatcher and worker loops | receive thread, callbacks |
| Opening and closing | `file.c` | per inode: `lower_file_count`, `lower_file_mutex`, `file_decrypt`; per file: access, lower file, path | `teadfs_open`, `teadfs_release`, `get/put_lower_file` | upcall; lower file system |
| Page caches | `mmap.c`, `file.c` | `i_data`, `i_decrypt`, page locks, `i_mutex` | `readpage`, `write_begin`, `write_end`, `aio_read`, `aio_write` | upcall; lower file |
| Bytes and sizes | `mmap.c`, `inode.c`, `lookup.c` | lower bytes, `i_size`, cached pages | read, write, `setattr` with a size | lower file |
| Names and inodes | `inode.c`, `lookup.c`, `dentry.c`, `super.c` | per dentry: lower dentry and mount; per inode: lower inode, link count | lookup, create, link, unlink, mkdir, rmdir, mknod, symlink, revalidate, `d_release`, `evict_inode` | VFS; lower file system |
| Directory locks | `inode.c`, `lookup.c` | mutexes of lower directories, both trees | the same, and rename, setattr, xattr | VFS; lower file system |
| Mount and module | `main.c`, `super.c`, `netlink.c`, `miscdev.c`, `global_param.c` | superblock and its private data, bdi, lower path, root; socket, device, registered type | mount, kill_sb, init, exit, RCU callback | VFS; all of the above |
| Pass-through calls | `inode.c`, `file.c` | none | readlink, readdir, fsync, flush, ioctl | lower file system |
| Logging, allocation | `teadfs_log.c`, `mem.h` | none shared | | |
| Test daemon | `test/test.cpp` | none | the callbacks: recognise a label, xor bytes, label on release | mount |

What is hard here: a requester, the receive handler (running in the daemon's
context), timers and up to two daemon processes work on one queue; the daemon opens
the very files it is asked about, so every lock held over an upcall may be one it
needs; a file has two page caches of different form; failures of the upcall hit in the
middle of page operations; the header shifts offsets in some functions only. Names
and inodes stand on objects of another file system, which others use directly, which
forgets inodes and reuses their addresses, and whose directories have locks and a
shape of their own. The list with lines is `hazards` in `PROJECT.json`.

## 2. Modules

| Module | Role |
|---|---|
| `Upcall` | the upcall from the request to the answer, with daemon processes that start, register, answer, die |
| `UpcallAbs` | what an upcall promises; `Upcall` implements it (`AbsSpec`) |
| `UpcallProofs`, `LowerFileProofs`, `ThreadPoolProofs`, `PageCacheProofs`, `DirLocksProofs`, `MountProofs`, `NamespaceProofs`, `FileDataProofs` | theorems about the module of that name |
| `ThreadPool` | the daemon's receive thread, dispatcher, workers |
| `LowerFile` | open and release of one file by programs and by the daemon |
| `PageCache` | concurrent reads and writes through both caches, with failures |
| `FileData` | bytes, offsets and sizes of one file, sequentially |
| `Namespace` | upper dentries and inodes and the lower ones behind them, with failures, shrinking caches and direct changes |
| `DirLocks` | who locks which lower directory, and the upper and the lower tree |
| `Mount` | module load, mount, unmount, unload |
| `MC*` | instances for TLC |

### Upcall

One step per access to shared data. `pc[t]` is the place of thread `t` in
`teadfs_request_*` / `teadfs_request_send`; `state, ctxId, respSize, respMsg` are the
fields of its context; `at, pkt, to, stored` describe the receive call that holds the
queue mutex (one at a time gets past `netlink.c:73`; the others wait in `door`). The
loads at `user_com.c:75-76` and the stores at `netlink.c:80-86` have no common lock and
may happen in either order. The copy of the payload needs no step of its own: the
requester must take the queue mutex, which the receiver holds until the copy is done,
before it reads the payload. A write upcall whose response is accepted frees it and then
reads its size from it (`user_com.c:478-480`): a step of its own, `WriteSize`, which may
find anything there. A request sent to pid 0, before any HELLO, comes back through the
kernel's own receive handler in the requester's context (`echo`). External: netlink
delivery (lost, delivered, in any order between threads) and `wait_event_timeout`.

### ThreadPool

List and event operations are atomic (each has its mutex), `m_status` and `m_bExit`
are read while they are written. A time-out of an idle worker can happen whenever it
sleeps. `RcvDies` is the end of the receive thread after a failed `poll`.

### LowerFile

The upcalls are reduced to sent, taken by a worker, answered or timed out. A worker
that serves a request may open and close the file itself, as the callbacks in
`test/test.cpp` do, and answer before or after. `Hello` and `Goodbye` let daemons
replace one another; the files of a daemon that has gone are closed later. The history
variable `mishaps` records the two events after which the count is known to be wrong:
a failed lower open (`file.c:87`) and a process that became or ceased to be the client
between open and release.

### PageCache

A page is a function from cells to contents, a content is a write number and a form
(plain, cipher, garbage when coded the wrong way or never written, or a hole). `size` is
the size of the file in pages. A write past it takes the path of `mmap.c:445-464` with
the page locked: `teadfs_truncate`, `truncate_upper` and `teadfs_write` store zeros one
page at a time, each time with an open upcall of its own (`GrowOpen`, `granted`) and a
lower write (`GrowStore`), any of which may fail (`GrowFails`) with part of the zeros
stored; then the page is cleared (`ZeroPage`). A page is filled beyond the end of the
file with whatever its memory holds. A read of an up-to-date page
changes nothing and has no action: what it returns is what the invariants say of the
cache. `tainted` records the pages that a failed upcall, a failed write, a read beyond
the end or a skipped invalidation has left different from the file; `stored` that
something was stored without an answer that says "decrypt"; the view invariants are about all
others, and hold after any number of failures elsewhere. External: page locks,
`i_mutex`, reclaim, the loop of `generic_file_aio_*`. The page number means the same
data in both views; the shift by the header is `FileData`'s.

### FileData

One program, no failures; bytes are 0 in holes, 1 at first, 2 when written, coded by
adding 10, and `Junk` in memory nobody has written. `ref` is what the file should
contain. Writes lie within one page, as each call of `write_begin` does. The loop of
`truncate_upper` is a recursive function of the number of chunks done (`Grow`).

### Namespace

Upper inodes are indexed by the address of the lower inode, since that is how
`iget5_locked` finds them (`lookup.c:73`); addresses are given to files and taken away by
the lower file system (`LowerShrink`). `lref` counts what `igrab` and `iput` do,
`ld[l].count` what `dget` and `dput` do, `mnt` what `mntget` and `mntput` do;
`teadfs_get_lower_path` takes nothing, as in the code. An operation is two or three steps:
the call (`Begin`), the lower operation under the lower directory's lock, and, where other
threads can get in between, `iget5_locked` or the change of the link count. Others can
only wait for an inode between `iget5_locked` and `unlock_new_inode`, so that these are
one step. `DirFiles` are the files that are directories. mkdir is mknod, and rmdir is
unlink, but for the link count of the directory they work in (`CountDir`, `inode.c:544`,
`:575`): `dircall` are the calls that are one of the two, `dnlink[d]` is the count of
directory `d`, as far as it counts subdirectories (`Subdirs` is the lower one). create
differs from them in what it undoes, symlink and link in the references they take. The
attribute copy of getattr and `d_revalidate`, which hold no mutex, is a read and a write;
that of setattr and setxattr is one step, as the inode's mutex keeps link, unlink and
rmdir out. `ReadDirAttr` and `CopyDirAttr` are the same copies for a directory itself.
`lost`, `forgot`, `orphan`, `touched` and `behind` are history variables: references to
lower dentries and to the mount that a failed lookup forgot, dentries whose create could
not be undone, names that another process has changed, directories whose count a mkdir has
left without setting. External: the VFS (mutexes of upper directories and inodes, dentries
that stay while a call uses them) and the lower file system. rename is `DirLocks`'s. That
a lower file system may report success without instantiating the dentry
(`!lower_dentry->d_inode`) is left out.

### DirLocks

Two trees over the same nodes, and the mutexes of both. The VFS takes its locks in one
step, on the upper tree; then the call finds the lower directory from the lower dentry
(`dget_parent`) and locks it; `lock_rename` is taken apart into its steps. A lower
operation on an entry that is not in the directory it was given ends in the `BUG_ON`
of `may_delete`. `MoveDirectly` is another process that moves a directory in the lower
tree, correctly. `Ancestors` is the least set that is closed under going up, which is
also what the proofs use; `lock_rename` decides its order once, when it has the rename
mutex, and `pc` remembers which directory remains to be locked.

### Mount

One record per mount call with what it has taken, 0 or 1 of each; every step may fail and
go to the common end of `teadfs_mount` (`main.c:129-139`). An error pointer from `sget` is
deactivated and ends the thread (`oops`). The init function ignores what its steps return
and reports success, so that every subset of them may have been done. `rcu` counts inodes
whose `teadfs_i_callback` is still to come.

## 3. Runs

Passing:

| Run | Shows | Bounds and why |
|---|---|---|
| `upcall_safety` | use after free, mixed-up answers, self-waiting daemon, lost request buffers of open and release: none | two programs, a daemon thread, two daemon processes, two requests in all: two contexts in the queue, a late answer and a change of daemon meet; ids stay below their bound |
| `upcall_return` | `UpcallReturns`, and `AbsSpec`: the abstract upcall is implemented | a program and a daemon thread (which makes calls only while its process, registered by then, handles a request, and which the pid check sends back), two daemon processes, three requests |
| `pool_safety` | erased workers; `HandledUnlessWasted`: a task is handled unless a wake-up went to a leaving worker | three workers, three tasks, two idle time-outs before exit instead of 12: the count only delays the exit |
| `lower_safety` | `CountExact`, `AloneInRelease`, `LowerOpen`, `CallsReturn` | two programs, a worker of one of two daemons that replace each other, four opens; the safety properties are proved for any number |
| `cache_safety` | locks, plaintext, both views; `UpcallLetsRead`: a page locked over an upcall is one a callback may read | two threads, two writes, one page that may become three: a second write while the first drops the other cache, a write that needs a page of zeros and fails before or after it is stored, readers of the new pages meanwhile; a page is one cell, the theorems are for any |
| `data_safety` | stored bytes, the size of a plain file, cached bytes | pages of two bytes, header of one, six bytes, three writes or truncates; a growing truncate needs up to three chunks |
| `namespace_safety` | `LowerRefs`, `SameFile`: no reference is lost or given back too early, and nobody gets another file's inode; `Mirror`, `NlinkCurrent`, `InodeNotStale`: what is cached agrees with the lower directory; `DirNlink`: so do the link counts that mkdir and rmdir set | two threads, a name in each of two directories (one thread at a time may change a directory), two files, two addresses, two dentries on each side: a file with two links, an address that is reused and a dentry that is dropped while another looks up its file all happen; one lost lookup, one direct change; one of the files is a directory, and an attribute copy of its parent without the mutex may be under way at any time |
| `dirs_locks` | `LocksReleased`, `InStep`, `LowerIsTree`, `DirOfEntry`, `CallsReturn` | two threads, a root with two directories and one below, one direct move, after which both refusals of rename happen |
| `mount_safety` | `Balanced`: everything taken is given back exactly once | two mounts at a time, four in all, any number of loads and unloads |

Two runs give TLC a `VIEW`, which merges states that differ only in what is not read again:
in `cache_safety` the locals of a thread that is not reading or writing, in
`namespace_safety` the counts of directories once a name has been changed directly.

Three runs show that the code does not do what its own comments say (`findings` in
`PROJECT.json` quotes them):

| Run | Property | What TLC shows |
|---|---|---|
| `cache_undecrypted` | `PagesDecrypted` | a failed read upcall leaves an up-to-date page of ciphertext in the decrypted view |
| `data_hole` | `HolesZeroed` | a write beyond the end of the file, within its last page, leaves uninitialised memory in the cached page |
| `mount_unload` | `DeallocationNotMissed` | after an unmount the module is unloaded while RCU still has callbacks into it: there is no `rcu_barrier` |

Other defects were met while modelling. The properties of the passing runs name the
exceptions they make for them (`mishaps`, `tainted`, `stored`, `holed`, `cut`, `WakeWasted`,
`lost`, `orphan`, `touched`, `behind`, `Stale`, `moves`), or are worded
so as not to claim what does not hold:

* `netlink.c:79` announces an answer before it is stored, so that a requester may take
  nothing, or one field of two. `AbsSpec` shows that this ends as a failure and never as
  a mixture; that it fails although the daemon answered is not ruled out.
* Read and write upcalls never free the request packet, and a write frees the response
  only on success (`user_com.c:391`, `:475-479`).
* `lower_file_count` falls below zero, against `WARN_ON_ONCE(count < 1)` at `file.c:82`,
  after a failed lower open has reset it (`file.c:87`), and when a daemon is replaced
  between an open and its release (`file.c:110`).
* The lower file of a program is never put (`file.c:121`), a refused open loses its path
  buffer (`file.c:420`), and `file_decrypt` is never set (`file.c:387`).
* A write through a file open as encrypted is refused only after the shared page was
  changed (`mmap.c:104`); `invalidate_remote_inode` skips a page that is being read
  (`file.c:218`), which keeps its old contents.
* `teadfs_write` does not put its lower file when `teadfs_write_lower` fails
  (`mmap.c:250-254`). A page that is read beyond the end of the file is marked up to date
  with the memory it was given (`mmap.c:47`, `:429`, `:442`), and stays if the write that
  wanted it fails.
* `teadfs_write` goes on when its own open upcall fails, and stores the zeros of a write past
  the end as they are and without the shift by the header (`mmap.c:240-249`), although
  `mmap.c:200-201` says "individual extents are encrypted".
* `i_size` of a decrypted file is that of the lower file, header included (`lookup.c:33`),
  although `lookup.c:32` says it "will be overwritten for encrypted regular files".
* For a decrypted file, truncate cuts the lower file without the header (`mmap.c:340`),
  and a read returns fewer bytes than it moves `f_pos` over (`file.c:186`).
* The dispatcher may wake a worker that has reached its idle limit and leaves without
  looking at the list; the task stays until the next one comes (`thread_pool.h:165`).
* `teadfs_request_write` reads a response it has freed (`user_com.c:480`); `NoUseAfterFree`
  and its theorem end before that step. With pid 0,
  netlink takes the receive handler's mutexes under `read_lock_bh` (`netlink.c:124`).
* A daemon thread that opens the file inside the release callback waits for the mutex
  of the thread it serves (`file.c:386`, although `file.c:70` says "teadfs client not
  lock"), until the 30 second limit.
* The refusals of `teadfs_rename` leave the lower directories locked (`inode.c:645-653`).
  They are needed for `LowerIsTree` and come only after a direct move in the lower tree,
  which also lets `teadfs_unlink` pass a directory that the entry is not in (`inode.c:356`).
* A lookup that cannot get its inode loses a lower dentry and a mount reference
  (`lookup.c:148-152`); one that reads a lower inode before somebody makes the file
  dereferences NULL (`lookup.c:96`, `:130`).
* `teadfs_create` returns 0 without an inode and does not look whether it could remove
  the file (`inode.c:69-77`).
* getattr and `d_revalidate` copy link counts without the inode's mutex (`inode.c:112`,
  `dentry.c:74`), which may leave an old one.
* A mkdir that cannot get its inode leaves the lower directory made and the link count of
  the directory as it was (`inode.c:539-541`), until something sets it again.
* A mount deactivates an error pointer if `sget` fails (`main.c:132`); insmod reports
  success whatever has failed, and the exit function then releases what was never made
  (`main.c:201`, `:208-210`); a mount may come before the parameters of the upcalls are
  initialised (`main.c:184`). `teadfs_i_callback` writes to the inode it has freed
  (`super.c:107`).

`CHECK_DEADLOCK FALSE` everywhere: the bounded numbers of requests, opens, tasks, writes
and mounts let every instance come to rest, or a known defect stops a thread. That nothing
stops earlier is what the liveness properties say.

Every property of a passing run has a mutant: a changed definition under which TLC finds
it violated.

### Fairness

* `Upcall!FairSpec`: weak fairness of each requester's steps, of the receive handler
  and of the queue mutex being granted. The scheduler runs runnable threads, timers
  fire, and mutex waiters queue. Nothing is assumed of the daemon or of netlink. Weak
  fairness is enough for the mutex because the bound on ids lets the receive side hold
  it finitely often; the kernel's mutexes give the same by queueing.
* `ThreadPool!FairSpec`: receive thread after a read, dispatcher, workers; no time-out is
  needed.
* `LowerFile!FairSpec`: weak fairness of what a thread does inside the kernel, time
  limit included. Nothing of the daemon, nothing of programs.
* `DirLocks!FairSpec`: strong fairness of a call's own steps. A call that waits for a
  mutex finds it free again and again while others come and go, and the kernel's
  mutexes queue their waiters, so that it gets it; weak fairness would let it be passed
  over for ever. Nothing is assumed of who makes calls.

## 4. Proofs

`UpcallProofs` proves, for every finite set of threads, any daemons and every bound on
ids below the id space (`ThreadsAssumption`, `TgidAssumption`, `PidAssumption`,
`KindsAssumption`, `IdAssumption`):

* `Invariance`: `Spec => []IInv`. `IInv` joins `TypeOK` with five parts, none of which
  is inductive alone. `IdInv`: a thread has an id exactly from `Build` to `Return`, and
  ids differ (fresh because `unique_id` only grows below the bound). `LinkInv`: a
  context is linked, allocated and labelled as the requester's place says, and the
  receiver works on a linked one; it needs both sides' use of the queue mutex.
  `MsgInv`: a stored or loaded response answers that request and is live memory.
  `DaemonInv`: a daemon thread inside an upcall is one the pid check will stop.
  `AnswerInv`: every packet under way was sent, and no id is answered while its request
  is still to be sent or with the daemon.
* from it `TypeCorrect`, `MemorySafe`, `AnswersMatch` and `ClientIgnored`, each for a
  property of the run `upcall_safety`, and `OneDaemon` and `IdsDistinct`, which no run
  checks (that ids are fresh is part of `AbsSpec`).
  `MemorySafe` is about a response until it has been checked and copied from, for every
  kind of request; what a write does after that is the defect named above;
* `Refinement`: `Spec => AbsSpec`. Initial states map to initial states; `Build` is the
  abstract `Ask`, sending an answer is `Reply`, `Return` is `Finish`, the early returns
  are `Refuse`, all else stutters. A write returns in `WriteSize`, with its own answer or,
  where freed memory says so, a failure; the abstraction allows both.
* `RequestsReleased`: `Spec => []RequestsFreed`, inductive together with `IInv`.

That ids are never reused while in use rests on `MaxId < IdSpace`: 2^64 requests are
not made, and the wrap of the counter (`global_param.c:44`) is out of scope.

`LowerFileProofs` proves, for every finite set of threads, any daemons and any number
of opens (`ThreadsAssumption`, `NoneAssumption`, `AnswersAssumption`,
`BoundAssumption`), `Invariance` and from it `TypeCorrect`, `CountIsExact`,
`ReleaseAlone` and `NoEarlyPut`. The inductive invariant adds two parts to the
properties: `HoldInv` (the mutex is held exactly in the release upcall) and
`CountedInv` (only open files are counted, and a thread on its way to the last put is
counted unless there was a mishap). They are needed because `atomic_dec_and_mutex_lock`
decides in two steps: between the look at the count and the mutex others open and
close. `TypeOK` needs `LowerOpen`, without which the number of lower files could fall
below zero.

`ThreadPoolProofs` proves, for any number of workers, tasks and time-outs
(`WorkersAssumption`, `BoundsAssumption`), `Invariance`, `TypeCorrect` and
`NeverUsedAfterErase`. `m_status` and `m_bExit` are read without a lock, so the invariant
has to say what each value means for the thread: `RepeatInv` (who is told to leave does
nothing more than leave), `StatusInv` ("exit" is written only by a thread that has ended;
the pool is exactly the workers that exist), `Distinct` (each is in it once, so that
erasing a position erases a worker) and `PickInv` (the worker that the search has found
lies before the position it has reached, which is why the erasures that follow do not
touch it). `TaskInv` is needed for types. Two more theorems are about the tasks:

* `NeverForgotten`: while a task is in the list, somebody is to look at it: the receive
  thread is about to tell the dispatcher, the dispatcher has been told or is searching, or
  a worker is looking or has been woken, unless a wake-up was wasted on a worker that is
  leaving. It is the safety half of `HandledUnlessWasted`: every step hands the duty on
  (`WakeStep`), in whichever order the fields are read.
* `HandledOnce`: every request that `ThreadRcv` has read is in exactly one place (about to
  be added, in the list, in the hands of one worker, handled) and the list is in the order
  of arrival. The invariant behind it counts: with `Popped` requests popped, the list is
  `Popped + 1, Popped + 2, ...` (`ListInv`) and what is in hand or handled is
  `1 .. Popped`, each once (`HandInv`).

TLC has checked both, with their invariants, on the instance of `pool_safety`.

`PageCacheProofs` proves, for any threads, pages, cells, first size and number of writes
(`NoneAssumption`, `AccessAssumption`, `BoundAssumption`, `PagesAssumption`),
`Invariance` and from it `TypeCorrect`, `AlwaysReleased`, `AlwaysCipher`,
`AlwaysDecrypted`, `AlwaysStored` and `CallbackMayRead`. The views hold of settled pages
only; the invariant says what a page is on its way there. `PageLockInv` and `MutexInv`
are equivalences (a lock is held exactly at these places), so that two threads never work
on one page and writes do not overlap; `FillInv` keeps a page that is being filled from
being up to date; `WriteInv` says that the data of a write are in the page until they are
stored; `DecryptInv` and `StoredInv` are the views with an exception for the cell being
written and with the state of a page between the lower read and its decryption. Three
more are about the end of the file: `GrowInv` (a thread that stores zeros is working on a
page that is up to date and not below the end), `HoleInv` (what is beyond the end is a
hole) and `BeyondInv` (a page beyond the end that is up to date is tainted, unless its
writer has it locked and has cleared it), which is what makes the views true of a page at
the moment the file grows over it.

`MountProofs` proves, for any number of mounts (`MountsAssumption`), `Invariance`,
`TypeCorrect` and `AlwaysBalanced`. The invariant is a table of what a call
holds at each of its steps and after each failure, with the fact that mounts and the open
device keep the module loaded; the common end of `teadfs_mount` and `kill_sb` are computed
on each line of the table.

`DirLocksProofs` proves, for any tree with any number of nodes, any threads and any direct
moves (`NoneAssumption`, `TreeAssumption`, `RootAssumption`, `BoundAssumption`),
`Invariance` and from it `TypeCorrect`, `AlwaysTree`, `AlwaysInStep`, `AlwaysInDir` and
`AlwaysReleased`. First come facts about trees: going up from a node never comes back to
it, at most one child of a directory is above another directory, so that `lock_rename`
returns exactly that child; a tree stays a tree when a leaf is taken away or a node is put
under a directory that it is not above. Then the argument: `CallInv` (what the VFS has
locked and checked for a call lasts until it returns) makes the nodes that two calls work
on disjoint; `AliveInv` and `StepInv` say that the trees differ only in such nodes, and
how; `ParentInv`, `LocalInv` and `LowerLockInv` that a call has found and locked the
directories it works in. `TrapInv` carries the check of `teadfs_rename` from `lock_rename`
to `vfs_rename`: the call holds the rename mutex of the lower file system, and what others
do without it only takes nodes away, which adds no ancestor; `LowerIsTree` follows, direct
moves or not. `UpperInv` is the same for the upper tree, as long as nobody moves anything
directly, and with it `NeverRefused`: the refusals that would leave the lower directories
locked are not reached.

`NeverCircle` adds that until the first direct move no calls wait for each other in a
circle, for any number of threads and any tree: in every set of threads there is one that
waits for none of the others, be it for a lower directory, for the rename mutex or for what
it removes or replaces (`WaitsFor`). The lower locks alone would not give this, since
`teadfs_rename` takes them in the order of the lower tree and a removal takes the parent
and then the entry. Two invariants on top of `IInv` do: whoever has a lower directory locked
is on the way to its lower operation and it is a directory of its call (`OwnedInv`), which,
`EntryInv` for new entries included, it has locked in the upper tree too (`LockedAbove`),
unless it is a call on the node alone such as getxattr. So whoever has the upper lock waits
only for such calls, and these wait for nobody; a chain of waiting calls has at most three.
This is the safety half of `CallsReturn`; TLC has checked it on the instance of `dirs_locks`.

`NamespaceProofs` proves, for any names in any directories, any files and addresses, any
number of threads and dentries and any direct changes (`FiniteAssumption`,
`NoneAssumption`, `DiskAssumption`, `DirFilesAssumption`, `DirectAssumption`),
`Invariance` and `CountsInvariance` and from them `TypeCorrect`, `AlwaysSameFile`,
`AlwaysExact`, `GrabsExact`, `AlwaysMirror`, `AlwaysNlink`, `AlwaysDirNlink` and
`NeverStale`. The parts of the invariant lean on each other:

* `CountInv` says what each reference count is made of, as cardinalities of the sets of
  those who hold one. That a count is above zero while somebody uses the dentry, and so
  that the lower dentry and inode stay, is all the other parts have to stand on.
* `LowerInv`: a hashed lower dentry is what the lower directory says, there is one per
  name, and a file has one address. `InodeInv`: a live upper inode is about the file at
  its address. It is `SameFile`, and needs `CountInv` because an address is reused only
  when nobody has a reference.
* `UpperInv`: an upper dentry stands on a lower one of the same name and inode; it is
  what makes an operation on the lower dentry an operation on the upper name.
* `ThreadInv`: what a call knows at each step about its dentries, given which of the
  mutexes of directory and inode it holds. `teadfs_lookup` reads the inode, and only then
  allocates and interposes, which is why its case has the exception that `NeverStale`
  states.
* `MirrorInv` and `NlinkInv` are the two properties with the state in the middle of a
  call: what the lower directory already says and the upper dentry, or the link count,
  does not yet.
* `CountsInv`, on top of these, is about the link counts of directories: `DirInv` is
  `DirNlink`, and `DirCallInv` says which calls can be a mkdir or an rmdir. It needs of the
  rest that such a call's dentry keeps its name, and so the call its directory
  (`NameKept`); every step then minds one directory at most (`CallStep`).

There is a lemma for every action. Most change one dentry or one call, and lemmas on such
changes (`CountFrame` and its companions for counts, `OwnStep`, `ReturnStep`, `DentStep`
and `DirectStep` for the other parts) say what is left to be shown of the rest.

`FileDataProofs` proves, for any page size, header, file size and number of operations
(`SizeAssumption`, `AccessAssumption`), `Invariance` and from it `TypeCorrect`,
`SizeCovered`, `AlwaysPlain`, `AlwaysCipher` and `AlwaysCurrent`.

* `ChunksAddUp`: the loop of `truncate_upper` comes to one write of the missing zeros at the
  end of the file, for any number of chunks. The recursive function of the model is shown to
  be the one whose value after `k` chunks is that of a single write of the first
  `k * PageSize` zeros, or of all of them: that function solves the recursion, and two
  solutions do not differ, because there would be a least place where they do (`Least`).
  This replaces induction, which the prover cannot do over an operator.
* The inductive invariant is the properties of the run with `TypeOK` and more parts.
  `ClosedInv` says what is on disk before the file is opened, for `Open` decides by
  it. `SizeInv` keeps `i_size` within the lower file; without it the lower file that
  `Shrink` leaves would have no known length once a decrypted file has been cut or has holes.
  `CipherInv` is `CipherStored` with the size that goes with it, that of the lower file.
* Bytes are followed by their offsets: an offset is a page and a place in it
  (`PageOfOffset`), pages do not overlap (`PagesApart`), so that a write changes its own
  page only (`OtherPage`) and in it what it wrote (`PutCurrent`); a page that is read or
  grabbed is the file's (`ReadCurrent`, `GrabCurrent`); overwriting what is encrypted,
  behind the header, encrypts what is overwritten (`OverwriteCipher`).

Only model-checked: liveness (`UpcallReturns`, `HandledUnlessWasted`, and `CallsReturn` of
`LowerFile` and `DirLocks`), which the prover cannot do. The passing runs have no other
property without a theorem.

## 5. Not modelled

Payload contents in the upcall; the answer to HELLO (nobody waits for it); `PR_MSG_CLOSE`
(`netlink.c:51-54`), which nobody in the repository sends; the wrap of message ids; values
of attributes other than size and link count, and times and sizes of directories; the
errors of `__teadfs_get_inode` for an inode of another superblock or one that `igrab`
refuses (`lookup.c:65-72`), which a lower dentry in use rules out; the lock that
`vfs_link` takes on the source inode (`inode.c:310`), which in `DirLocks` is no directory;
readlink, readdir, fsync, flush and ioctl, which are passed to the lower file system and
keep no state; statfs; `mmap` of files (needs `writepage`, which stores nothing); what
rename does to the link counts of its two directories; subdirectories that have entries
themselves (`DirFiles` are empty; a lower rmdir may fail all the same), and more than one
attribute copy of a directory without its mutex at a time; lower files that `teadfs_write`
leaks; logging; the unused parts of pevents; destructors at process exit.

## 6. Plan

1. Done: the models of all components, and the proofs of all their safety properties.
2. Composition of `LowerFile` with `PageCache`: the label that the release callback
   puts on a file against readers of the old one. Eviction of an inode with its two
   caches.
