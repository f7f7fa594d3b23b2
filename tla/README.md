# NexxoN-OS in TLA+

NexxoN-OS is a 32/64-bit hobby operating system in C: a boot loader, a kernel
with a cooperative desktop, a journalled filesystem, a TCP/IP stack, a layer that
runs Linux programs, and a window manager with applications.  This directory
models the parts of it whose correctness depends on the order of events: which
writes reach the disk before the power fails, which calls run inside which
others, what is still true when a call resumes.

Everything here is translated from the C sources; `PROJECT.json` maps every
definition to the lines it stands for.  Line numbers below are those of
`src/src/fs/nxfs.c` unless a path is given; other paths are below `src/src/`.

    tlc -workers 2 -config NxfsTree.cfg MCNxfs
    tlc -workers 2 -config Tasks.cfg MCTasks
    tlapm NxfsJournal_proofs.tla
    tlapm Tcp_proofs.tla

## 1. The system

### Components

| Component | State it keeps | Operations | Modelled |
|---|---|---|---|
| NXFS journal and cache (`fs/nxfs.c` 60-370) | `g_tx` (a transaction buffer of 56 sectors), `g_tx_seq`, a small LRU sector cache, the journal region and the metadata sectors on the disk, `fs->sb` and `fs->sb_dirty` | `tx_begin`, `meta_read`, `meta_write`, `tx_abort`, `tx_commit`, `jrnl_replay` | `NxfsJournal` |
| NXFS filesystem layer (`fs/nxfs.c` 370-1640) | inodes, two bitmaps, block maps, the streaming writer `g_ws` | create, delete (file, directory), rename, `file_truncate`, `stream_begin/append/end`, `stream_suspend/resume`, `nxfs_check`, format and mount | `Nxfs` |
| NXFS installer copy | a second `fs_t` on the target disk, a copy stack | `inst_copy_tree`, `nxfs_install_to_sata` | no |
| Scheduler (`kernel/sched.c`, `kernel/pit.c`) | task table, `g_current`, saved stack pointers, the tick count | `sched_spawn`, `sched_tick` from the timer interrupt, `sched_yield`, `sched_sleep`, `sched_exit` | `Scheduler` |
| Linux threads (`kernel/lin_thread.c`) | threads of the guest, saved frames, futex addresses and deadlines | clone, fork, futex wait and wake, yield, exit, faults | `LinThread` |
| Linux sockets (`kernel/lin_unix.c`, `lin_sock.c`) | links with reference counts and peers, pending queues of listeners, descriptor tables and their copies | socketpair, connect, accept, close, fork, thread switch | `LinSockets`, without what is read and written |
| Linux system calls (`kernel/linuxsys.c` ...) | descriptor table, open files, memory maps | one handler per call | fork and descriptors in the two above; stream clients planned |
| X11 and PulseAudio servers | per-connection parse state | requests | no |
| IPC and clipboard | shared segments, message queues, one clipboard | create, attach, destroy, send, receive | planned |
| Task timers (`kernel/tasktimer.c`) | slots with a target second, `g_last_poll` | schedule in, schedule at, cancel, clear, tick, the script that fires | `TaskTimer` |
| Event journal, SMP, memory, loaders, kernel start | rings, run queues, page tables, registers | | no |
| Network stack (`net/`) | ARP cache, DHCP state, TCP connections with one retransmission segment | send, receive, poll, timers | one TCP connection: `Tcp` implements `ByteStream` |
| HTTP, cookies, crypto | parse buffers | | no |
| Trash (`drivers/trash.c`) | an index file and a directory on NXFS | move in, restore, empty | `Trash` |
| Thin-client browser (`drivers/browser.c`) | parser state, one job slot, two frame buffers, two payload buffers, a generation and three flags | pump, submit, decode, compose, present, resize, new page, reconnect | `BrowserDecode` |
| Disk drivers | controller registers | `raw_read`, `raw_write` to the filesystem | as results |
| FAT, exFAT, NTFS, VFS | foreign volumes | | no |
| Other drivers, window manager, applications, shell, boot loader | | | no |

### How they interact

- Everything above the filesystem calls it synchronously on one thread.  There is
  no lock: what can interleave is what a call runs itself.  Two places do so.
  The streaming writer keeps a transaction open from `stream_begin` to
  `stream_end`, and the desktop runs between two `stream_append`s; `nxfs_check`
  calls `wm_tick()` inside its walk (1551), and a window's handler may call any
  other operation.
- `create_node_concurrent` (1320) is the bridge between the two: it commits what the
  stream has (`stream_suspend`), creates, and reopens a transaction
  (`stream_resume`).  Deletes and renames do not; they are refused, or stop half
  way, while a stream is open.
- The filesystem layer sees the journal through `tx_begin`, `meta_read`,
  `meta_write` and `tx_commit`; the journal sees the disk through `raw_read` and
  `raw_write`, which report success or failure.
- The timer interrupt runs `sched_tick`, which may switch tasks anywhere in the code of
  a task that has interrupts on: between two assignments of `sched_yield`, and between
  two of the browser's idle loop and of its decoding worker, which are two tasks and
  share frames through one job slot, one spin lock and a few flags.
- The idle loop calls `net_tick`, `browser_tick` and the shell's `tasktimer_tick`.  A timer
  that fires runs a script, and the script may arm and cancel timers.
- Threads of a Linux program are not preempted: a system call that waits, yields,
  forks or exits puts the frame of another thread into place, and with it that thread's
  copy of the descriptor table, whose sockets share links by reference count.
- The Linux layer, the trash, the installer, the download code and the desktop
  applications are clients of the filesystem layer.

### What is hard, and what would be correct

- **Crash consistency.**  A commit is up to 115 raw writes, each of which can
  fail with the sector changed or unchanged, and the power can fail between any
  two; so can it during the replay that follows.  Correct: readers and recovery
  see whole transactions (`StoreSpec`), the recovery point moves nowhere but in the
  journal phase (`RecoveryPointFixed`), the journal entry outlives its use
  (`KeepsCommittedCopy`, `ReplayKeepsEntry`), the cache never contradicts the disk
  (`CacheCoherent`).
- **Several commits per operation.**  Truncation, deletion of a directory, long
  files and the repair of a bitmap take many commits.  Correct: between any two
  of them the recoverable volume is a tree whose inodes and blocks are marked in
  use, owned once, and written (`TreeSound`, `UsedIsMarked`, `NoSharing`,
  `OrderedData`).
- **A long-lived open transaction.**  The stream holds a copy of an inode while
  other code runs.  Correct: that inode stays its own, and what it writes lies in
  nobody's recoverable file (`StreamOwnsFile`, `StreamWritesAside`,
  `FilesGrowOrEmpty`).
- **Failure in the middle.**  Every error path leaves counters, bitmaps, the
  stream and the transaction in some state from which everything else goes on.
  Correct: no leak without a failure (`NothingLeaks`), counters that count
  (`CountersTrue`), a repair that repairs (`RepairExact`), and an end to every call
  (`CallsEnd`, `CheckpointFinishes`).
- **Preemption between two assignments.**  Correct: the scheduler resumes the task it
  made current and loses none (`ResumedAsItself`, `NoTaskLost`, `ReadyRuns`); a picture
  is painted whole, from a buffer nobody writes, and neither a picture nor the parser's turn is lost
  (`BlitsWhole`, `PayloadIntact`, `PictureShown`, `StreamMoves`).  All of it is said of a timer that strikes outside
  `sched_yield` (finding 4).
- **A network that loses, repeats and reorders.**  Correct: what was acknowledged is in
  the ring or was read, once and in order, and the end comes after all of it
  (`AckedIsKept`, `ByteStreamSpec`); a stream arrives, and an application that waits for the answer
  to what it sent learns of a loss (`StreamArrives`, `QuietSenderSettles`).  One that goes on sending does not
  (`SendsSettle`, section 5).
- **Callbacks that change what is iterated.**  Correct: a tick fires no timer that a
  script armed in it, and every due timer fires (`FiresOnlyOlder`, `DueFires`); a time of day
  read in two readings of the clock is still that time (`ArmedForTheHour`).
- **Sleeping and waking.**  Correct: no futex waiter sleeps on a word that has changed with
  no wake on its way (`NoLostWake`).
- **Shared links.**  Correct: peers come in pairs and an open descriptor's link is alive,
  through forks and closes in any order (`PeersMutual`, `OpenLinksLive`).  Two open ends do not stay connected, though
  (`StaysConnected`, section 5).
- **Several commits of a client.**  Correct: a file under way to or from the recycle bin
  is whole in one of the two places wherever the machine stops, and the index tells what is stored as long as no
  call was cut short (`NothingLost`, `IndexMatchesStore`).  That the bin lists what was deleted, and that
  what is deleted gets there, is more than that and not so (`Restorable`, section 5; `DeletedLandsInBin`, finding 2).

`PROJECT.json` lists each hazard at its line, with the properties that watch it.

## 2. Modules

    AtomicStore            what the journal promises
       ^ implemented by
    NxfsJournal            tx_commit and jrnl_replay, one raw write per step
       ^                     NxfsJournal_proofs   theorems
       |                     MCNxfsJournal        instances for TLC
       | justifies "one commit = one step"
    Nxfs                   the filesystem layer, one commit per step
       |                     MCNxfs               instances for TLC
       | justifies "one commit = one step"
    Trash                  the recycle bin, a client

    Scheduler ... its ReadyRuns justifies the fairness of ... BrowserDecode
    ByteStream  <- implemented by -  Tcp
    TaskTimer                               MCTasks: Scheduler, BrowserDecode, Tcp, TaskTimer
    LinThread, LinSockets                   MCCalls: LinThread, LinSockets, Trash

    theorems:
    NxfsJournal_proofs     the journal
    Nxfs_proofs            the filesystem layer without nxfs_check
    NxfsWhole_proofs       the filesystem layer with nxfs_check
    Tasks_proofs           scheduler, browser, timers, and MCTasks
    Tcp_proofs             the connection
    Lin_proofs             threads, futexes and sockets
    Calls_proofs           the recycle bin, and MCCalls
    Lemmas                 what they share

### AtomicStore

A store of sectors with a buffer of pending writes.  `Commit` makes them visible
to readers and to recovery at once; `Doubt` makes them recoverable but not
visible, which is what a commit that reports an error may leave, and `Settle`
takes that back; `Recover` is a mount.  No disk, cache or journal appears in it.

### NxfsJournal

| Model | Code |
|---|---|
| `home`, `hdr`, `slots` | metadata sectors, journal header, journal sectors |
| `cache` | `g_cache`, one optional value per sector; `Evict` is a `cache_put` of another sector |
| `txActive`, `txLbas`, `txData`, `txSeq` | `g_tx`, `g_tx_seq` |
| `sbMem`, `sbDirty` | `fs->sb`, `fs->sb_dirty` |
| `pc`, `idx` | the position in `tx_commit` or `jrnl_replay` |
| `TxBegin` `Abort` `MetaWrite` `MetaRead` `TouchSb` | `tx_begin` `tx_abort` `meta_write` `meta_read` and the counter updates of `balloc`, `ialloc` ... |
| `CommitFull` `CommitEmpty` `CommitStart` | `tx_commit` up to its first write, with the superblock folded in |
| `WriteHdr` `WritePay` `WriteCmt` `WriteHome` `Retire` | the five loops or writes of `tx_commit` |
| `Crash` `Boot` `Remount` | power loss, `fs_mount` at start, `nxfs_remount_sata` |
| `ReplayHome` `ReplayRetire` | `jrnl_replay` |

Every raw write is a step, so a crash falls between any two.  A write named in
the constant `FailAt` may also report an error, with the sector unchanged or
changed.  A CRC32 is the payload it was computed over; like the code's it does
not cover the sector numbers in the header, and the commit record of `n` payloads
sits where a longer transaction has a payload.  `g_tx_seq` restarts at 1 at each
boot, so a stale commit record can match; `Stale` says what the slots held before
the format.

### Nxfs

A step is one commit, or one piece of code between commits.  `disk` is what a
mount would find, `view` what `meta_read` serves: `disk` with the open transaction
over it.  `open` is `g_tx.active`.  `sb` and `sbDisk` are the free counters in memory
and on the disk.  `doubt` holds the volume that a failed commit may have left to
recovery, until a later commit settles it; `Crash` goes on from `disk` or from
`doubt`, which is how `AtomicStore` appears in this layer.  `ws` is `g_ws` with its copy of
the inode.  `written` is a history variable: the blocks that got data since they
were allocated.  `job` is the call stack; a frame holds what the C frame keeps
across a commit (`file_truncate`'s chain, `nxfs_delete_dir`'s snapshot of its
children, `nxfs_check`'s shadow bitmaps).

| Model | Code |
|---|---|
| `CallBegin` `BeginStream` | `stream_begin`, around its `file_truncate` |
| `AppendMap` `AppendFull` `AppendData` | `stream_append`: `map_block`, then the data write, then `ws_batch_commit` |
| `EndCommit` `EndAbort` | `stream_end(true)`, `stream_end(false)` |
| `TruncBusy` `TruncClear` `TruncFree` | `file_truncate`: empty the inode, then free in batches |
| `CallCreate` `CreateNode` `CreateFails` | `create_node_concurrent`, `create_node` |
| `CallDelete` `DelDirChild` `Unlink` `UnlinkBusy` | `nxfs_delete_file`, `nxfs_delete_dir` |
| `Rename` | `nxfs_rename` |
| `CallCheck` `CheckWalk` `CheckBatch` `CheckRepair` `CheckDone` | `nxfs_check(repair)`, `chk_walk_inode` |
| `Crash` | power loss and `fs_mount` |

A call that is refused before it changes anything is no step.  The allocators
rotate a hint through the bitmap; the model lets them take any clear bit, which
includes what the hint would choose.  How many sectors a batch holds
(`TX_SOFT`) is a free choice in `AppendData`, `TruncFree` and `CheckBatch`.

### MCTasks and MCCalls

The components below share no variable: the scheduler's stacks, a TCP slot and a list of
timers do not read each other.  `MCTasks` and `MCCalls` put several of them side by side
for one run of TLC: `part` says which component a behaviour is about, the others stay as
they began, so the state graph is the union of theirs and no bound of one multiplies
another's.  Each module has a specification of its own (`SchedSpec`, `BrFairSpec`, `TcpFairSpec` ...),
and `TasksSpec` repeats its fairness for its behaviours.

### Scheduler

| Model | Code |
|---|---|
| `tstate`, `until`, `esp` | `state`, `sleep_until_ms`, `esp` of each TCB |
| `cur`, `ticks`, `clock` | `g_current`, `g_tick_count`, `pit_ms()`, modulo `Wrap` |
| `run`, `at`, `next` | the stack on the processor, the position of each in its code, the local `next` of `sched_yield` |
| `PickNext` `CtxSwitch` | `pick_next`, `boot/ctx_switch.asm` |
| `Spawn` `SchedTick` `Sleep` `Exit` | `sched_spawn`, `sched_tick`, `sched_sleep`, `sched_exit` |
| `YieldPick` `YieldDemote` `YieldCommit` `YieldSwitch` | `sched_yield` between its assignments |

A stack is a context with the number of its task, so "`run` is not `cur`" is the state in which
the processor executes one task under the name of another.  `Torn` says whether the timer may strike
inside `sched_yield`; it may in the code, where interrupts are on (finding 4).

### BrowserDecode

Two actors, the idle loop (`ui`) and the worker (`worker`), with a step for every access to
shared state.  A picture is abstracted to what tells a good one from a bad one: whether
each buffer is `whole`, and whether the front one is of an `old` page; the generation
number is abstracted to `job.old`.  `job.mine` says that the payload buffer of the job is
the one the parser writes: `Submit` queues the job, `Flip` swaps the buffers after that, as in
`br_job_submit`.  `parse` is blocked when a payload found the slot taken, and `Tick` then tries again
before it reads on.

### Tcp and ByteStream

`Tcp` is one slot of `net/net.c` from `tcp_connect` to its reuse.  The peer and the network are
external: at any moment any piece of the peer's stream may arrive, with or without its FIN,
with any acknowledgement given so far, and an own segment may be lost or taken in order.
`Receive` is `tcp_handle` on an open connection: the acknowledgement (`Acked`), the trim of what was
taken already (`Trimmed`), the cut to the room in the ring (`Taken`, `RingPut`) and the FIN, which counts
only if nothing is missing before it (`Finish`).  `ByteStream` is what the reader is promised: bytes are
acknowledged, delivered in order, the end is final and comes after all.  `Tcp` implements it with
`promised` mapped to `rcvNxt` without the FIN.

`TcpSend` is `tcp_send`: up to two segments, of which the last takes the place of the one stashed for retransmission
and gets new tries.  The application may send as often as it likes; `Sends` bounds only how many of its bytes are told
apart and may be delivered.  Every later one has the number `Sends + 1` and is lost, so that an application
that sends for ever over a link that has died is a cycle of finitely many states.

### TaskTimer

`due` is the target second of each slot.  A tick is a loop: `scan` is the slot it looks at,
`Fire` releases the slot and runs a script, in which `ScheduleIn`, `ScheduleAt` and `CancelTimers` are
enabled again.  `ScheduleAt` and `ArmAt` are the two readings of the clock in
`tasktimer_schedule_at`; a second may pass between them.  `fresh` is a history variable: the slots that
scripts of this tick armed.

### LinThread

`thr` is `g_threads` with a frame reduced to the call it is inside and the result it will return;
`gcur` is `g_current`.  A program stores to its futex word and owes the waiters a wake
(`owes`), waits for a value it has just read, joins another thread through the word that the
kernel clears at its exit, forks, exits, and faults.  `spin` is the loop in which
`lin_thread_futex_wait` halts when no other thread can run.

### LinSockets

`links` is `g_unix_links`, `fds` the descriptor table and `snap` the copies that threads switched
away leave.  `SocketPair`, `ConnectTo` and `Accept` allocate or share links, also where the code leaks
them; `CloseFd` is `fd_close` with `lin_unix_close` and `link_unref`; `Fork` copies the table
and counts every link of it; `Leaves` ends a child, which closes nothing.

### Trash

One step per commit of NXFS: the new file in the bin, its contents, the deletion of the original,
and the index, which `nxfs_write_file` first empties (`SaveBegin`) and then writes (`Save`).  `Restart` is
possible between two calls and, with `Cuts`, between any two commits; with `Fails`, copies fail and the index is not
written.  `Refused` is what follows where `trash_move_in` fails: the shell's `trash-in` leaves the file alone, `dfile` and the
explorer delete it outright.  `kept` is a history variable: the contents that the user wrote and that neither
an emptied bin nor such a deletion has destroyed.  Whether the bin lists them is another question: `NothingLost`
asks that they are on the disk, `Restorable` that the bin lists them, `DeletedLandsInBin` that no file
is deleted outright.

## 3. What TLC checks

| Run | Instance | What it shows |
|---|---|---|
| `JournalAtomic` | 2 sectors (one the superblock's), 2 contents, a buffer of 2, one sequence number per boot and any number of boots and failed commits; header, payload, commit-record and both retiring writes fail in every way; slots from an earlier life | the journal implements `AtomicStore`; the recovery point moves only in the journal phase; a checkpoint is always covered; the cache is coherent |
| `JournalLiveness` | the same, retiring writes fail | every checkpoint and replay finishes once the power stays on; the only copy of a commit is never overwritten |
| `JournalHomeFails` | checkpoint writes fail | *violated*: the only copy is overwritten (finding 1) |
| `NxfsTree` | 3 inodes, 3 blocks, 2 names, files of one direct and one indirect block, 2 children per directory; commits and data writes fail, crashes | the recoverable volume is a sound tree, marked, unshared, written; the stream keeps to its file |
| `NxfsQuiet` | the same with one name, no failures, fair | no leaks at rest; every call returns |
| `NxfsCheck` | the same with crashes and `nxfs_check`, counters counted | a repair is exact and safe on an idle desktop |
| `NxfsCheckTick` | `wm_tick` runs calls inside the check | *violated*: blocks and inodes in use are marked free (finding 3) |
| `Tasks` | 3 tasks, a quantum of 2, a clock of 4 ticks, no timer inside `sched_yield`; the browser; 4 bytes from a peer in segments of up to 3 into a ring of 3, an application that sends without end, 2 of whose bytes may arrive, 1 retry; 2 timers, days of 3 seconds, 5 seconds | the scheduler resumes the right task, loses and starves none; pictures are whole and arrive; the connection implements `ByteStream`, its stream arrives, and a sender that pauses learns of a loss; timers fire when due and not in the tick that armed them |
| `Calls` | 3 threads with forks; 4 links, 2 descriptors, 2 processes, a queue of 1; a bin of 2, 2 names, 2 contents, restarts anywhere, failing copies and index writes | no wake-up is lost; peers are mutual and open links alive; a file is whole somewhere, listed or not, and the index matches the bin unless a call was cut short |
| `SchedTorn` | the timer may strike inside `sched_yield` | *violated*: a task resumes with another's stack (finding 4) |
| `BrowserOldPage` | the browser | *violated*: a picture of the old page is painted (finding 5) |
| `BinVanishes` | 1 name, 2 contents, restarts between calls, nothing failing | *violated*: a file is refused by a bin with room, and deleted (finding 2) |

`CHECK_DEADLOCK FALSE` stands in `Tasks`, where the timers' horizon ends their behaviours, and in `Calls`, where
a program may wait for ever or leak its last link.

**Why the bounds are enough.**  The journal treats sectors alike but for the
superblock's and never compares contents except with the checksum; two sectors
give a first and a last write of every loop and a state "between", two contents
give old and new.  One sequence number per boot is the worst case for stale
records, because every boot repeats it; `JournalHomeFails` takes two.  The proofs
remove these bounds for the safety properties.  In the filesystem, three inodes
give a directory in the root with a child, a file beside a directory, and a
reuse of either; three blocks give a data block, an indirect block and one more,
which is one short of what two files want, so the volume does fill; a
file of one direct and one indirect index crosses the boundary of the two.  Two
children make a directory both full and able to collide.  `Ctr` is the modulus of
the free counters: 4 where a property counts, larger than any count that occurs,
and 1 where none does.  `WalkMax` is 2, the depth of the deepest tree of three inodes.  Inodes other than the root, blocks and names are
interchangeable, so TLC is given their permutations in the safety runs and none in the
run that checks liveness.

In `Tasks`, three tasks give one that yields, one that is picked and one that could starve, and a
`Wrap` of 4 lets the clock start again while a task sleeps.  A ring of 3 bytes holds two, less than a segment
and less than the stream, so that segments are cut, trimmed and wrap; the peer's 4 bytes fill it twice.  Two timers give a slot
before and one after the slot that fires; five seconds span two midnights of a day of three, and let a
second pass inside `tasktimer_schedule_at` at midnight.  In `Calls`, two descriptors hold one socket pair, four links let
a pair be leaked or severed and another take its place, and `RefMax` only bounds forks,
whose children leave their counts behind.  Two slots in the bin give an entry that moves to another slot at
a restart, and the collision of its name with a later one.

In the violation runs the bounds are as small as the trace allows; each trace is a sequence of calls that the code takes as well.

**Constants that select a question.**  `IoFails`, `Crashes`, `Checks`, `Ticks`,
`Streams` and `Dots` turn sources of trouble on.  `NxfsTree` leaves `Checks` off because
write failures and `nxfs_check` together already break `UsedIsMarked` and `StreamOwnsFile`:
`nxfs_delete_dir` ignores a child it could not delete and frees the directory
around it, the child is an orphan that a repair then reclaims, and the caller that
still holds its number goes on using it.  `Dots` is empty in the passing runs because of what section 5 says of `"."`;
`WalkMax` is the depth of the deepest tree because of what section 5 says of a deeper one;
`Ticks` is off because of finding 3, on in `NxfsCheckTick`.  `Torn`
is off in `Tasks` because of finding 4, and on in `SchedTorn`.  `Fails` and `Cuts` are both on in `Calls`
and both off in `BinVanishes`, whose property fails without either.  `Compat` gives the program of `LinThread` the 32-bit entry
points and fork.

**Fairness.**  `tx_commit` and `jrnl_replay` are loops without waits, so `FairSpec`
assumes weak fairness of their writes and of the boot after a power loss, and of
nothing a client does.  A machine that loses power for ever finishes nothing, so
`CheckpointFinishes` assumes that the power eventually stays on.  `CallsEnd` assumes
weak fairness of `Step`, the steps of a call that has started; a stream that stays
open, or a desktop that never calls, is allowed.

The timer keeps striking, so `SchedFairSpec` assumes it of `SchedTick` and of a yield that has
begun, and of nothing a task does of its own.  `BrFairSpec` assumes of the worker and of the idle loop what
`ReadyRuns` gives every task, with strong fairness where the processor comes back again and again but the
state may have changed meanwhile: the spin lock, which the idle loop does not hold while it halts between passes;
the idle loop's call of `browser_tick`; the pump, whose budget of chunks and time ends it.  `TcpFairSpec`
assumes a peer that resends what is not acknowledged (RFC 793, external), `net_tick` once the 400 ms are over, and an application that
reads.  Of what the application sends it assumes nothing, so `QuietSenderSettles` has two alternatives: it sends again and again for ever,
or every byte it has sent arrives or the connection is given up.  The first is the cycle that refutes `SendsSettle` (section 5): a send within the time that the tries
take, which `net_tick` does not prevent however often it runs.  `TimerFairSpec` assumes that scripts end and that the shell's idle loop polls.  `LinThread`, `LinSockets` and
`Trash` assume nothing; their properties are safety.

## 4. What is proved

TLAPS checks the theorems for every value of the constants that the named assumption of the module
allows; TLC evaluates these assumptions in every run.

### The journal

The theorems of `NxfsJournal_proofs` follow from `JournalAssumption` alone (the superblock's
sector is a sector, `None` is no content, the buffer holds at least one sector,
`Stale` holds slots), for any set of sectors, any contents, any `TxMax` and
`MaxSeq`.

| Theorem | Which writes may fail | Says |
|---|---|---|
| `TypeCorrect` | any | `[]TypeOK` |
| `PhasesHold` | any | `[](TypeOK /\ PhaseInv)` |
| `JournalCovers` | any | `[]CheckpointCovered` |
| `CacheStaysCoherent` | all but checkpoint writes | `[]CacheCoherent` |
| `RecoveryPointStays` | all but checkpoint and replay writes | `RecoveryPointFixed` |
| `JournalIsAtomic` | all but checkpoint and replay writes | `StoreSpec`: the journal implements `AtomicStore` |
| `CommittedCopyStays` | retiring writes | `KeepsCommittedCopy` |
| `ReplayIsComplete` | all but replay writes | `ReplayKeepsEntry` |

The conditions are those under which the code is right: `JournalHomeFails` is what happens without the first, section 5
says what a replaying write that fails does, and a cached sector is stale
after a checkpoint write that failed with the sector changed.

*The argument.*  `CheckpointCovered` is not inductive: to know that the entry is valid
when the first home write starts one has to know what the previous writes left.
`PhaseInv` says, for each value of `pc`, what the writes before it have put on the
disk: at `"pay"` the header is this transaction's and the slots before `idx` hold its
payloads; at `"home"` the whole entry is in place and the sectors before `idx` are
home; at `"rhome"` the entry is valid and so on.  `TypeOK /\ PhaseInv` is inductive.
The lemma `ApplyAt` says what applying a transaction does to each sector (its sector
numbers being distinct, which is part of `TypeOK`); from it and `PhaseInv`, writing one
more of the entry's sectors home does not change `Recovered`, which gives
`RecoveryPointFixed` and the steps of the refinement in the checkpoint and the
replay.  The refinement maps `view` to what the cache and the disk serve before the
commit record is down and to `Recovered` afterwards, `pend` to the buffer, `durable`
to `Recovered`; each action is then a step of `AtomicStore` or a stutter: the
journal writes map to `Doubt`, `Settle` or nothing (a stale commit record can make
an entry valid before its own record is down), the last of them to `Commit`, the
checkpoint to nothing, a failing write to `Drop`, and a crash to `Recover`.
`CommittedCopyStays` adds `NothingPending`: between two commits, and up to the header of the next,
all that a replay would bring home is home.  It fails as soon as a journal write may report an
error after it changed the sector, because what is then valid is in doubt, and is overwritten by right.

### The filesystem layer

The theorems of `Nxfs_proofs` and `NxfsWhole_proofs` follow from `NxfsAssumption` (positive numbers, finite sets of inodes and
blocks, `Nil` none of them), for any number of inodes, blocks and names, any geometry of a file, any size of a
directory and any modulus of the counters, with failing commits, crashes and streams turned on or off.

| Theorem | Says |
|---|---|
| `StoresKeepTheirTypes` | `[]TypeOK` |
| `MountFindsATree` | `[]TreeSound`: what a mount would find at any moment is a tree, its files mapped as far as they are long |
| `NothingInUseIsFree` | `[]UsedIsMarked`: a crash leaks, but nothing in use is marked free |
| `NoBlockIsShared` | `[]NoSharing` |
| `DataPrecedesSize` | `[]OrderedData`: what lies within the size of a file was written |
| `UncommittedDataIsAside` | `[]StreamWritesAside` |
| `TheStreamKeepsItsFile` | `[]StreamOwnsFile` |
| `FilesOnlyGrowOrEmpty` | `FilesGrowOrEmpty`, an action property |

All of them assume `~Checks`, that `nxfs_check` is not called, and `Plain`, that nobody creates a file called `"."` or `".."` or deletes one
by that name.  `valid_name` refuses neither name, so this is a condition on the callers and not something the code ensures;
section 5 says what `"."` does.

`NxfsWhole_proofs` proves these about volumes with `nxfs_check`, and about leaks:

| Theorem | Says |
|---|---|
| `ARepairIsExact` | `RepairExact`: a repair writes the bitmaps and counters of the tree |
| `ARepairKeepsWhatIsInUse` | `[]UsedIsMarked`, during the walk, between the batches of the repair and after a crash there |
| `ACheckKeepsTheVolume` | `[]` of `TypeOK`, `TreeSound`, `NoSharing`, `OrderedData`, `StreamWritesAside` and `StreamOwnsFile` |
| `ACheckChangesNoFile` | `FilesGrowOrEmpty` |
| `NoBlockIsLost` | `[]NothingLeaks`: at rest, what is marked is in the tree |

They assume `Plain`, which also says that `wm_tick` runs no calls inside the check (`Checks => ~Ticks`); `~IoFails`, that no write fails; and of the
behaviour `[]Flat`, that no directory lies deeper than the walk goes (24 levels in the code), which says nothing where `nxfs_check` is not called.  None of these can be dropped, nor is any
ensured by the code: `NxfsCheckTick` is what happens with `wm_tick`; after a failed write an orphan that a caller still uses
is reclaimed (section 3); and what is too deep to be walked is marked free (section 5).  Crashes are allowed, but for `NoBlockIsLost`, which
assumes `~Crashes`: a crash in a truncation leaks what was not yet freed, by design.

*The argument.*  None of these properties is inductive, and most fail to be for the same reason: they speak of the
inodes in the tree, while `nxfs_delete_dir` frees a directory around a child that it could not
delete, and the child is an orphan that a stream or a truncation may still be working on.  The invariant therefore
speaks of every inode that is not free.  `Sound(m, done)` says of a volume that the inodes marked are the live ones, that
entries lead to live nodes that name their directory as their parent (so that a node has one entry at most), that what is mapped is marked (`Marked`), mapped
once (`Apart`), and written as far as the size goes (`Filled`).

`Stores` asks this of `disk` and of the volume in `doubt`, which moreover `Follows` the disk: each of its files is the
disk's, empty, or longer; that is what makes `FilesGrowOrEmpty` hold when a crash goes on from it.  `Streaming` asks it of
`Ahead`, the volume with the stream's copy of its inode put in place, that is, of what the next commit of the stream will write; the open
transaction may differ from the disk in that inode, its indirect block and marked blocks only.  What is left to
the frames: the chain of a truncation is mapped nowhere (`Truncating`), the block of an append lies just behind
the end of its file (`Appending`), `stream_begin` waits for nothing but its own truncation (`Beginning`), and what a
deletion is about to unlink is still the entry of the directory it looked in, or is gone (`Deleting`).  That a call inside
another, or a failed truncation, cannot free under the stream's feet comes from `Stacked` and `Opened`: a
truncation runs only while no transaction is open, and the stream lends its transaction to one create at a time.

Each action then writes one of a few kinds of volume: an entry more (`CreateSound`), less (`UnlinkSound`) or renamed
(`RenameSound`), an inode that lost its blocks (`EmptySound`), blocks freed that nothing maps (`FreeSound`), and the stream's copy with a block or
a size more (`AppendMapSound`, `AppendDataSound`).  Each of these lemmas says that the new volume is sound if the old one is; `Committed`, that
both results of a commit, and the doubt it leaves, then are.  A file's place is the index of a block in its chain, with the indirect block as the last, so that
`Apart` and `Marked` treat data and indirect blocks alike.

*The argument about `nxfs_check`.*  The walk sees the tree, and the repair frees everything else; so it has to be shown that nothing
else is live, which is false after a failed write.  `Exact` adds to the invariant above that `Settled`: no commit is in doubt, only files map blocks (`Bare`), and every set that holds the
root and the children of its members holds each live inode (`Joined`).  The last has no induction over paths in it: a creation hangs
its node on a live one (`CreateShape`), and what an `Unlink` takes out has no children left (`UnlinkShape`).  That is so because
of the frames: `Emptying` says that what a directory under deletion still holds is in the snapshot of its frame, or is what the frame above it deletes,
and `Linked`, which frame may stand on which and that they work on parent and child; so a directory whose snapshot is used up is
empty (`UnlinkedIsEmpty`).  Nothing is added to it meanwhile, for only the innermost call runs.

`Walking` is the invariant of the walk itself: what it has seen and what it has yet to visit hold the root, lie in the tree, and hold the children of
what it has seen; and it has seen the blocks of just these files.  `WalkedOn` is the lemma about one visit, with the depths
that `Flat` gives each inode so that none is passed over; a deeper tree fails here.  When nothing is left to visit, what was seen is therefore closed and in the tree, so it is the tree, and by
`Joined` it is all that is live (`WalkOver`).  The bitmaps it writes then hold all that is mapped, which is all that the soundness of a
volume asks of them (`RemarkedIs`), in every batch too.

*The argument about leaks.*  `Marked` says that what some inode maps is marked; for `NoBlockIsLost` the converse is needed, while calls are under way.  `Tight` says
that each marked block has a place in some inode on the disk or is in the `todo` of the truncation in progress (`Todo`), and, while a stream
is open, that each has a place in what the stream commits next (`Ahead`), where nothing else is left to free.  Steps that overwrite an inode could lose the blocks
in it, so `Tight` also says where that is harmless (`Cleared`): the inode that `stream_begin` or `nxfs_delete_file` goes on with after its truncation, and
the one being truncated, map nothing, and a directory under deletion is no file.  And `stream_append` could
map over a block that is mapped already: `Trimmed` says that a stream maps nothing behind the end of its file.  `PlacedKept` is the
lemma that all but the growth of a file (`PlacedGrown`) go back to.  At rest nothing is left to free, what maps anything is a file, and by `Joined` the file is in the tree.

### The other components

| Theorem | Module | Assumes | Says |
|---|---|---|---|
| `SchedTypeCorrect` | `Tasks_proofs` | `SchedAssumption` | types, wherever the timer strikes |
| `NoTaskIsLost` | | and `~Torn` | `[]NoTaskLost`: no task but the current one is marked running |
| `TasksResumeAsThemselves` | | and `~Torn` | `ResumedAsItself`: a switch resumes the task that is current |
| `BrHolds` | | | types, and who holds the picture lock, the job slot and the payload buffers |
| `PaintedPicturesAreWhole` | | | `[]BlitsWhole` |
| `PayloadsStayIntact` | | | `[]PayloadIntact` |
| `TimerTypeCorrect` | | `TimerAssumption` | types, and what is known between the two clock readings |
| `TicksFireOnlyOlder` | | | `FiresOnlyOlder`: a tick fires nothing that was armed during it |
| `TimesOfDayAreMet` | | | `ArmedForTheHour`: the target has the time of day asked for, or a second more |
| `PartsBehave`, `TasksTypeCorrect` | | all of these | `TasksSpec` behaves as each of its parts; `[]TasksTypeOK` |
| `KeptWhenAcked` | `Tcp_proofs` | `TcpAssumption` | `[]AckedIsKept`: read and buffered bytes are those acknowledged |
| `ConnectionIsStream` | | | `ByteStreamSpec`: the connection implements `ByteStream` |
| `TcpTypeCorrect` | | | `[]TcpTypeOK`, with the bounds on sequence numbers |
| `LinTypeCorrect` | `Lin_proofs` | `LinAssumption` | types, and that a spinning thread is the current one, asleep |
| `NoWakeIsLost` | | | `[]NoLostWake` |
| `SockTypeCorrect` | | `SocketAssumption` | types |
| `PeersStayMutual` | | | `[]PeersMutual` |
| `OpenLinksStayLive` | | | `[]OpenLinksLive`: a link counts the descriptors that name it |
| `NothingIsLost` | `Calls_proofs` | `TrashAssumption` | `[]NothingLost`: what was neither emptied nor deleted outright is whole somewhere, listed or not |
| `TrashTypeCorrect` | | | `[]TrashTypeOK` |
| `IndexIsRight` | | | `[]IndexMatchesStore` |
| `BinIsRestorable` | | and `~Fails`, `~Cuts` | `[]Restorable`: with restarts between calls only, and nothing failing, the bin lists what is in it |
| `CallsBehave`, `CallsTypeCorrect` | | all of these | `CallsSpec` behaves as each of its parts; `[]CallsTypeOK` |

The assumptions say that numbers of slots and lengths are natural, and positive where the code's arrays and
moduli are; `TrashAssumption` also that there is a file name, and that no contents of the user's is
`Absent` or `Hollow`.  `~Torn` is the condition under which the scheduler is right: `SchedTorn` is what happens without it.

*Scheduler.*  `NoTaskLost` speaks of the states alone, but which states a switch writes depends on where the suspended
tasks stand.  `OwnStacks` adds that every TCB holds the stack of its own task, that no suspended task is inside
`sched_yield`, and that the current task is the one that runs, but for the moment before the switch; `GaveWay`, that a task
that has given way is no longer marked running; `Picked`, that one about to switch has picked somebody.

*TaskTimer.*  `FreshLater`: what a script has armed lies after the second with which the tick compares.  It needs that
this second is not after the present one, and that `tasktimer_schedule_at` only ever finds a target to come;
the lemmas on remainders by `Day` show that for a clock that moves between the readings.

*BrowserDecode.*  `OneHolder`: the lock is held by the one of the two tasks that is at a place between its `spin_lock` and `spin_unlock`.
`SlotTaken`: the worker is busy only with the job in the slot, so that no other is submitted; `FlipOwed`: the parser and the
worker share a payload buffer only between `Submit` and `Flip`, where the idle loop does not parse.  `FrontWhole` and `BackWhole`: the
front picture is in pieces only while the worker copies a tile under the lock, and what it swaps in has been decoded to the end.

*Tcp.*  `RecvInv` says what the ring holds slot by slot: the `j`-th byte after the tail is the one numbered
`Len(got) + j + 1`, and the bytes read and held are as many as were acknowledged, where a FIN counts one more.  The
lemmas `OneTurn`, `SpanIs`, `FromHead`, `Moved` and `GoOn` say what the two moduli of the ring do to distances, `PutAppends` that
bytes put at the head follow those in the ring and disturb none, `TakenFits` that a trimmed and cut segment
neither overruns the ring nor the stream.  `StepKeeps` then has each step of the connection as one of the stream, or none:
a segment is `Promise`, `tcp_recv` is `Deliver` or `End`, `tcp_connect` is `Anew`.  For the types of what is sent, `SendInv` says that what
waits for its acknowledgement lies below `snd_nxt`, and that a connection not yet closed has a number left for its FIN.

*LinThread.*  `NoLostWake` is not inductive.  `WaitersOrdered` adds that only the wake of the program's own word can still be owed,
that at most one thread waits for each word that the kernel clears at an exit, so that waking one there wakes all, and that the main
thread stays.

*LinSockets.*  `PeerInv` adds to `PeersMutual` that a link not in use is blank, so that `link_alloc` hands out no old
peer.  `RefInv` counts: while the program has called no `connect`, every link has at least as many references as descriptors name
it, over the live table and all copies, and nothing waits in the queue for an `accept`.

*Trash.*  `UnderWay` says where the one payload under way is at every place of a call: what is about to be written
over is empty, and what is about to be deleted has its copy.  The index is not part of that argument: what is lost from
`trashinfo.dat` is still in the bin, which is all that `NothingLost` says.  For `IndexIsRight`, `Shelf` says what a call knows of
its slot and its file, and `Indexed`, as long as no call was cut short, that entries differ, that what is stored
is what is listed but for the file under way, and that the file on disk has the lines of the index in memory wherever no
save is under way.  The entries move when an index is loaded: the lemmas `LinesAre` and `LinesTell` say that `save_index` writes each
occupied slot in its turn, by its `Rank` among them, and `UnpackedIs` that `load_index` of these lines lists the same names, once each.
`ListedIsFound` joins the two: what is stored is listed, so what is not lost can be found.  Without `Cuts` and `Fails` that is always so; with `Cuts`
it is not, and not even then does it keep the next move from being refused (`BinVanishes`).

*Compositions.*  A step of `TasksSpec` or `CallsSpec` is a step of one part and leaves the variables of the others alone,
so the behaviours that TLC enumerates are behaviours of each part, and the parts' theorems hold of them.

**Only model-checked:**
`CheckpointFinishes`, `CallsEnd`, `ReadyRuns`, `PictureShown`, `StreamMoves`, `StreamArrives`, `QuietSenderSettles` and `DueFires`, as liveness
under fairness is beyond the prover.  What a chain of directories looks like is an induction over data; the proofs about
`Nxfs` do without, because `Sound` is a statement about single inodes.

## 5. Findings

1. *A failed checkpoint write can lose a committed transaction* (288).  The
   comment relies on the replay at the next mount, but the transaction is closed
   and the next commit writes its header over the entry.
2. *A deleted file may vanish though the bin has room* (`drivers/trash.c` 138).  A storage name is made of a slot, `load_index`
   gives the entries other slots, and the name of a free slot may be taken; the move is refused and its callers
   delete the file.  No crash within a call and no failure is needed: two files called alike, a restored one, a restart.
3. *`nxfs_check` repairs with stale bitmaps* (1551).  `wm_tick()` inside the walk can
   change the tree behind it.
4. *A tick inside `sched_yield` mixes up two stacks* (`kernel/sched.c` 228).  Between `g_current = next` and
   `ctx_switch` interrupts are on; `sched_tick` then saves the yielding task's stack pointer in the TCB of
   `next`.  `sched_sleep` and `sched_exit` go the same way.
5. *A decoded picture of the old page is painted over the new one* (`drivers/browser.c` 610).  The generation is
   compared before the lock is taken and the flag is set after it is released.

The modules state some more disagreements that no run lists; each shows with one change of a cfg:

- *A replay that fails reports success* (345).  The result of `raw_write` is not looked at and the entry is retired:
  `JournalLiveness.cfg` with `FailAt <- ReplayFails` violates `KeepsCommittedCopy`.
- *`nxfs_check` repairs what it did not walk* (1537): below a depth of 24 the walk stops and counts a problem, the repair does not stop.
  `NxfsCheck.cfg` with a `WalkMax` of one less violates `UsedIsMarked`.
- *`nxfs_delete_dir(cwd, ".")`* (1374) frees the directory it was given while its parent still lists it; the shell's `ddir`
  and the system call pass any name on, and `valid_name` is not asked.
  `NxfsTree.cfg` with `Dots <- DotOnly` violates `UsedIsMarked`.
- *An application that goes on sending never learns of a dead link* (`net/net.c` 530).  Each data segment takes the place of
  the stashed one and gives the tries back, so that with the browser's PING every two seconds the seventh timeout never comes:
  `PROPERTY SendsSettle` in `Tasks.cfg`.  A comment there (556-558) says "6 tries, then the connection is declared dead".
- *A crash within a move leaves a file in the bin that nothing lists* (`drivers/trash.c` 172).  The original is deleted before
  the index is written; and `save_index` empties `trashinfo.dat` in one commit and writes it in the next, so that a crash between
  these unlists the whole bin: `INVARIANT Restorable` in `Calls.cfg`.
- *A child's `close` cuts the parent's socket pair* (`kernel/lin_unix.c` 466).  `lin_unix_close` severs the link from its peer before
  it looks at the reference count that the fork has raised: `PROPERTY StaysConnected` in `Calls.cfg`.
- *An aborted transaction leaves the free counters changed* (201), and the next commit stores them: `INVARIANT CountersTrue` in
  `NxfsCheck.cfg`.
- *The parent of a fork resumes with 0 instead of the pid* (`kernel/linuxsys.c` 5432) when it is switched to by way of its
  saved frame: `INVARIANT ForkReturnsPid` in `Calls.cfg`.
- *A sleeper may never wake* when `pit_ms()` starts again at 0, after twelve hours at 100 Hz (`kernel/pit.c` 93): `PROPERTY SleeperRuns` in `Tasks.cfg`.

Met on the way and not counted as findings: `nxfs_rename` is not wrapped by
`stream_suspend`, although the comment there names rename, so a rename is refused while any stream
is open; the shell's `ddir` leaves the working directory at an inode it deleted;
a Linux descriptor whose stream was dropped by a failed append still believes it owns
the stream and may write into the next one; `connect` to a listener whose queue is full leaves a connected socket; a socket pair without
descriptors for it leaks two links.

## 6. What is not modelled, and why

- In the journal: read errors (the code treats an unreadable journal as none), the
  CRC as arithmetic, the choice of the cache entry to replace.
- In `Nxfs`: the double and triple block trees (they repeat the single one, in more
  blocks than TLC can carry), reads, contents and byte sizes of files, the
  number of sectors in a transaction and with it `meta_write` returning FULL (planned),
  failures of checkpoint writes (see finding 1), a second `nxfs_check` inside the
  first, the check of a volume too large for the shadow bitmaps (which repairs nothing),
  formatting a live volume, the installer's second volume.
- In `Scheduler`: page directories, SMP.  In `BrowserDecode`: connecting, sound, input, where tiles lie, and the bytes of a
  chunk that a reconnect keeps.  In `Tcp`: the handshake's retransmission, windows, checksums, RSTs to unknown
  connections, several slots.  In `LinThread`: `waitpid`, `nanosleep`, `execve`, signals.  In `LinSockets`: reading and writing,
  pipes, the X11 and PulseAudio endpoints.  In `Trash`: a second working directory and what `wm_tick` runs inside the copy.
- The components marked "no" above: formats, registers, drawing and emulation, whose
  correctness is not in the order of their steps.

## 7. Plan

Done: `AtomicStore`, `NxfsJournal`, `Nxfs`, `Scheduler`, `BrowserDecode`, `Tcp` with `ByteStream`, `TaskTimer`, `LinThread`, `LinSockets`
and `Trash` with their theorems.  Left, in this order:

1. `StreamClients`: the descriptors of `kernel/linuxsys.c` over one stream, with the identity of the writer: a write reaches
   the file it was meant for, or reports an error.
2. `NxfsTxBatch`: sectors per transaction against `TX_SOFT` and `TX_MAX` at the boundaries of the block trees.
3. `Ipc`, DHCP and SMP as room allows.
