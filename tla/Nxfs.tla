-------------------------------- MODULE Nxfs --------------------------------
(***************************************************************************)
(* The filesystem layer of NXFS v3 (src/fs/nxfs.c): inodes, bitmaps,       *)
(* directories, the streaming writer and nxfs_check, one journal commit    *)
(* per step.  NxfsJournal justifies the step: a commit reaches readers and *)
(* recovery whole or not at all, and one that reports an error may still   *)
(* reach recovery, whole, until the next commit begins.                    *)
(*                                                                         *)
(* Calls run on one thread.  Between two commits of a call the power may   *)
(* fail; between the calls of the streaming writer, and inside nxfs_check  *)
(* where it runs the window manager, other calls may run.  `job` is the    *)
(* stack of the calls in progress.  A call refused before it changes       *)
(* anything is no step.  Reads do not fail.                                *)
(*                                                                         *)
(* Files grow and are sized in blocks.  A file maps its first Direct       *)
(* blocks in the inode and the next Fan through one indirect block; the    *)
(* double and triple trees of the code repeat that step.  The rotating     *)
(* allocation hints are abstracted: an allocation takes any clear bit.     *)
(***************************************************************************)
EXTENDS Integers, FiniteSets, SequencesExt

CONSTANTS
  Ino,       \* inode numbers
  Root,      \* inode 0
  Blk,       \* block numbers, without the reserved block 0
  Name,      \* names a directory entry can have
  Nil,       \* no block, no name, no inode
  Direct,    \* NXFS_DIRECT
  Fan,       \* NXFS_PTRS_PER_BLOCK
  MaxKids,   \* NXFS_MAX_CHILDREN
  WalkMax,   \* how deep nxfs_check walks (24)
  Dots,      \* which of "." and ".." callers pass as the name of a victim
  IoFails,   \* whether a raw write can fail (a checkpoint's never does)
  Crashes,   \* whether the power can fail
  Checks,    \* whether nxfs_check(repair) is called
  Ticks,     \* whether wm_tick inside nxfs_check runs other calls
  Streams,   \* whether files are written
  Ctr        \* modulus of the free counters (2^32 in the code; 1 drops them)

ASSUME NxfsAssumption ==
  /\ Root \in Ino
  /\ Nil \notin Blk \union Name \union Ino \union {".", ".."}
  /\ IsFiniteSet(Ino) /\ IsFiniteSet(Blk)
  /\ Direct \in Nat \ {0} /\ Fan \in Nat \ {0}
  /\ MaxKids \in Nat \ {0} /\ Ctr \in Nat \ {0}
  /\ WalkMax \in Nat
  /\ Dots \subseteq {".", ".."}
  /\ {IoFails, Crashes, Checks, Ticks, Streams} \subseteq BOOLEAN

VARIABLES
  disk,    \* the metadata a mount would find
  view,    \* the metadata meta_read serves: disk, under the open transaction
  open,    \* g_tx.active
  sbDisk,  \* the free counters of the superblock on the disk
  sb,      \* fs->sb's free counters, and fs->sb_dirty
  doubt,   \* what a commit that failed may have left to recovery, or Nil
  ws,      \* g_ws, the streaming writer
  written, \* history: blocks whose data was written since their allocation
  job      \* the stack of calls in progress, the innermost first

meta == <<disk, view, open, sbDisk, sb, doubt>>
vars == <<disk, view, open, sbDisk, sb, doubt, ws, written, job>>

Ptr     == Blk \union {Nil}
FileMax == Direct + Fan
NoInd   == [k \in 1 .. Fan |-> Nil]

Node(type, name, parent) ==
  [type |-> type, name |-> name, parent |-> parent, size |-> 0,
   direct |-> [k \in 1 .. Direct |-> Nil], ind1 |-> Nil, kids |-> <<>>]

FreeNode == Node("free", Nil, Root)

NoStream ==
  [active |-> FALSE, suspended |-> FALSE, ino |-> Root, n |-> FreeNode]

-----------------------------------------------------------------------------
(* Reading the metadata m.                                                 *)

\* The data block at index k of the file n, or Nil (map_block, no alloc).
Mapped(m, n, k) ==
  IF k <= Direct THEN n.direct[k]
  ELSE IF n.ind1 = Nil THEN Nil ELSE m.ind[n.ind1][k - Direct]

\* What n maps, in the order file_truncate frees it; Nil where it maps nothing.
Chain(m, n) ==
  [k \in 1 .. FileMax + 1 |-> IF k <= FileMax THEN Mapped(m, n, k) ELSE n.ind1]

\* The places of a chain, and its blocks.
Held(chain)  == {k \in DOMAIN chain : chain[k] # Nil}
Blocks(m, n) == ToSet(Chain(m, n)) \ {Nil}

\* The child of the directory node n that is called name, or Nil.
Child(m, n, name) ==
  LET named == {k \in 1 .. Len(n.kids) : m.ino[n.kids[k]].name = name}
  IN  IF n.type # "dir" \/ named = {} THEN Nil ELSE n.kids[Min(named)]

\* nxfs_resolve.
Resolve(m, dir, name) ==
  CASE name = "."  -> dir
    [] name = ".." -> m.ino[dir].parent
    [] OTHER       -> Child(m, m.ino[dir], name)

-----------------------------------------------------------------------------
(* Transactions and allocation.                                            *)

\* The counters in memory after db blocks and di inodes are given back.
Counted(db, di) ==
  IF db = 0 /\ di = 0 THEN sb
  ELSE [fb |-> (sb.fb + db) % Ctr, fi |-> (sb.fi + di) % Ctr, dirty |-> TRUE]

Results == IF IoFails THEN BOOLEAN ELSE {TRUE}

\* Slip: the buffer stays readable.
TxAbortKeepsBuffer(s) ==
  /\ open' = FALSE
  /\ sb' = s
  /\ UNCHANGED <<view, disk, sbDisk, doubt>>

\* tx_abort: the buffer is dropped; the counters in memory are not restored.
TxAbort(s) ==
  /\ view' = disk
  /\ open' = FALSE
  /\ sb' = s
  /\ UNCHANGED <<disk, sbDisk, doubt>>

\* tx_commit of the metadata m and, if dirty, the counters s.  A commit that
\* fails has cleared sb_dirty, and leaves readers what they had.
TxCommit(m, s, ok) ==
  LET new == [m  |-> m,
              sb |-> IF s.dirty THEN [fb |-> s.fb, fi |-> s.fi] ELSE sbDisk]
  IN  /\ IF ok
         THEN disk' = new.m /\ sbDisk' = new.sb /\ doubt' = Nil
         ELSE doubt' \in {Nil, doubt, new} /\ UNCHANGED <<disk, sbDisk>>
      /\ view' = disk'
      /\ sb' = [s EXCEPT !.dirty = FALSE]

Close == open' = FALSE

\* Slip: the allocator reads past the open transaction.
SpareOnDisk(m) == Blk \ disk.bbm

\* balloc and bfree, on the bitmap.
Spare(m)     == Blk \ m.bbm
Claim(m, b)  == [m EXCEPT !.bbm = @ \union {b}]
Free(m, bs)  == [m EXCEPT !.bbm = @ \ bs]

\* The ways to have an indirect block in n (alloc_indirect), none when the
\* volume is full.
Rooted(m, n) ==
  IF n.ind1 # Nil THEN {[m |-> m, n |-> n]}
  ELSE {[m |-> [Claim(m, i) EXCEPT !.ind[i] = NoInd],
         n |-> [n EXCEPT !.ind1 = i]] : i \in Spare(m)}

\* The ways map_block(alloc) maps block k of the file n.
Mappings(m, n, k) ==
  IF k <= Direct
  THEN {[m |-> Claim(m, b), n |-> [n EXCEPT !.direct[k] = b], blk |-> b]
          : b \in Spare(m)}
  ELSE UNION {
         {[m |-> [Claim(r.m, b) EXCEPT !.ind[r.n.ind1][k - Direct] = b],
           n |-> r.n, blk |-> b] : b \in Spare(r.m)} : r \in Rooted(m, n)}

-----------------------------------------------------------------------------
(* The volume after fs_format and fs_mount.                                *)

Formatted ==
  [ino |-> [i \in Ino |->
              IF i = Root THEN Node("dir", Nil, Root) ELSE FreeNode],
   ind |-> [b \in Blk |-> NoInd],
   ibm |-> {Root},
   bbm |-> {}]

Tally(m) == [fb |-> (Cardinality(Blk) - Cardinality(m.bbm)) % Ctr,
             fi |-> (Cardinality(Ino) - Cardinality(m.ibm)) % Ctr]

Loaded(s) == [fb |-> s.fb, fi |-> s.fi, dirty |-> FALSE]

Init ==
  /\ disk = Formatted
  /\ view = Formatted
  /\ open = FALSE
  /\ sbDisk = Tally(Formatted)
  /\ sb = Loaded(sbDisk)
  /\ doubt = Nil
  /\ ws = NoStream
  /\ written = {}
  /\ job = <<>>

-----------------------------------------------------------------------------
(* The call stack.                                                         *)

Top    == Head(job)
At(op) == job # <<>> /\ Top.op = op

\* A call can start: nothing runs, or nxfs_check is inside wm_tick.
CanCall ==
  \/ job = <<>>
  \/ At("check") /\ Top.tick

Push(frames) == job' = frames \o job

\* The innermost call returns.  A failing truncate ends its caller as well,
\* but nxfs_delete_dir does not look at what became of a child.
Return(ok) ==
  LET rest == Tail(job)
  IN  job' = IF ~ok /\ rest # <<>> /\ rest[1].op \in {"begin", "delfile"}
             THEN Tail(rest) ELSE rest

Trunc(i) == [op |-> "trunc", ino |-> i, cleared |-> FALSE, todo |-> <<>>]

-----------------------------------------------------------------------------
(* file_truncate: one commit empties the inode, the next ones free what it *)
(* mapped, in batches that end where the buffer reaches TX_SOFT sectors.   *)

TruncBusy ==
  /\ At("trunc") /\ ~Top.cleared /\ open
  /\ Return(FALSE)
  /\ UNCHANGED <<meta, ws, written>>

\* Slip: ind1 is left in the inode.
TruncClearKeepsInd1 == \E ok \in Results :
  /\ At("trunc") /\ ~Top.cleared /\ ~open
  /\ LET n == view.ino[Top.ino]
     IN  /\ TxCommit([view EXCEPT !.ino[Top.ino] =
                        [Node(n.type, n.name, n.parent)
                           EXCEPT !.kids = n.kids, !.ind1 = n.ind1]], sb, ok)
         /\ job' = [job EXCEPT ![1].cleared = TRUE, ![1].todo = Chain(view, n)]
  /\ UNCHANGED <<open, ws, written>>

\* Slip: the emptied inode is not written before its blocks are freed.
TruncClearUnwritten ==
  /\ At("trunc") /\ ~Top.cleared /\ ~open
  /\ job' = [job EXCEPT ![1].cleared = TRUE,
                         ![1].todo = Chain(view, view.ino[Top.ino])]
  /\ UNCHANGED <<meta, ws, written>>

TruncClear == \E ok \in Results :
  /\ At("trunc") /\ ~Top.cleared /\ ~open
  /\ LET n == view.ino[Top.ino]
     IN  /\ TxCommit([view EXCEPT !.ino[Top.ino] =
                        [Node(n.type, n.name, n.parent)
                           EXCEPT !.kids = n.kids]], sb, ok)
         /\ IF ok
            THEN job' = [job EXCEPT ![1].cleared = TRUE,
                                    ![1].todo = Chain(view, n)]
            ELSE Return(FALSE)
  /\ UNCHANGED <<open, ws, written>>

\* Slip: the last block of the chain is not freed.
TruncFreeShort == \E ok \in Results :
  /\ At("trunc") /\ Top.cleared
  /\ LET now == {j \in Held(Top.todo) : \E l \in Held(Top.todo) : j < l}
     IN  TxCommit(Free(view, {Top.todo[j] : j \in now}), Counted(Cardinality(now), 0), ok)
  /\ Return(ok)
  /\ UNCHANGED <<open, ws, written>>

\* A batch ends at some block.  A transaction that buffered nothing, not even
\* the counters, cannot fail.
TruncFree == \E ok \in Results, k \in 0 .. FileMax + 1 :
  /\ At("trunc") /\ Top.cleared
  /\ IF Held(Top.todo) = {} THEN k = 0 /\ (ok \/ sb.dirty) ELSE k \in Held(Top.todo)
  /\ LET now == {j \in Held(Top.todo) : j <= k}
     IN  /\ TxCommit(Free(view, {Top.todo[j] : j \in now}), Counted(Cardinality(now), 0), ok)
         /\ IF ok /\ now # Held(Top.todo)
            THEN job' = [job EXCEPT ![1].todo =
                           [j \in DOMAIN @ |-> IF j <= k THEN Nil ELSE @[j]]]
            ELSE Return(ok)
  /\ UNCHANGED <<open, ws, written>>

-----------------------------------------------------------------------------
(* The streaming writer.                                                   *)

CallBegin(i) ==
  /\ Streams /\ CanCall
  /\ ~ws.active
  /\ view.ino[i].type = "file"
  /\ Push(<<Trunc(i), [op |-> "begin", ino |-> i]>>)
  /\ UNCHANGED <<meta, ws, written>>

\* stream_begin after its truncation.
BeginStream ==
  /\ At("begin")
  /\ ws' = [active |-> TRUE, suspended |-> FALSE, ino |-> Top.ino,
            n |-> view.ino[Top.ino]]
  /\ open' = TRUE
  /\ Return(TRUE)
  /\ UNCHANGED <<disk, view, sbDisk, sb, doubt, written>>

\* Slip: a commit before the data is written.
AppendMapCommits ==
  /\ CanCall /\ ws.active
  /\ ws.n.size < FileMax
  /\ \E r \in Mappings(view, ws.n, ws.n.size + 1) :
       LET n == [r.n EXCEPT !.size = @ + 1]
       IN  /\ TxCommit([r.m EXCEPT !.ino[ws.ino] = n], sb, TRUE)
           /\ ws' = [ws EXCEPT !.n = r.n]
           /\ written' = written \ (r.m.bbm \ view.bbm)
           /\ Push(<<[op |-> "append", blk |-> r.blk]>>)
  /\ UNCHANGED open

\* Slip: the index of the next block is off by one.
AppendMapBack ==
  /\ CanCall /\ ws.active
  /\ ws.n.size < FileMax
  /\ \E r \in Mappings(view, ws.n, IF ws.n.size = 0 THEN 1 ELSE ws.n.size) :
       /\ view' = r.m
       /\ sb' = Counted(-Cardinality(r.m.bbm \ view.bbm), 0)
       /\ ws' = [ws EXCEPT !.n = r.n]
       /\ written' = written \ (r.m.bbm \ view.bbm)
       /\ Push(<<[op |-> "append", blk |-> r.blk]>>)
  /\ UNCHANGED <<disk, open, sbDisk, doubt>>

\* stream_append maps the next block of the file ...
AppendMap ==
  /\ CanCall /\ ws.active
  /\ ws.n.size < FileMax
  /\ \E r \in Mappings(view, ws.n, ws.n.size + 1) :
       /\ view' = r.m
       /\ sb' = Counted(-Cardinality(r.m.bbm \ view.bbm), 0)
       /\ ws' = [ws EXCEPT !.n = r.n]
       /\ written' = written \ (r.m.bbm \ view.bbm)
       /\ Push(<<[op |-> "append", blk |-> r.blk]>>)
  /\ UNCHANGED <<disk, open, sbDisk, doubt>>

\* ... or finds the volume full, perhaps after it took an indirect block ...
AppendFull ==
  /\ CanCall /\ ws.active
  /\ ws.n.size < FileMax
  /\ Mappings(view, ws.n, ws.n.size + 1) = {}
  /\ LET took == IF ws.n.size >= Direct /\ ws.n.ind1 = Nil
                 THEN Cardinality(Spare(view)) ELSE 0
     IN  TxAbort(Counted(-took, 0))
  /\ ws' = NoStream
  /\ UNCHANGED <<written, job>>

\* ... writes its data, and commits where the buffer has reached TX_SOFT.
AppendData == \E wrote, batch, ok \in BOOLEAN :
  /\ At("append")
  /\ {wrote, ok} \subseteq Results
  /\ LET n == [ws.n EXCEPT !.size = @ + 1]
     IN  CASE ~wrote ->
              TxAbort(sb) /\ ws' = NoStream
           [] wrote /\ ~batch ->
              /\ ws' = [ws EXCEPT !.n = n]
              /\ UNCHANGED meta
           [] wrote /\ batch ->
              /\ TxCommit([view EXCEPT !.ino[ws.ino] = n], sb, ok)
              /\ open' = ok
              /\ ws' = IF ok THEN [ws EXCEPT !.n = n] ELSE NoStream
  /\ written' = IF wrote THEN written \union {Top.blk} ELSE written
  /\ Return(TRUE)

\* stream_end(true).
EndCommit == \E ok \in Results :
  /\ CanCall /\ ws.active
  /\ TxCommit([view EXCEPT !.ino[ws.ino] = ws.n], sb, ok)
  /\ Close
  /\ ws' = NoStream
  /\ UNCHANGED <<written, job>>

\* stream_end(false): drop the batch, then truncate what is on the disk.
EndAbort ==
  /\ CanCall /\ ws.active
  /\ TxAbort(sb)
  /\ ws' = NoStream
  /\ Push(<<Trunc(ws.ino)>>)
  /\ UNCHANGED <<written>>

-----------------------------------------------------------------------------
(* Creating, deleting and renaming.                                        *)

\* create_node finds nothing that refuses the name in this directory.
Creatable(dir, name) ==
  LET p == view.ino[dir]
  IN  /\ p.type = "dir"
      /\ Child(view, p, name) = Nil
      /\ Len(p.kids) < MaxKids
      /\ Ino # view.ibm

\* An open stream lends its transaction to another call, after committing what
\* it has, and takes it back.
StreamSuspend(ok) ==
  /\ TxCommit([view EXCEPT !.ino[ws.ino] = ws.n], sb, ok)
  /\ Close
  /\ ws' = IF ok THEN [ws EXCEPT !.suspended = TRUE] ELSE NoStream

StreamResume ==
  /\ open' = ws.suspended
  /\ ws' = [ws EXCEPT !.suspended = FALSE]

\* create_node_concurrent starts.
CallCreate(dir, name, type) == \E ok \in Results :
  /\ CanCall
  /\ IF ws.active
     THEN StreamSuspend(ok)
     ELSE ok /\ Creatable(dir, name) /\ UNCHANGED <<meta, ws>>
  /\ IF ok
     THEN Push(<<[op |-> "create", dir |-> dir, name |-> name,
                  type |-> type]>>)
     ELSE UNCHANGED job
  /\ UNCHANGED written

\* create_node gives up, then stream_resume.
CreateFails ==
  /\ At("create")
  /\ ~Creatable(Top.dir, Top.name)
  /\ Return(FALSE)
  /\ StreamResume
  /\ UNCHANGED <<disk, view, sbDisk, sb, doubt, written>>

\* create_node in one transaction, then stream_resume.
CreateNode == \E i \in Ino \ view.ibm, ok \in Results :
  /\ At("create")
  /\ Creatable(Top.dir, Top.name)
  /\ TxCommit([view EXCEPT !.ibm = @ \union {i},
                 !.ino[i] = Node(Top.type, Top.name, Top.dir),
                 !.ino[Top.dir].kids = Append(@, i)], Counted(0, -1), ok)
  /\ Return(ok)
  /\ StreamResume
  /\ UNCHANGED <<written>>

DelFile(dir, i) == [op |-> "delfile", dir |-> dir, ino |-> i]
DelDir(dir, i)  == [op |-> "deldir", dir |-> dir, ino |-> i,
                    snap |-> view.ino[i].kids]

\* What nxfs_delete_file or nxfs_delete_dir starts with for this name.
FileFrames(dir, name) ==
  LET i == Resolve(view, dir, name)
  IN  IF i # Nil /\ view.ino[i].type = "file"
      THEN <<Trunc(i), DelFile(dir, i)>> ELSE <<>>

DirFrames(dir, name) ==
  LET i == Resolve(view, dir, name)
  IN  IF i \notin {Nil, Root} /\ view.ino[i].type = "dir"
      THEN <<DelDir(dir, i)>> ELSE <<>>

CallDelete(dir, name) ==
  /\ CanCall
  /\ \E frames \in {FileFrames(dir, name), DirFrames(dir, name)} :
       frames # <<>> /\ Push(frames)
  /\ UNCHANGED <<meta, ws, written>>

\* Slip: the loop over the snapshot does not advance.
DelDirChildAgain ==
  /\ At("deldir") /\ Top.snap # <<>>
  /\ LET c == view.ino[Head(Top.snap)]
     IN  job' = (CASE c.type = "file" -> FileFrames(Top.ino, c.name)
                   [] c.type = "dir"  -> DirFrames(Top.ino, c.name)
                   [] c.type = "free" -> <<>>) \o job
  /\ UNCHANGED <<meta, ws, written>>

\* nxfs_delete_dir deletes the next child of its snapshot, by its name.
DelDirChild ==
  /\ At("deldir") /\ Top.snap # <<>>
  /\ LET c == view.ino[Head(Top.snap)]
     IN  job' = (CASE c.type = "file" -> FileFrames(Top.ino, c.name)
                   [] c.type = "dir"  -> DirFrames(Top.ino, c.name)
                   [] c.type = "free" -> <<>>)
                \o [job EXCEPT ![1].snap = Tail(@)]
  /\ UNCHANGED <<meta, ws, written>>

Unlinking == At("delfile") \/ (At("deldir") /\ Top.snap = <<>>)

UnlinkBusy ==
  /\ Unlinking /\ open
  /\ Return(FALSE)
  /\ UNCHANGED <<meta, ws, written>>

\* The transaction that frees the inode and takes it out of the directory
\* the caller named; the directory is written last.
Unlink == \E ok \in Results :
  /\ Unlinking /\ ~open
  /\ LET p == view.ino[Top.dir]
     IN  TxCommit([view EXCEPT !.ibm = @ \ {Top.ino},
                     !.ino[Top.ino] = FreeNode,
                     !.ino[Top.dir] = [p EXCEPT !.kids =
                                         RemoveFirst(@, Top.ino)]],
                  Counted(0, 1), ok)
  /\ Return(ok)
  /\ UNCHANGED <<open, ws, written>>

\* Slip: no test whether the new name is taken.
RenameOver(dir, old, new) == \E ok \in Results :
  /\ CanCall /\ ~open
  /\ LET i == Resolve(view, dir, old)
     IN  i # Nil /\ TxCommit([view EXCEPT !.ino[i].name = new], sb, ok)
  /\ UNCHANGED <<open, ws, written, job>>

\* Slip: no test whether the journal is taken.
RenameInStream(dir, old, new) == \E ok \in Results :
  /\ CanCall
  /\ Resolve(view, dir, new) = Nil
  /\ LET i == Resolve(view, dir, old)
     IN  i # Nil /\ TxCommit([view EXCEPT !.ino[i].name = new], sb, ok)
  /\ UNCHANGED <<open, ws, written, job>>

\* nxfs_rename; unlike a create it does not ask the stream for its transaction,
\* and is refused while one is open.
Rename(dir, old, new) == \E ok \in Results :
  /\ CanCall /\ ~open
  /\ old # new
  /\ Resolve(view, dir, new) = Nil
  /\ LET i == Resolve(view, dir, old)
     IN  /\ i # Nil
         /\ TxCommit([view EXCEPT !.ino[i].name = new], sb, ok)
  /\ UNCHANGED <<open, ws, written, job>>

-----------------------------------------------------------------------------
(* nxfs_check(repair): a walk from the root collects shadow bitmaps, which *)
(* then replace the bitmaps on the disk.                                   *)

\* Calls of chk_walk_inode to make, in order, at this depth.
Visits(inos, d) == [k \in DOMAIN inos |-> [ino |-> inos[k], depth |-> d]]

CallCheck ==
  /\ Checks /\ job = <<>>
  /\ Push(<<[op |-> "check", walk |-> Visits(<<Root>>, 0),
             seenB |-> {}, seenI |-> {}, tick |-> FALSE]>>)
  /\ UNCHANGED <<meta, ws, written>>

\* Slip: indirect blocks are not entered in the shadow.
CheckWalkDirect ==
  /\ At("check") /\ Top.walk # <<>>
  /\ LET i   == Head(Top.walk).ino
         d   == Head(Top.walk).depth
         n   == view.ino[i]
         new == d <= WalkMax /\ i \notin Top.seenI
     IN  job' = [job EXCEPT
           ![1].walk  = IF new /\ n.type = "dir"
                        THEN Visits(n.kids, d + 1) \o Tail(@) ELSE Tail(@),
           ![1].seenI = IF new THEN @ \union {i} ELSE @,
           ![1].seenB = IF new /\ n.type = "file"
                        THEN @ \union (ToSet(n.direct) \ {Nil}) ELSE @]
  /\ UNCHANGED <<meta, ws, written>>

\* chk_walk_inode; it leaves out what is too deep, and runs the window manager
\* after each file.
CheckWalk ==
  /\ At("check") /\ Top.walk # <<>>
  /\ LET i   == Head(Top.walk).ino
         d   == Head(Top.walk).depth
         n   == view.ino[i]
         new == d <= WalkMax /\ i \notin Top.seenI
     IN  job' = [job EXCEPT
           ![1].walk  = IF new /\ n.type = "dir"
                        THEN Visits(n.kids, d + 1) \o Tail(@) ELSE Tail(@),
           ![1].seenI = IF new THEN @ \union {i} ELSE @,
           ![1].seenB = IF new /\ n.type = "file"
                        THEN @ \union Blocks(view, n) ELSE @,
           ![1].tick  = Ticks /\ new /\ n.type = "file"]
  /\ UNCHANGED <<meta, ws, written>>

Shadow == [view EXCEPT !.bbm = Top.seenB, !.ibm = Top.seenI]

\* What nxfs_check compares before it repairs.
Differs ==
  \/ view.bbm # Top.seenB
  \/ [fb |-> sb.fb, fi |-> sb.fi] # Tally(Shadow)

CheckDone ==
  /\ At("check") /\ Top.walk = <<>>
  /\ ~Differs \/ open
  /\ Return(TRUE)
  /\ UNCHANGED <<meta, ws, written>>

\* A bitmap of more than TX_SOFT sectors is replaced in several commits.
CheckBatch == \E bits \in SUBSET Blk, ok \in Results :
  /\ At("check") /\ Top.walk = <<>>
  /\ Differs /\ ~open
  /\ view.bbm \intersect bits # Top.seenB \intersect bits
  /\ view.bbm \ bits # Top.seenB \ bits
  /\ TxCommit([view EXCEPT !.bbm = (@ \ bits) \union (Top.seenB \intersect bits)],
              sb, ok)
  /\ IF ok THEN job' = [job EXCEPT ![1].tick = FALSE] ELSE Return(FALSE)
  /\ UNCHANGED <<open, ws, written>>

\* Slip: no test whether the journal is taken.
CheckRepairInStream == \E ok \in Results :
  /\ At("check") /\ Top.walk = <<>>
  /\ Differs
  /\ TxCommit(Shadow, [Loaded(Tally(Shadow)) EXCEPT !.dirty = TRUE], ok)
  /\ Return(ok)
  /\ UNCHANGED <<open, ws, written>>

CheckRepair == \E ok \in Results :
  /\ At("check") /\ Top.walk = <<>>
  /\ Differs /\ ~open
  /\ TxCommit(Shadow, [Loaded(Tally(Shadow)) EXCEPT !.dirty = TRUE], ok)
  /\ Return(ok)
  /\ UNCHANGED <<open, ws, written>>

-----------------------------------------------------------------------------
(* Power loss and the next mount (fs_mount; the replay is NxfsJournal's).  *)

Crash == \E store \in {doubt, [m |-> disk, sb |-> sbDisk]} \ {Nil} :
  /\ Crashes
  /\ disk' = store.m
  /\ view' = store.m
  /\ sbDisk' = store.sb
  /\ sb' = Loaded(store.sb)
  /\ doubt' = Nil
  /\ open' = FALSE
  /\ ws' = NoStream
  /\ job' = <<>>
  /\ UNCHANGED written

-----------------------------------------------------------------------------
Step ==
  \/ TruncBusy \/ TruncClear \/ TruncFree
  \/ BeginStream \/ AppendData
  \/ CreateFails \/ CreateNode
  \/ DelDirChild \/ UnlinkBusy \/ Unlink
  \/ CheckWalk \/ CheckDone \/ CheckBatch \/ CheckRepair

Call ==
  \/ \E i \in Ino : CallBegin(i)
  \/ AppendMap \/ AppendFull \/ EndCommit \/ EndAbort
  \/ \E dir \in Ino, name \in Name, type \in {"file", "dir"} :
       CallCreate(dir, name, type)
  \/ \E dir \in Ino, name \in Name \union Dots : CallDelete(dir, name)
  \/ \E dir \in Ino, old \in Name \union Dots, new \in Name :
       Rename(dir, old, new)
  \/ CallCheck

Next == Step \/ Call \/ Crash

Spec == Init /\ [][Next]_vars

\* The thread that made a call runs it to its end.
FairSpec == Spec /\ WF_vars(Step)

-----------------------------------------------------------------------------
(* Properties.                                                             *)

\* The inodes that a walk from the root of m finds: those in every set that holds
\* the root and the children of its members.
Closed(m, S) == Root \in S /\ \A i \in S : ToSet(m.ino[i].kids) \subseteq S
Reach(m)     == {i \in Ino : \A S \in SUBSET Ino : Closed(m, S) => i \in S}

\* The blocks of the files in the tree.
InUse(m) == UNION {Blocks(m, m.ino[i]) : i \in Reach(m)}

\* Every variable has its type; what is not open is not buffered.
TypeOK ==
  /\ \A m \in {disk, view} :
       /\ m.ibm \subseteq Ino /\ m.bbm \subseteq Blk
       /\ m.ind \in [Blk -> [1 .. Fan -> Ptr]]
       /\ \A i \in Ino :
            /\ m.ino[i].type \in {"free", "file", "dir"}
            /\ m.ino[i].name \in Name \union {Nil}
            /\ m.ino[i].parent \in Ino
            /\ m.ino[i].size \in 0 .. FileMax
            /\ m.ino[i].direct \in [1 .. Direct -> Ptr]
            /\ m.ino[i].ind1 \in Ptr
            /\ m.ino[i].kids \in BoundedSeq(Ino, MaxKids)
  /\ sb \in [fb : 0 .. Ctr - 1, fi : 0 .. Ctr - 1, dirty : BOOLEAN]
  /\ sbDisk \in [fb : 0 .. Ctr - 1, fi : 0 .. Ctr - 1]
  /\ open \in BOOLEAN
  /\ ~open => view = disk
  /\ written \subseteq Blk

\* What a mount would find at any moment is a tree: every entry leads to a
\* live node that names its directory as its parent, no directory holds two
\* nodes of a name, and every file is mapped as far as its size says.
TreeSound ==
  \A i \in Reach(disk) :
    LET n == disk.ino[i]
    IN  /\ n.type # "free"
        /\ \A j, k \in 1 .. Len(n.kids) :
             /\ n.kids[j] # Root
             /\ disk.ino[n.kids[j]].parent = i
             /\ disk.ino[n.kids[j]].name = disk.ino[n.kids[k]].name => j = k
        /\ \A k \in 1 .. n.size : Mapped(disk, n, k) # Nil

\* A crash leaks, it never frees what is in use: at any moment, every inode
\* and block the recoverable tree refers to is set in its bitmap.
UsedIsMarked ==
  /\ Reach(disk) \subseteq disk.ibm
  /\ InUse(disk) \subseteq disk.bbm

\* No block belongs to two places of the recoverable tree.
NoSharing ==
  \A i, j \in Reach(disk) : \A k, l \in 1 .. FileMax + 1 :
    LET b == Chain(disk, disk.ino[i])[k]
    IN  b # Nil /\ b = Chain(disk, disk.ino[j])[l] => i = j /\ k = l

\* Ordered mode: a block that lies within the size of a recoverable file was
\* written after it was allocated to it.
OrderedData ==
  \A i \in Reach(disk) : \A k \in 1 .. disk.ino[i].size :
    Mapped(disk, disk.ino[i], k) \in written

\* What an open stream has mapped since its last commit, and so writes data
\* to, is in no file that a crash would recover.
StreamWritesAside ==
  ws.active =>
    (Blocks(view, ws.n) \ Blocks(disk, disk.ino[ws.ino])) \intersect InUse(disk) = {}

\* The inode that an open stream keeps a copy of stays the file it was opened
\* on: whatever calls run between its appends, it is not deleted, reused,
\* renamed or truncated under the copy that the next commit writes back.
StreamOwnsFile ==
  ws.active =>
    /\ ws.ino \in disk.ibm
    /\ disk.ino[ws.ino].type = "file"
    /\ disk.ino[ws.ino].name = ws.n.name
    /\ disk.ino[ws.ino].parent = ws.n.parent
    /\ disk.ino[ws.ino].size <= ws.n.size
    /\ \A k \in 1 .. disk.ino[ws.ino].size :
         Mapped(disk, disk.ino[ws.ino], k) = Mapped(view, ws.n, k)

\* While no write fails and the power stays on, a volume at rest has no leak:
\* what is marked is in use.
NothingLeaks ==
  job = <<>> /\ ~open =>
    /\ disk.ibm = Reach(disk)
    /\ disk.bbm = InUse(disk)

\* A commit leaves a file as it is, empties it, or makes it longer: a reader
\* after a crash finds a prefix of what was written, never other blocks.
FilesGrowOrEmpty ==
  [][\A i \in Ino :
       LET n == disk.ino[i]
           m == disk'.ino[i]
       IN  n.type = "file" /\ m.type = "file" /\ m.size # 0 =>
             /\ m.size >= n.size
             /\ \A k \in 1 .. n.size : Mapped(disk', m, k) = Mapped(disk, n, k)
    ]_vars

\* The free counters count the clear bits of the bitmaps, on the disk always
\* and in memory at rest.
CountersTrue ==
  /\ sbDisk = Tally(disk)
  /\ job = <<>> /\ ~open => Loaded(sb) = Loaded(Tally(disk))

\* After a repair that succeeds, the bitmaps and the counters are those of
\* the tree: every leak is gone.
RepairExact ==
  [][CheckRepair /\ disk' # disk =>
       /\ disk'.ibm = Reach(disk')
       /\ disk'.bbm = InUse(disk')
       /\ sbDisk' = Tally(disk')]_vars

\* Every call that has started ends.
CallsEnd == job # <<>> ~> job = <<>>

=============================================================================
