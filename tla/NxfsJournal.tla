---------------------------- MODULE NxfsJournal ----------------------------
(***************************************************************************)
(* The write-ahead metadata transaction of NXFS v3 (src/fs/nxfs.c, g_tx),  *)
(* one raw sector write per step, with failing writes and a crash between  *)
(* any two of them, and the replay a mount runs.                           *)
(*                                                                         *)
(* A metadata sector is one of Lba, its contents one of Val.  The journal  *)
(* region is a header sector and TxMax + 1 slots: slot i holds payload i,  *)
(* and the commit record of a transaction of n sectors sits in slot n + 1, *)
(* where a longer transaction keeps a payload.  A CRC32 is modelled as the *)
(* payload it was taken over (no collisions); like the code's, it does not *)
(* cover the sector numbers of the header.                                 *)
(***************************************************************************)
EXTENDS Integers, Sequences

CONSTANTS
  Lba,      \* metadata sectors in the volume
  Sb,       \* the superblock's sector
  Val,      \* contents of a metadata sector
  None,     \* not a content: an empty cache entry
  TxMax,    \* payload sectors a transaction can hold (TX_MAX)
  FailAt,   \* the writes that can report an I/O error, by commit phase
  Stale,    \* what the journal slots can hold when the volume is formatted
  MaxSeq    \* bound on g_tx_seq in one boot

Phases == {"hdr", "pay", "cmt", "home", "retire", "rhome", "rretire"}

Slots == 1 .. TxMax + 1

PaySlot(v)      == [kind |-> "pay", val |-> v]
CmtSlot(s, crc) == [kind |-> "cmt", seq |-> s, crc |-> crc]
RawSlot         == [kind |-> "raw"]

Slot == [kind : {"pay"}, val : Val]
          \union [kind : {"cmt"}, seq : Nat, crc : Seq(Val)]
          \union {RawSlot}

ASSUME JournalAssumption ==
  /\ Sb \in Lba
  /\ None \notin Val
  /\ TxMax \in Nat \ {0}
  /\ MaxSeq \in Nat
  /\ FailAt \subseteq Phases
  /\ \A s \in Stale : s \in Slot

VARIABLES
  home,     \* the metadata sectors on the disk
  hdr,      \* the journal header sector
  slots,    \* the journal sectors after the header
  cache,    \* the sector cache: contents or None
  txActive, \* g_tx.active
  txLbas,   \* g_tx.lbas[0 .. count-1]
  txData,   \* g_tx.data[0 .. count-1]
  txSeq,    \* g_tx_seq
  sbMem,    \* fs->sb, the superblock in memory
  sbDirty,  \* fs->sb_dirty
  pc,       \* the next raw write of tx_commit or jrnl_replay
  idx       \* the sector of the transaction that write is for

disk == <<home, hdr, slots>>
tx   == <<txActive, txLbas, txData>>
sb   == <<sbMem, sbDirty>>
vars == <<home, hdr, slots, cache, txActive, txLbas, txData, txSeq, sbMem,
          sbDirty, pc, idx>>

NoHdr == [live |-> FALSE, seq |-> 0, lbas |-> <<>>, crc |-> <<>>]
TxHdr == [live |-> TRUE, seq |-> txSeq, lbas |-> txLbas, crc |-> txData]

\* What the sectors hold after the contents ds are written to the sectors ls.
Apply(st, ls, ds) ==
  [l \in Lba |->
     IF \E i \in 1 .. Len(ls) : ls[i] = l
     THEN ds[CHOOSE i \in 1 .. Len(ls) : ls[i] = l]
     ELSE st[l]]

\* jrnl_replay's verdict on the journal: a whole committed transaction.
Valid ==
  /\ hdr.live
  /\ Len(hdr.lbas) \in 1 .. TxMax
  /\ slots[Len(hdr.lbas) + 1] = CmtSlot(hdr.seq, hdr.crc)
  /\ \A i \in 1 .. Len(hdr.lbas) : slots[i] = PaySlot(hdr.crc[i])

\* The payload sectors of a valid journal, and the metadata a mount would
\* find after replaying them.
Payload   == [i \in 1 .. Len(hdr.lbas) |-> slots[i].val]
Recovered == IF Valid THEN Apply(home, hdr.lbas, Payload) ELSE home

\* meta_read outside a transaction: the cache first, then the disk.
Served == [l \in Lba |-> IF cache[l] # None THEN cache[l] ELSE home[l]]

EmptyCache == [l \in Lba |-> None]

\* How a raw write can end: done, failed with the sector as it was, or
\* failed with the new contents on the disk.
Outcomes(phase) ==
  IF phase \in FailAt THEN {"ok", "lost", "landed"} ELSE {"ok"}

-----------------------------------------------------------------------------
(* The volume has just been formatted (fs_format) and mounted.             *)

Init ==
  /\ home \in [Lba -> Val]
  /\ hdr = NoHdr
  /\ slots \in [Slots -> Stale]
  /\ cache = EmptyCache
  /\ txActive = FALSE
  /\ txLbas = <<>>
  /\ txData = <<>>
  /\ txSeq = 1
  /\ sbMem = home[Sb]
  /\ sbDirty = FALSE
  /\ pc = "idle"
  /\ idx = 1

-----------------------------------------------------------------------------
(* The operations of the filesystem code on the transaction.               *)

TxBegin ==
  /\ pc = "idle"
  /\ ~txActive
  /\ txActive' = TRUE
  /\ txLbas' = <<>>
  /\ txData' = <<>>
  /\ UNCHANGED <<disk, cache, txSeq, sb, pc, idx>>

TxAbort ==
  /\ txActive' = FALSE
  /\ txLbas' = <<>>
  /\ txData' = <<>>

Abort ==
  /\ pc = "idle"
  /\ txActive
  /\ TxAbort
  /\ UNCHANGED <<disk, cache, txSeq, sb, pc, idx>>

\* The buffer after meta_write(l, v): a sector is buffered once.
Buffered(l, v) ==
  IF \E i \in 1 .. Len(txLbas) : txLbas[i] = l
  THEN /\ txLbas' = txLbas
       /\ txData' = [i \in 1 .. Len(txLbas) |->
                       IF txLbas[i] = l THEN v ELSE txData[i]]
  ELSE /\ txLbas' = Append(txLbas, l)
       /\ txData' = Append(txData, v)

\* Slip: a sector that is buffered already is appended again.
MetaWriteTwice(l, v) ==
  /\ pc = "idle"
  /\ txActive
  /\ Len(txLbas) < TxMax
  /\ txLbas' = Append(txLbas, l)
  /\ txData' = Append(txData, v)
  /\ UNCHANGED <<disk, cache, txActive, txSeq, sb, pc, idx>>

\* meta_write returns FULL, changing nothing, when a new sector does not fit.
MetaWrite(l, v) ==
  /\ pc = "idle"
  /\ txActive
  /\ \/ \E i \in 1 .. Len(txLbas) : txLbas[i] = l
     \/ Len(txLbas) < TxMax
  /\ Buffered(l, v)
  /\ UNCHANGED <<disk, cache, txActive, txSeq, sb, pc, idx>>

\* meta_read misses the buffer and the cache, and reads the disk.
MetaRead(l) ==
  /\ pc = "idle"
  /\ cache[l] = None
  /\ \A i \in 1 .. Len(txLbas) : ~txActive \/ txLbas[i] # l
  /\ cache' = [cache EXCEPT ![l] = home[l]]
  /\ UNCHANGED <<disk, tx, txSeq, sb, pc, idx>>

\* cache_put takes the entry of another sector (the data area's, too).
Evict(l) ==
  /\ pc = "idle"
  /\ cache[l] # None
  /\ cache' = [cache EXCEPT ![l] = None]
  /\ UNCHANGED <<disk, tx, txSeq, sb, pc, idx>>

\* balloc, bfree, ialloc, ifree: the free counters change in memory.
TouchSb(v) ==
  /\ pc = "idle"
  /\ txActive
  /\ sbMem' = v
  /\ sbDirty' = TRUE
  /\ UNCHANGED <<disk, cache, tx, txSeq, pc, idx>>

-----------------------------------------------------------------------------
(* tx_commit, one raw write per step.                                      *)

\* The superblock joins the transaction; a full buffer aborts it.
FoldAborts == sbDirty /\ Len(txLbas) >= TxMax

CommitFull ==
  /\ pc = "idle"
  /\ txActive
  /\ FoldAborts
  /\ sbDirty' = FALSE
  /\ TxAbort
  /\ UNCHANGED <<disk, cache, txSeq, sbMem, pc, idx>>

CommitEmpty ==
  /\ pc = "idle"
  /\ txActive
  /\ ~sbDirty
  /\ txLbas = <<>>
  /\ txActive' = FALSE
  /\ UNCHANGED <<disk, cache, txLbas, txData, txSeq, sb, pc, idx>>

CommitStart ==
  /\ pc = "idle"
  /\ txActive
  /\ ~FoldAborts
  /\ sbDirty \/ txLbas # <<>>
  /\ txSeq <= MaxSeq
  /\ IF sbDirty THEN Buffered(Sb, sbMem) ELSE UNCHANGED <<txLbas, txData>>
  /\ sbDirty' = FALSE
  /\ pc' = "hdr"
  /\ UNCHANGED <<disk, cache, txActive, txSeq, sbMem, idx>>

WriteHdr == \E out \in Outcomes("hdr") :
  /\ pc = "hdr"
  /\ hdr' = IF out = "lost" THEN hdr ELSE TxHdr
  /\ IF out = "ok"
     THEN pc' = "pay" /\ idx' = 1 /\ UNCHANGED tx
     ELSE pc' = "idle" /\ TxAbort /\ UNCHANGED idx
  /\ UNCHANGED <<home, slots, cache, txSeq, sb>>

\* Slip: the loop over the payloads stops one short.
WritePayShort ==
  /\ pc = "pay"
  /\ IF idx < Len(txLbas)
     THEN /\ slots' = [slots EXCEPT ![idx] = PaySlot(txData[idx])]
          /\ idx' = idx + 1
          /\ UNCHANGED pc
     ELSE pc' = "cmt" /\ UNCHANGED <<slots, idx>>
  /\ UNCHANGED <<home, hdr, cache, tx, txSeq, sb>>

\* Slip: the checkpoint starts without a commit record.
WritePayUncommitted ==
  /\ pc = "pay"
  /\ slots' = [slots EXCEPT ![idx] = PaySlot(txData[idx])]
  /\ IF idx < Len(txLbas)
     THEN idx' = idx + 1 /\ UNCHANGED pc
     ELSE idx' = 1 /\ pc' = "home"
  /\ UNCHANGED <<home, hdr, cache, tx, txSeq, sb>>

WritePay == \E out \in Outcomes("pay") :
  /\ pc = "pay"
  /\ slots' = IF out = "lost" THEN slots
              ELSE [slots EXCEPT ![idx] = PaySlot(txData[idx])]
  /\ \/ /\ out = "ok" /\ idx < Len(txLbas)
        /\ idx' = idx + 1
        /\ UNCHANGED <<pc, tx>>
     \/ /\ out = "ok" /\ idx = Len(txLbas)
        /\ pc' = "cmt"
        /\ UNCHANGED <<idx, tx>>
     \/ /\ out # "ok"
        /\ pc' = "idle" /\ TxAbort
        /\ UNCHANGED idx
  /\ UNCHANGED <<home, hdr, cache, txSeq, sb>>

WriteCmt == \E out \in Outcomes("cmt") :
  /\ pc = "cmt"
  /\ slots' = IF out = "lost" THEN slots
              ELSE [slots EXCEPT ![Len(txLbas) + 1] = CmtSlot(txSeq, txData)]
  /\ IF out = "ok"
     THEN pc' = "home" /\ idx' = 1 /\ txSeq' = txSeq + 1 /\ UNCHANGED tx
     ELSE pc' = "idle" /\ TxAbort /\ UNCHANGED <<idx, txSeq>>
  /\ UNCHANGED <<home, hdr, cache, sb>>

\* Slip: the checkpoint does not refresh the cache.
WriteHomeUncached ==
  /\ pc = "home"
  /\ home' = [home EXCEPT ![txLbas[idx]] = txData[idx]]
  /\ IF idx < Len(txLbas)
     THEN idx' = idx + 1 /\ UNCHANGED pc
     ELSE pc' = "retire" /\ UNCHANGED idx
  /\ UNCHANGED <<hdr, slots, cache, tx, txSeq, sb>>

\* Slip: the checkpoint loop stops one short.
WriteHomeShort ==
  /\ pc = "home"
  /\ IF idx < Len(txLbas)
     THEN /\ home' = [home EXCEPT ![txLbas[idx]] = txData[idx]]
          /\ cache' = [cache EXCEPT ![txLbas[idx]] = txData[idx]]
          /\ idx' = idx + 1
          /\ UNCHANGED pc
     ELSE pc' = "retire" /\ UNCHANGED <<home, cache, idx>>
  /\ UNCHANGED <<hdr, slots, tx, txSeq, sb>>

\* A failing checkpoint write ends the commit with the journal entry in place.
WriteHome == \E out \in Outcomes("home") :
  /\ pc = "home"
  /\ home' = IF out = "lost" THEN home
             ELSE [home EXCEPT ![txLbas[idx]] = txData[idx]]
  /\ cache' = IF out = "ok" THEN [cache EXCEPT ![txLbas[idx]] = txData[idx]]
              ELSE cache
  /\ \/ /\ out = "ok" /\ idx < Len(txLbas)
        /\ idx' = idx + 1
        /\ UNCHANGED <<pc, txActive>>
     \/ /\ out = "ok" /\ idx = Len(txLbas)
        /\ pc' = "retire"
        /\ UNCHANGED <<idx, txActive>>
     \/ /\ out # "ok"
        /\ pc' = "idle" /\ txActive' = FALSE
        /\ UNCHANGED idx
  /\ UNCHANGED <<hdr, slots, txLbas, txData, txSeq, sb>>

\* The result of the retiring write is not looked at.
Retire == \E out \in Outcomes("retire") :
  /\ pc = "retire"
  /\ hdr' = IF out = "lost" THEN hdr ELSE NoHdr
  /\ TxAbort
  /\ pc' = "idle"
  /\ UNCHANGED <<home, slots, cache, txSeq, sb, idx>>

-----------------------------------------------------------------------------
(* Power loss, and the mount with its replay (fs_mount, jrnl_replay).      *)

Crash ==
  /\ pc # "down"
  /\ pc' = "down"
  /\ TxAbort
  /\ cache' = EmptyCache
  /\ txSeq' = 1
  /\ sbDirty' = FALSE
  /\ idx' = 1
  /\ UNCHANGED <<disk, sbMem>>

\* The step after a clean header is read: the superblock is read again.
Mounted ==
  /\ pc' = "idle"
  /\ sbMem' = home[Sb]

Replay ==
  /\ cache' = EmptyCache
  /\ sbDirty' = FALSE
  /\ idx' = 1
  /\ \/ /\ Valid
        /\ pc' = "rhome"
        /\ UNCHANGED sbMem
     \/ /\ hdr.live /\ ~Valid
        /\ pc' = "rretire"
        /\ UNCHANGED sbMem
     \/ /\ ~hdr.live
        /\ Mounted
  /\ UNCHANGED <<disk, tx, txSeq>>

Boot == pc = "down" /\ Replay

\* nxfs_remount_sata: a mount of a live system with no transaction open.
Remount == pc = "idle" /\ ~txActive /\ Replay

\* Slip: the replay loop stops one short.
ReplayHomeShort ==
  /\ pc = "rhome"
  /\ IF idx < Len(hdr.lbas)
     THEN /\ home' = [home EXCEPT ![hdr.lbas[idx]] = slots[idx].val]
          /\ idx' = idx + 1
          /\ UNCHANGED pc
     ELSE pc' = "rretire" /\ UNCHANGED <<home, idx>>
  /\ UNCHANGED <<hdr, slots, cache, tx, txSeq, sb>>

\* The result of a replaying write is not looked at.
ReplayHome == \E out \in Outcomes("rhome") :
  /\ pc = "rhome"
  /\ home' = IF out = "lost" THEN home
             ELSE [home EXCEPT ![hdr.lbas[idx]] = slots[idx].val]
  /\ \/ /\ idx < Len(hdr.lbas)
        /\ idx' = idx + 1
        /\ UNCHANGED pc
     \/ /\ idx = Len(hdr.lbas)
        /\ pc' = "rretire"
        /\ UNCHANGED idx
  /\ UNCHANGED <<hdr, slots, cache, tx, txSeq, sb>>

ReplayRetire == \E out \in Outcomes("rretire") :
  /\ pc = "rretire"
  /\ hdr' = IF out = "lost" THEN hdr ELSE NoHdr
  /\ Mounted
  /\ UNCHANGED <<home, slots, cache, tx, txSeq, sbDirty, idx>>

-----------------------------------------------------------------------------
CommitStep ==
  CommitFull \/ CommitEmpty \/ CommitStart \/ WriteHdr \/ WritePay \/ WriteCmt
    \/ WriteHome \/ Retire

MountStep == Boot \/ Remount \/ ReplayHome \/ ReplayRetire

Next ==
  \/ TxBegin \/ Abort
  \/ \E l \in Lba, v \in Val : MetaWrite(l, v)
  \/ \E l \in Lba : MetaRead(l) \/ Evict(l)
  \/ \E v \in Val : TouchSb(v)
  \/ CommitStep
  \/ MountStep
  \/ Crash

Spec == Init /\ [][Next]_vars

(***************************************************************************)
(* tx_commit and the mount are straight-line code: once started, each runs *)
(* to its end unless the power fails, and a machine that lost power is     *)
(* started again.  Nothing makes a client open, fill or commit.            *)
(***************************************************************************)
Fairness ==
  /\ WF_vars(WriteHdr \/ WritePay \/ WriteCmt \/ WriteHome \/ Retire)
  /\ WF_vars(Boot \/ ReplayHome \/ ReplayRetire)

FairSpec == Spec /\ Fairness

-----------------------------------------------------------------------------
(* Properties.                                                             *)

Distinct(s) == \A i, j \in 1 .. Len(s) : s[i] = s[j] => i = j

Header == [live : BOOLEAN, seq : Nat, lbas : Seq(Lba), crc : Seq(Val)]

\* The metadata on the disk and the journal region.
DiskType ==
  /\ home \in [Lba -> Val]
  /\ slots \in [Slots -> Slot]
  /\ hdr \in Header
  /\ Len(hdr.lbas) = Len(hdr.crc)
  /\ Len(hdr.lbas) <= TxMax
  /\ Distinct(hdr.lbas)

\* The transaction buffer.
TxType ==
  /\ txLbas \in Seq(Lba)
  /\ txData \in Seq(Val)
  /\ Len(txLbas) = Len(txData)
  /\ Len(txLbas) <= TxMax
  /\ Distinct(txLbas)

\* The rest of the memory, and the program counter.
MemType ==
  /\ cache \in [Lba -> Val \union {None}]
  /\ txSeq \in Nat
  /\ sbMem \in Val
  /\ pc \in {"idle", "down"} \union Phases
  /\ idx \in Nat \ {0}

\* Every variable holds a value of its type; the buffer never outgrows the
\* journal region and names no sector twice, on the disk or in memory.
TypeOK ==
  /\ DiskType
  /\ TxType
  /\ MemType
  /\ txActive \in BOOLEAN
  /\ sbDirty \in BOOLEAN

\* A cached sector is the sector on the disk: whenever the machine is restarted,
\* and whatever fails but the writes of a checkpoint (phase "home"), meta_read never
\* serves contents that a mount would not find (cache_put in tx_commit,
\* cache_invalidate_fs in fs_mount).
CacheCoherent == \A l \in Lba : cache[l] \in {None, home[l]}

\* How far the transaction has come, in the journal and at home, and how far
\* the entry in the journal has come home.
InJournal(n) == \A i \in 1 .. n : slots[i] = PaySlot(txData[i])
AtHome(n)    == \A i \in 1 .. n : home[txLbas[i]] = txData[i]
EntryHome(n) == \A i \in 1 .. n : home[hdr.lbas[i]] = hdr.crc[i]

\* What tx_commit and jrnl_replay have established when they are about to do
\* the write pc names.
PhaseInv ==
  /\ pc \in {"hdr", "pay", "cmt", "home", "retire"} =>
       txActive /\ Len(txLbas) >= 1
  /\ pc \in {"down", "rhome", "rretire"} => ~txActive /\ cache = EmptyCache
  /\ pc = "pay" => hdr = TxHdr /\ idx <= Len(txLbas) /\ InJournal(idx - 1)
  /\ pc = "cmt" => hdr = TxHdr /\ InJournal(Len(txLbas))
  /\ pc \in {"home", "retire"} =>
       /\ hdr.live /\ hdr.lbas = txLbas /\ hdr.crc = txData
       /\ InJournal(Len(txLbas))
       /\ slots[Len(txLbas) + 1] = CmtSlot(hdr.seq, txData)
  /\ pc = "home" => idx <= Len(txLbas) /\ AtHome(idx - 1)
  /\ pc = "retire" => AtHome(Len(txLbas))
  /\ pc = "rhome" => Valid /\ idx <= Len(hdr.lbas)
  /\ "rhome" \notin FailAt =>
       /\ pc = "rhome" => EntryHome(idx - 1)
       /\ pc = "rretire" /\ Valid => EntryHome(Len(hdr.lbas))

\* While a commit checkpoints, the journal on the disk is a whole copy of it:
\* cutting the power between two home writes loses nothing (tx_commit).
CheckpointCovered ==
  pc \in {"home", "retire"} =>
    /\ Valid
    /\ hdr.lbas = txLbas
    /\ Payload = txData

\* The journal is the only copy of what it holds: a valid entry whose sectors
\* did not all reach home is not overwritten (the comment in tx_commit:
\* "replay-on-mount will finish the checkpoint").
KeepsCommittedCopy ==
  [][Valid /\ home # Recovered /\ hdr' # hdr => home' = Recovered]_vars

\* A mount that cannot bring every sector of a committed transaction home
\* keeps the journal entry for the next mount: "Mount replays a
\* committed-but-unretired transaction" (the header of nxfs.c).
ReplayKeepsEntry ==
  [][pc = "rretire" /\ Valid /\ home # Recovered => hdr' = hdr]_vars

\* Only the journal phase of a commit moves the point a crash recovers to: no
\* checkpoint write, whole or failed, no retirement, no crash and no step of a
\* replay, itself cut short or not, changes it (tx_commit, jrnl_replay).
RecoveryPointFixed ==
  [][Recovered' # Recovered => pc \in {"hdr", "pay", "cmt"}]_vars

\* If the power stops failing, a commit or a replay that has started to write
\* home returns, and what it was to bring home has been there: the write that
\* a crash cut short is done again by the mount, and none is left out.
CheckpointFinishes ==
  <>[][~Crash]_vars =>
    \A l \in Lba, v \in Val :
      pc \in {"home", "rhome"} /\ Recovered[l] = v
        ~> pc = "idle" /\ home[l] = v

(***************************************************************************)
(* The journal implements the atomic store.  Before the commit record is   *)
(* down, readers see the disk through the cache and the buffer is pending; *)
(* from there to the end of the checkpoint, during a mount and while the   *)
(* machine is off, what counts is what recovery delivers.                  *)
(***************************************************************************)
view == IF pc \in {"idle", "hdr", "pay", "cmt"} THEN Served ELSE Recovered

pend ==
  [l \in Lba |->
     IF /\ txActive /\ pc \in {"idle", "hdr", "pay", "cmt"}
        /\ \E i \in 1 .. Len(txLbas) : txLbas[i] = l
     THEN txData[CHOOSE i \in 1 .. Len(txLbas) : txLbas[i] = l]
     ELSE None]

Atomic == INSTANCE AtomicStore WITH durable <- Recovered

\* Metadata updates are all-or-nothing, for readers and across any crash,
\* whatever writes fail, as long as no home write does.
StoreSpec == Atomic!Spec

=============================================================================
