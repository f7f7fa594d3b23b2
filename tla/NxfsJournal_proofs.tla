------------------------- MODULE NxfsJournal_proofs -------------------------
(***************************************************************************)
(* What holds of the NXFS journal for any set of sectors and contents, any *)
(* capacity, and any choice of failing writes.                             *)
(***************************************************************************)
EXTENDS NxfsJournal, TLAPS

USE JournalAssumption

-----------------------------------------------------------------------------
(* The transaction buffer and Apply.                                       *)

\* A slot is one of its three kinds.
LEMMA SlotKinds ==
  /\ \A v \in Val : PaySlot(v) \in Slot
  /\ \A s \in Nat, crc \in Seq(Val) : CmtSlot(s, crc) \in Slot
BY DEF Slot, PaySlot, CmtSlot

\* The contents of a payload slot are those it was written with.
LEMMA PaySlotVal == \A v : PaySlot(v).val = v
BY DEF PaySlot

\* meta_write keeps the buffer well formed.
LEMMA BufferedType ==
  ASSUME TxType, NEW l \in Lba, NEW v \in Val,
         \/ \E i \in 1 .. Len(txLbas) : txLbas[i] = l
         \/ Len(txLbas) < TxMax,
         Buffered(l, v)
  PROVE  /\ txLbas' \in Seq(Lba)
         /\ txData' \in Seq(Val)
         /\ Len(txLbas') = Len(txData')
         /\ Len(txLbas') \in 1 .. TxMax
         /\ Distinct(txLbas')
<1>1. CASE \E i \in 1 .. Len(txLbas) : txLbas[i] = l
  <2>1. /\ txLbas' = txLbas
        /\ txData' = [i \in 1 .. Len(txLbas) |->
                        IF txLbas[i] = l THEN v ELSE txData[i]]
    BY <1>1 DEF Buffered
  <2>2. txData' \in Seq(Val) /\ Len(txData') = Len(txLbas)
    BY <2>1 DEF TxType
  <2> QED BY <1>1, <2>1, <2>2 DEF TxType, Distinct
<1>2. CASE ~ \E i \in 1 .. Len(txLbas) : txLbas[i] = l
  <2>1. txLbas' = Append(txLbas, l) /\ txData' = Append(txData, v)
    BY <1>2 DEF Buffered
  <2>2. Len(txLbas) < TxMax
    BY <1>2
  <2>3. Distinct(Append(txLbas, l))
    BY <1>2 DEF TxType, Distinct
  <2> QED BY <2>1, <2>2, <2>3 DEF TxType
<1> QED BY <1>1, <1>2

\* Applying a transaction puts each of its sectors' contents in place, and
\* touches no other sector.
LEMMA ApplyAt ==
  ASSUME NEW st, NEW ls \in Seq(Lba), NEW ds, Distinct(ls)
  PROVE  /\ \A i \in 1 .. Len(ls) : Apply(st, ls, ds)[ls[i]] = ds[i]
         /\ \A l \in Lba : (\A i \in 1 .. Len(ls) : ls[i] # l)
                              => Apply(st, ls, ds)[l] = st[l]
<1>1. ASSUME NEW i \in 1 .. Len(ls)
      PROVE  Apply(st, ls, ds)[ls[i]] = ds[i]
  <2>1. ls[i] \in Lba
    OBVIOUS
  <2>2. (CHOOSE k \in 1 .. Len(ls) : ls[k] = ls[i]) = i
    BY DEF Distinct
  <2> QED BY <2>1, <2>2 DEF Apply
<1>2. ASSUME NEW l \in Lba, \A i \in 1 .. Len(ls) : ls[i] # l
      PROVE  Apply(st, ls, ds)[l] = st[l]
  BY <1>2 DEF Apply
<1> QED BY <1>1, <1>2

\* Applying a transaction to the metadata gives metadata.
LEMMA ApplyType ==
  ASSUME NEW st \in [Lba -> Val], NEW ls \in Seq(Lba), NEW ds \in Seq(Val),
         Len(ls) = Len(ds)
  PROVE  Apply(st, ls, ds) \in [Lba -> Val]
BY DEF Apply

-----------------------------------------------------------------------------
(* Type correctness.                                                       *)

\* The freshly formatted volume has the types.
LEMMA InitType == Init => TypeOK
<1> SUFFICES ASSUME Init PROVE TypeOK
  OBVIOUS
<1>1. DiskType
  BY DEF Init, DiskType, NoHdr, Header, Slots, Distinct
<1>2. TxType
  BY DEF Init, TxType, Distinct
<1>3. MemType
  <2>1. home[Sb] \in Val
    BY DEF Init
  <2> QED BY <2>1 DEF Init, MemType, EmptyCache
<1>4. txActive \in BOOLEAN
  BY DEF Init
<1>5. sbDirty \in BOOLEAN
  BY DEF Init
<1> QED BY <1>1, <1>2, <1>3, <1>4, <1>5 DEF TypeOK

\* An aborted transaction leaves an empty buffer.
LEMMA AbortType ==
  ASSUME TxAbort
  PROVE  TxType'
<1>1. txLbas' = <<>> /\ txData' = <<>>
  BY DEF TxAbort
<1> QED BY <1>1 DEF TxType, Distinct

\* The header of the open transaction, and the retired header, are headers.
LEMMA TxHdrType ==
  ASSUME TxType, MemType
  PROVE  /\ TxHdr \in Header
         /\ Len(TxHdr.lbas) = Len(TxHdr.crc)
         /\ Len(TxHdr.lbas) <= TxMax
         /\ Distinct(TxHdr.lbas)
<1>1. TxHdr.lbas = txLbas /\ TxHdr.crc = txData
  BY DEF TxHdr
<1>2. TxHdr \in Header
  BY DEF TxType, MemType, TxHdr, Header
<1> QED BY <1>1, <1>2 DEF TxType

\* The retired header that tx_commit and jrnl_replay write is a header.
LEMMA NoHdrType ==
  /\ NoHdr \in Header
  /\ Len(NoHdr.lbas) = Len(NoHdr.crc)
  /\ Len(NoHdr.lbas) <= TxMax
  /\ Distinct(NoHdr.lbas)
BY DEF NoHdr, Header, Distinct

\* A step that writes no sector keeps the types of the disk.
LEMMA DiskKept == ASSUME DiskType, UNCHANGED disk PROVE DiskType'
BY DEF DiskType, disk

\* A step that leaves the transaction alone keeps its type.
LEMMA BufferKept ==
  ASSUME TxType, UNCHANGED <<txLbas, txData>>
  PROVE  TxType'
BY DEF TxType

\* The operations between commits keep the types.
LEMMA ClientType ==
  ASSUME TypeOK,
         \/ TxBegin \/ Abort
         \/ \E l \in Lba, v \in Val : MetaWrite(l, v)
         \/ \E l \in Lba : MetaRead(l) \/ Evict(l)
         \/ \E v \in Val : TouchSb(v)
  PROVE  TypeOK'
<1> USE DEF TypeOK
<1>1. CASE TxBegin
  <2>1. DiskType'
    BY <1>1, DiskKept DEF TxBegin
  <2>2. TxType'
    BY <1>1 DEF TxBegin, TxType, Distinct
  <2>3. MemType'
    BY <1>1 DEF TxBegin, MemType, sb
  <2>4. txActive' \in BOOLEAN
    BY <1>1 DEF TxBegin
  <2>5. sbDirty' \in BOOLEAN
    BY <1>1 DEF TxBegin, sb
  <2> QED BY <2>1, <2>2, <2>3, <2>4, <2>5
<1>2. CASE Abort
  <2>1. DiskType'
    BY <1>2, DiskKept DEF Abort
  <2>2. TxType'
    BY <1>2, AbortType DEF Abort
  <2>3. MemType'
    BY <1>2 DEF Abort, MemType, sb
  <2>4. txActive' \in BOOLEAN
    BY <1>2 DEF Abort, TxAbort
  <2>5. sbDirty' \in BOOLEAN
    BY <1>2 DEF Abort, sb
  <2> QED BY <2>1, <2>2, <2>3, <2>4, <2>5
<1>3. ASSUME NEW l \in Lba, NEW v \in Val, MetaWrite(l, v)
      PROVE  TypeOK'
  <2>1. DiskType'
    BY <1>3, DiskKept DEF MetaWrite
  <2>2. TxType'
    BY <1>3, BufferedType DEF MetaWrite, TxType
  <2>3. MemType'
    BY <1>3 DEF MetaWrite, MemType, sb
  <2>4. txActive' \in BOOLEAN
    BY <1>3 DEF MetaWrite
  <2>5. sbDirty' \in BOOLEAN
    BY <1>3 DEF MetaWrite, sb
  <2> QED BY <2>1, <2>2, <2>3, <2>4, <2>5
<1>4. ASSUME NEW l \in Lba, MetaRead(l) \/ Evict(l)
      PROVE  TypeOK'
  <2>1. DiskType'
    BY <1>4, DiskKept DEF MetaRead, Evict
  <2>2. TxType'
    BY <1>4, BufferKept DEF MetaRead, Evict, tx
  <2>3. MemType'
    BY <1>4 DEF MetaRead, Evict, MemType, DiskType, sb
  <2>4. txActive' \in BOOLEAN
    BY <1>4 DEF MetaRead, Evict, tx
  <2>5. sbDirty' \in BOOLEAN
    BY <1>4 DEF MetaRead, Evict, sb
  <2> QED BY <2>1, <2>2, <2>3, <2>4, <2>5
<1>5. ASSUME NEW v \in Val, TouchSb(v)
      PROVE  TypeOK'
  <2>1. DiskType'
    BY <1>5, DiskKept DEF TouchSb
  <2>2. TxType'
    BY <1>5, BufferKept DEF TouchSb, tx
  <2>3. MemType'
    BY <1>5 DEF TouchSb, MemType
  <2>4. txActive' \in BOOLEAN
    BY <1>5 DEF TouchSb, tx
  <2>5. sbDirty' \in BOOLEAN
    BY <1>5 DEF TouchSb
  <2> QED BY <2>1, <2>2, <2>3, <2>4, <2>5
<1> QED BY <1>1, <1>2, <1>3, <1>4, <1>5

\* The superblock joins the transaction, or the buffer is given up.
LEMMA CommitBeginType ==
  ASSUME TypeOK, CommitFull \/ CommitEmpty \/ CommitStart
  PROVE  TypeOK'
<1> USE DEF TypeOK
<1>1. CASE CommitFull
  <2>1. DiskType'
    BY <1>1, DiskKept DEF CommitFull
  <2>2. TxType'
    BY <1>1, AbortType DEF CommitFull
  <2>3. MemType'
    BY <1>1 DEF CommitFull, MemType
  <2>4. txActive' \in BOOLEAN
    BY <1>1 DEF CommitFull, TxAbort
  <2>5. sbDirty' \in BOOLEAN
    BY <1>1 DEF CommitFull
  <2> QED BY <2>1, <2>2, <2>3, <2>4, <2>5
<1>2. CASE CommitEmpty
  <2>1. DiskType'
    BY <1>2, DiskKept DEF CommitEmpty
  <2>2. TxType'
    BY <1>2, BufferKept DEF CommitEmpty
  <2>3. MemType'
    BY <1>2 DEF CommitEmpty, MemType, sb
  <2>4. txActive' \in BOOLEAN
    BY <1>2 DEF CommitEmpty
  <2>5. sbDirty' \in BOOLEAN
    BY <1>2 DEF CommitEmpty, sb
  <2> QED BY <2>1, <2>2, <2>3, <2>4, <2>5
<1>3. CASE CommitStart
  <2>1. DiskType'
    BY <1>3, DiskKept DEF CommitStart
  <2>2. TxType'
    <3>1. CASE sbDirty
      <4>1. Len(txLbas) < TxMax
        BY <1>3, <3>1 DEF CommitStart, FoldAborts, TxType
      <4>2. Buffered(Sb, sbMem) /\ sbMem \in Val
        BY <1>3, <3>1 DEF CommitStart, MemType
      <4> QED BY <4>1, <4>2, BufferedType DEF TxType
    <3>2. CASE ~sbDirty
      BY <1>3, <3>2, BufferKept DEF CommitStart
    <3> QED BY <3>1, <3>2
  <2>3. MemType'
    BY <1>3 DEF CommitStart, MemType, Phases
  <2>4. txActive' \in BOOLEAN
    BY <1>3 DEF CommitStart
  <2>5. sbDirty' \in BOOLEAN
    BY <1>3 DEF CommitStart
  <2> QED BY <2>1, <2>2, <2>3, <2>4, <2>5
<1> QED BY <1>1, <1>2, <1>3

\* What the raw writes do to the journal region keeps it a journal region.
LEMMA JournalWriteType ==
  ASSUME DiskType, UNCHANGED home,
         hdr' \in Header,
         Len(hdr'.lbas) = Len(hdr'.crc), Len(hdr'.lbas) <= TxMax,
         Distinct(hdr'.lbas),
         \/ slots' = slots
         \/ \E i \in Slots, s \in Slot : slots' = [slots EXCEPT ![i] = s]
  PROVE  DiskType'
BY DEF DiskType, Distinct

\* The journal phase of tx_commit.
LEMMA JournalPhaseType ==
  ASSUME TypeOK, PhaseInv, WriteHdr \/ WritePay \/ WriteCmt
  PROVE  TypeOK'
<1> USE DEF TypeOK
<1>1. CASE WriteHdr
  <2> PICK out \in Outcomes("hdr") : WriteHdr!(out)
    BY <1>1 DEF WriteHdr
  <2>1. DiskType'
    <3>1. hdr' = hdr \/ hdr' = TxHdr
      OBVIOUS
    <3> QED BY <3>1, TxHdrType, JournalWriteType DEF DiskType
  <2>2. TxType'
    BY AbortType, BufferKept DEF tx
  <2>3. MemType'
    BY DEF MemType, Phases, sb
  <2>4. txActive' \in BOOLEAN
    BY DEF TxAbort, tx
  <2>5. sbDirty' \in BOOLEAN
    BY DEF sb
  <2> QED BY <2>1, <2>2, <2>3, <2>4, <2>5
<1>2. CASE WritePay
  <2> PICK out \in Outcomes("pay") : WritePay!(out)
    BY <1>2 DEF WritePay
  <2>1. DiskType'
    <3>1. idx \in 1 .. Len(txLbas) /\ Len(txLbas) <= TxMax
      BY DEF PhaseInv, MemType, TxType
    <3>2. idx \in Slots
      BY <3>1 DEF Slots, TxType
    <3>3. PaySlot(txData[idx]) \in Slot
      BY <3>1, SlotKinds DEF TxType
    <3> QED BY <3>2, <3>3, JournalWriteType DEF DiskType
  <2>2. TxType'
    BY AbortType, BufferKept DEF tx
  <2>3. MemType'
    BY DEF MemType, Phases, sb
  <2>4. txActive' \in BOOLEAN
    BY DEF TxAbort, tx
  <2>5. sbDirty' \in BOOLEAN
    BY DEF sb
  <2> QED BY <2>1, <2>2, <2>3, <2>4, <2>5
<1>3. CASE WriteCmt
  <2> PICK out \in Outcomes("cmt") : WriteCmt!(out)
    BY <1>3 DEF WriteCmt
  <2>1. DiskType'
    <3>1. Len(txLbas) + 1 \in Slots
      BY DEF PhaseInv, TxType, Slots
    <3>2. CmtSlot(txSeq, txData) \in Slot
      BY SlotKinds DEF TxType, MemType
    <3> QED BY <3>1, <3>2, JournalWriteType DEF DiskType
  <2>2. TxType'
    BY AbortType, BufferKept DEF tx
  <2>3. MemType'
    BY DEF MemType, Phases, sb
  <2>4. txActive' \in BOOLEAN
    BY DEF TxAbort, tx
  <2>5. sbDirty' \in BOOLEAN
    BY DEF sb
  <2> QED BY <2>1, <2>2, <2>3, <2>4, <2>5
<1> QED BY <1>1, <1>2, <1>3

\* The checkpoint, and the retirement of the journal entry.
LEMMA CheckpointType ==
  ASSUME TypeOK, PhaseInv, WriteHome \/ Retire
  PROVE  TypeOK'
<1> USE DEF TypeOK
<1>1. CASE WriteHome
  <2> PICK out \in Outcomes("home") : WriteHome!(out)
    BY <1>1 DEF WriteHome
  <2>1. idx \in 1 .. Len(txLbas)
    BY DEF PhaseInv, MemType, TxType
  <2>2. txLbas[idx] \in Lba /\ txData[idx] \in Val
    BY <2>1 DEF TxType
  <2>3. DiskType'
    BY <2>2 DEF DiskType, Distinct
  <2>4. TxType'
    BY BufferKept
  <2>5. MemType'
    <3>1. cache' \in [Lba -> Val \union {None}]
      BY <2>2 DEF MemType
    <3> QED BY <3>1 DEF MemType, Phases, sb
  <2>6. txActive' \in BOOLEAN
    OBVIOUS
  <2>7. sbDirty' \in BOOLEAN
    BY DEF sb
  <2> QED BY <2>3, <2>4, <2>5, <2>6, <2>7
<1>2. CASE Retire
  <2> PICK out \in Outcomes("retire") : Retire!(out)
    BY <1>2 DEF Retire
  <2>1. DiskType'
    <3>1. hdr' = hdr \/ hdr' = NoHdr
      OBVIOUS
    <3> QED BY <3>1, NoHdrType, JournalWriteType DEF DiskType
  <2>2. TxType'
    BY AbortType
  <2>3. MemType'
    BY DEF MemType, sb
  <2>4. txActive' \in BOOLEAN
    BY DEF TxAbort
  <2>5. sbDirty' \in BOOLEAN
    BY DEF sb
  <2> QED BY <2>1, <2>2, <2>3, <2>4, <2>5
<1> QED BY <1>1, <1>2

\* Power loss, and the mount.
LEMMA RestartType ==
  ASSUME TypeOK, PhaseInv, Crash \/ MountStep
  PROVE  TypeOK'
<1> USE DEF TypeOK
<1>0. EmptyCache \in [Lba -> Val \union {None}] /\ home[Sb] \in Val
  BY DEF EmptyCache, DiskType
<1>1. CASE Crash
  <2>1. DiskType'
    BY <1>1, DiskKept DEF Crash
  <2>2. TxType'
    BY <1>1, AbortType DEF Crash
  <2>3. MemType'
    BY <1>0, <1>1 DEF Crash, MemType
  <2>4. txActive' \in BOOLEAN
    BY <1>1 DEF Crash, TxAbort
  <2>5. sbDirty' \in BOOLEAN
    BY <1>1 DEF Crash
  <2> QED BY <2>1, <2>2, <2>3, <2>4, <2>5
<1>2. CASE Boot \/ Remount
  <2>0. Replay
    BY <1>2 DEF Boot, Remount
  <2>1. DiskType'
    BY <2>0, DiskKept DEF Replay
  <2>2. TxType'
    BY <2>0, BufferKept DEF Replay, tx
  <2>3. MemType'
    BY <1>0, <2>0 DEF Replay, Mounted, MemType, Phases
  <2>4. txActive' \in BOOLEAN
    BY <2>0 DEF Replay, tx
  <2>5. sbDirty' \in BOOLEAN
    BY <2>0 DEF Replay
  <2> QED BY <2>1, <2>2, <2>3, <2>4, <2>5
<1>3. CASE ReplayHome
  <2> PICK out \in Outcomes("rhome") : ReplayHome!(out)
    BY <1>3 DEF ReplayHome
  <2>1. idx \in 1 .. Len(hdr.lbas)
    BY DEF PhaseInv, MemType, DiskType, Header
  <2>2. hdr.lbas[idx] \in Lba /\ hdr.crc[idx] \in Val
    BY <2>1 DEF DiskType, Header
  <2>3. slots[idx].val = hdr.crc[idx]
    <3>1. pc = "rhome" /\ Valid
      BY DEF PhaseInv
    <3>2. slots[idx] = PaySlot(hdr.crc[idx])
      BY <2>1, <3>1 DEF Valid
    <3> QED BY <3>2 DEF PaySlot
  <2>4. DiskType'
    BY <2>2, <2>3 DEF DiskType, Distinct
  <2>5. TxType'
    BY BufferKept DEF tx
  <2>6. MemType'
    BY DEF MemType, Phases, sb
  <2>7. txActive' \in BOOLEAN
    BY DEF tx
  <2>8. sbDirty' \in BOOLEAN
    BY DEF sb
  <2> QED BY <2>4, <2>5, <2>6, <2>7, <2>8
<1>4. CASE ReplayRetire
  <2> PICK out \in Outcomes("rretire") : ReplayRetire!(out)
    BY <1>4 DEF ReplayRetire
  <2>1. DiskType'
    <3>1. hdr' = hdr \/ hdr' = NoHdr
      OBVIOUS
    <3> QED BY <3>1, NoHdrType, JournalWriteType DEF DiskType
  <2>2. TxType'
    BY BufferKept DEF tx
  <2>3. MemType'
    BY <1>0 DEF MemType, Mounted
  <2>4. txActive' \in BOOLEAN
    BY DEF tx
  <2>5. sbDirty' \in BOOLEAN
    OBVIOUS
  <2> QED BY <2>1, <2>2, <2>3, <2>4, <2>5
<1> QED BY <1>1, <1>2, <1>3, <1>4 DEF MountStep

-----------------------------------------------------------------------------
(* What each write of a commit and of a replay builds on.                  *)

\* A commit or a mount that has returned owes nothing to the next write.
LEMMA IdlePhase == ASSUME pc' = "idle" PROVE PhaseInv'
BY DEF PhaseInv

\* The journal phase writes what it says it writes.
LEMMA JournalPhaseInv ==
  ASSUME TypeOK, PhaseInv, WriteHdr \/ WritePay \/ WriteCmt
  PROVE  PhaseInv'
<1> USE DEF TypeOK
<1>0. Len(txLbas) \in Nat
  BY DEF TxType
<1>1. CASE WriteHdr
  <2> PICK out \in Outcomes("hdr") : WriteHdr!(out)
    BY <1>1 DEF WriteHdr
  <2>1. CASE out = "ok"
    <3>1. /\ pc' = "pay" /\ idx' = 1
          /\ UNCHANGED <<txActive, txLbas, txData, txSeq>>
          /\ hdr' = TxHdr
      BY <2>1 DEF tx
    <3>2. txActive /\ Len(txLbas) >= 1
      BY DEF PhaseInv
    <3>3. TxHdr' = TxHdr
      BY <3>1 DEF TxHdr
    <3>4. InJournal(idx - 1)'
      BY <3>1 DEF InJournal
    <3> QED BY <1>0, <3>1, <3>2, <3>3, <3>4 DEF PhaseInv
  <2>2. CASE out # "ok"
    BY <2>2, IdlePhase
  <2> QED BY <2>1, <2>2
<1>2. CASE WritePay
  <2> PICK out \in Outcomes("pay") : WritePay!(out)
    BY <1>2 DEF WritePay
  <2>0. /\ hdr = TxHdr /\ InJournal(idx - 1)
        /\ idx \in 1 .. Len(txLbas)
        /\ txActive
    BY <1>0 DEF PhaseInv, MemType
  <2>1. CASE out = "ok"
    <3>1. /\ UNCHANGED <<txActive, txLbas, txData, txSeq, hdr>>
          /\ slots' = [slots EXCEPT ![idx] = PaySlot(txData[idx])]
      BY <2>1 DEF tx
    <3>2. TxHdr' = TxHdr
      BY <3>1 DEF TxHdr
    <3>3. idx \in Slots
      BY <2>0, <1>0 DEF Slots, TxType
    <3>5. \A i \in 1 .. idx : slots'[i] = PaySlot(txData[i])
      BY <2>0, <3>1, <3>3, <1>0 DEF InJournal, DiskType, TxType, Slots
    <3>6. CASE idx < Len(txLbas)
      <4>1. pc' = "pay" /\ idx' = idx + 1
        BY <2>1, <3>6
      <4>2. InJournal(idx - 1)'
        BY <3>1, <3>5, <4>1, <2>0 DEF InJournal
      <4> QED BY <1>0, <2>0, <3>1, <3>2, <4>1, <4>2 DEF PhaseInv
    <3>7. CASE idx = Len(txLbas)
      <4>1. pc' = "cmt"
        BY <2>1, <3>7
      <4>2. InJournal(Len(txLbas))'
        BY <3>1, <3>5, <3>7 DEF InJournal
      <4> QED BY <1>0, <2>0, <3>1, <3>2, <4>1, <4>2 DEF PhaseInv
    <3> QED BY <2>0, <1>0, <3>6, <3>7
  <2>2. CASE out # "ok"
    BY <2>2, IdlePhase
  <2> QED BY <2>1, <2>2
<1>3. CASE WriteCmt
  <2> PICK out \in Outcomes("cmt") : WriteCmt!(out)
    BY <1>3 DEF WriteCmt
  <2>0. /\ hdr = TxHdr /\ InJournal(Len(txLbas))
        /\ txActive /\ Len(txLbas) >= 1
    BY DEF PhaseInv
  <2>1. CASE out = "ok"
    <3>1. /\ UNCHANGED <<txActive, txLbas, txData, hdr, home>>
          /\ slots' = [slots EXCEPT ![Len(txLbas) + 1]
                          = CmtSlot(txSeq, txData)]
          /\ pc' = "home" /\ idx' = 1
      BY <2>1 DEF tx
    <3>2. /\ hdr.live /\ hdr.lbas = txLbas /\ hdr.crc = txData
          /\ hdr.seq = txSeq
      BY <2>0 DEF TxHdr
    <3>3. Len(txLbas) + 1 \in Slots
      BY <2>0, <1>0 DEF Slots, TxType
    <3>4. slots'[Len(txLbas) + 1] = CmtSlot(txSeq, txData)
      BY <3>1, <3>3 DEF DiskType
    <3>5. InJournal(Len(txLbas))'
      BY <2>0, <3>1, <3>3, <1>0 DEF InJournal, DiskType, Slots
    <3>6. AtHome(idx - 1)'
      BY <3>1 DEF AtHome
    <3> QED BY <1>0, <2>0, <3>1, <3>2, <3>4, <3>5, <3>6 DEF PhaseInv
  <2>2. CASE out # "ok"
    BY <2>2, IdlePhase
  <2> QED BY <2>1, <2>2
<1> QED BY <1>1, <1>2, <1>3

\* The checkpoint brings the transaction home, sector by sector.
LEMMA CheckpointPhaseInv ==
  ASSUME TypeOK, PhaseInv, WriteHome \/ Retire
  PROVE  PhaseInv'
<1> USE DEF TypeOK
<1>1. CASE WriteHome
  <2> PICK out \in Outcomes("home") : WriteHome!(out)
    BY <1>1 DEF WriteHome
  <2>0. /\ txActive /\ idx \in 1 .. Len(txLbas) /\ Len(txLbas) \in Nat
        /\ hdr.live /\ hdr.lbas = txLbas /\ hdr.crc = txData
        /\ InJournal(Len(txLbas))
        /\ slots[Len(txLbas) + 1] = CmtSlot(hdr.seq, txData)
        /\ AtHome(idx - 1)
    BY DEF PhaseInv, MemType, TxType
  <2>1. CASE out = "ok"
    <3>1. /\ UNCHANGED <<hdr, slots, txLbas, txData>>
          /\ home' = [home EXCEPT ![txLbas[idx]] = txData[idx]]
      BY <2>1
    <3>2. txLbas[idx] \in Lba
      BY <2>0 DEF TxType
    <3>3. \A i \in 1 .. idx : home'[txLbas[i]] = txData[i]
      BY <2>0, <3>1, <3>2 DEF AtHome, TxType, DiskType, Distinct
    <3>4. InJournal(Len(txLbas))'
      BY <2>0, <3>1 DEF InJournal
    <3>5. CASE idx < Len(txLbas)
      <4>1. pc' = "home" /\ idx' = idx + 1 /\ txActive' = txActive
        BY <2>1, <3>5
      <4>2. AtHome(idx - 1)'
        BY <3>1, <3>3, <4>1, <2>0 DEF AtHome
      <4> QED BY <2>0, <3>1, <3>4, <4>1, <4>2 DEF PhaseInv
    <3>6. CASE idx = Len(txLbas)
      <4>1. pc' = "retire" /\ txActive' = txActive
        BY <2>1, <3>6
      <4>2. AtHome(Len(txLbas))'
        BY <3>1, <3>3, <3>6 DEF AtHome
      <4> QED BY <2>0, <3>1, <3>4, <4>1, <4>2 DEF PhaseInv
    <3> QED BY <2>0, <3>5, <3>6
  <2>2. CASE out # "ok"
    BY <2>2, IdlePhase
  <2> QED BY <2>1, <2>2
<1>2. CASE Retire
  BY <1>2, IdlePhase DEF Retire
<1> QED BY <1>1, <1>2

\* A replay brings a valid entry home; a crash or a mount starts afresh.
LEMMA RestartPhaseInv ==
  ASSUME TypeOK, PhaseInv, Crash \/ MountStep
  PROVE  PhaseInv'
<1> USE DEF TypeOK
<1>1. CASE Crash
  <2>1. pc' = "down" /\ txActive' = FALSE /\ cache' = EmptyCache
    BY <1>1 DEF Crash, TxAbort
  <2> QED BY <2>1 DEF PhaseInv
<1>2. CASE Boot \/ Remount
  <2>0. Replay
    BY <1>2 DEF Boot, Remount
  <2>1. ~txActive
    BY <1>2 DEF Boot, Remount, PhaseInv
  <2>2. /\ cache' = EmptyCache /\ idx' = 1
        /\ UNCHANGED <<home, hdr, slots, txActive>>
    BY <2>0 DEF Replay, disk, tx
  <2>3. CASE Valid
    <3>1. pc' = "rhome"
      BY <2>0, <2>3 DEF Replay, Valid
    <3>2. Valid'
      BY <2>2, <2>3 DEF Valid
    <3>3. 1 <= Len(hdr.lbas)
      BY <2>3 DEF Valid
    <3>4. EntryHome(idx - 1)'
      BY <2>2 DEF EntryHome
    <3> QED BY <2>1, <2>2, <3>1, <3>2, <3>3, <3>4 DEF PhaseInv
  <2>4. CASE hdr.live /\ ~Valid
    <3>1. pc' = "rretire"
      BY <2>0, <2>4 DEF Replay
    <3>2. ~Valid'
      BY <2>2, <2>4 DEF Valid
    <3> QED BY <2>1, <2>2, <3>1, <3>2 DEF PhaseInv
  <2>5. CASE ~hdr.live
    <3>1. pc' = "idle"
      BY <2>0, <2>5 DEF Replay, Mounted, Valid
    <3> QED BY <3>1, IdlePhase
  <2> QED BY <2>3, <2>4, <2>5
<1>3. CASE ReplayHome
  <2> PICK out \in Outcomes("rhome") : ReplayHome!(out)
    BY <1>3 DEF ReplayHome
  <2>0. /\ Valid /\ ~txActive /\ cache = EmptyCache
        /\ Len(hdr.lbas) \in Nat /\ idx \in 1 .. Len(hdr.lbas)
    BY DEF PhaseInv, MemType, DiskType, Header
  <2>1. UNCHANGED <<hdr, slots, cache, txActive>>
    BY DEF tx
  <2>2. Valid'
    BY <2>0, <2>1 DEF Valid
  <2>3. ASSUME "rhome" \notin FailAt
        PROVE  \A i \in 1 .. idx : home'[hdr.lbas[i]] = hdr.crc[i]
    <3>1. out = "ok"
      BY <2>3 DEF Outcomes
    <3>2. EntryHome(idx - 1)
      BY <2>3 DEF PhaseInv
    <3>3. hdr.lbas[idx] \in Lba
      BY <2>0 DEF DiskType, Header
    <3>4. slots[idx] = PaySlot(hdr.crc[idx])
      BY <2>0 DEF Valid
    <3>5. slots[idx].val = hdr.crc[idx]
      BY <3>4 DEF PaySlot
    <3>6. home' = [home EXCEPT ![hdr.lbas[idx]] = hdr.crc[idx]]
      BY <3>1, <3>5
    <3> QED BY <2>0, <3>2, <3>3, <3>6 DEF EntryHome, DiskType, Distinct, Header
  <2>4. CASE idx < Len(hdr.lbas)
    <3>1. pc' = "rhome" /\ idx' = idx + 1
      BY <2>4
    <3>2. "rhome" \notin FailAt => EntryHome(idx - 1)'
      BY <2>0, <2>1, <2>3, <3>1 DEF EntryHome
    <3>3. idx' <= Len(hdr'.lbas)
      BY <2>0, <2>1, <2>4, <3>1
    <3> QED BY <2>0, <2>1, <2>2, <3>1, <3>2, <3>3 DEF PhaseInv
  <2>5. CASE idx = Len(hdr.lbas)
    <3>1. pc' = "rretire"
      BY <2>5
    <3>2. "rhome" \notin FailAt => EntryHome(Len(hdr.lbas))'
      BY <2>0, <2>1, <2>3, <2>5 DEF EntryHome
    <3> QED BY <2>0, <2>1, <3>1, <3>2 DEF PhaseInv
  <2> QED BY <2>0, <2>4, <2>5
<1>4. CASE ReplayRetire
  BY <1>4, IdlePhase DEF ReplayRetire, Mounted
<1> QED BY <1>1, <1>2, <1>3, <1>4 DEF MountStep

\* Whatever the clients and the power do, types hold and every write of a
\* commit or a replay finds what it builds on.
LEMMA InvStep == TypeOK /\ PhaseInv /\ [Next]_vars => TypeOK' /\ PhaseInv'
<1> SUFFICES ASSUME TypeOK, PhaseInv, [Next]_vars
             PROVE  TypeOK' /\ PhaseInv'
  OBVIOUS
<1>1. ASSUME \/ TxBegin \/ Abort
             \/ \E l \in Lba, v \in Val : MetaWrite(l, v)
             \/ \E l \in Lba : MetaRead(l) \/ Evict(l)
             \/ \E v \in Val : TouchSb(v)
      PROVE  TypeOK' /\ PhaseInv'
  <2>1. pc' = "idle"
    BY <1>1 DEF TxBegin, Abort, MetaWrite, MetaRead, Evict, TouchSb
  <2> QED BY <1>1, <2>1, ClientType, IdlePhase
<1>2. CASE CommitFull \/ CommitEmpty
  <2>1. pc' = "idle"
    BY <1>2 DEF CommitFull, CommitEmpty
  <2> QED BY <1>2, <2>1, CommitBeginType, IdlePhase
<1>3. CASE CommitStart
  <2>1. TypeOK'
    BY <1>3, CommitBeginType
  <2>2. pc' = "hdr" /\ txActive'
    BY <1>3 DEF CommitStart
  <2>3. Len(txLbas') >= 1
    <3>1. CASE sbDirty
      <4>1. Len(txLbas) < TxMax
        BY <1>3, <3>1 DEF CommitStart, FoldAborts, TypeOK, TxType
      <4>2. Buffered(Sb, sbMem) /\ sbMem \in Val
        BY <1>3, <3>1 DEF CommitStart, TypeOK, MemType
      <4> QED BY <4>1, <4>2, BufferedType DEF TypeOK, TxType
    <3>2. CASE ~sbDirty
      <4>1. txLbas # <<>> /\ txLbas' = txLbas /\ txLbas \in Seq(Lba)
        BY <1>3, <3>2 DEF CommitStart, TypeOK, TxType
      <4> QED BY <4>1
    <3> QED BY <3>1, <3>2
  <2> QED BY <2>1, <2>2, <2>3 DEF PhaseInv
<1>4. CASE WriteHdr \/ WritePay \/ WriteCmt
  BY <1>4, JournalPhaseType, JournalPhaseInv
<1>5. CASE WriteHome \/ Retire
  BY <1>5, CheckpointType, CheckpointPhaseInv
<1>6. CASE Crash \/ MountStep
  BY <1>6, RestartType, RestartPhaseInv
<1>7. CASE UNCHANGED vars
  <2>1. TypeOK'
    BY <1>7 DEF TypeOK, DiskType, TxType, MemType, vars
  <2>2. PhaseInv'
    BY <1>7 DEF PhaseInv, vars, InJournal, AtHome, EntryHome, Valid, TxHdr
  <2> QED BY <2>1, <2>2
<1> QED BY <1>1, <1>2, <1>3, <1>4, <1>5, <1>6, <1>7 DEF Next, CommitStep

\* Every write of a commit and of a replay finds what it builds on.
THEOREM PhasesHold == Spec => [](TypeOK /\ PhaseInv)
<1>1. Init => TypeOK /\ PhaseInv
  <2>1. Init => pc = "idle"
    BY DEF Init
  <2>2. pc = "idle" => PhaseInv
    BY DEF PhaseInv
  <2> QED BY <2>1, <2>2, InitType
<1> QED BY <1>1, InvStep, PTL DEF Spec

\* Type correctness, for any set of failing writes.
THEOREM TypeCorrect == Spec => []TypeOK
BY PhasesHold, PTL

\* While a commit checkpoints, the journal holds a whole, valid copy of it,
\* for any set of failing writes.
THEOREM JournalCovers == Spec => []CheckpointCovered
<1>1. TypeOK /\ PhaseInv => CheckpointCovered
  <2> SUFFICES ASSUME TypeOK, PhaseInv, pc \in {"home", "retire"}
               PROVE  Valid /\ hdr.lbas = txLbas /\ Payload = txData
    BY DEF CheckpointCovered
  <2>1. /\ hdr.live /\ hdr.lbas = txLbas /\ hdr.crc = txData
        /\ InJournal(Len(txLbas))
        /\ slots[Len(txLbas) + 1] = CmtSlot(hdr.seq, txData)
        /\ Len(txLbas) >= 1
    BY DEF PhaseInv
  <2>2. Valid
    BY <2>1 DEF Valid, InJournal, TypeOK, TxType
  <2>3. \A i \in 1 .. Len(txLbas) : slots[i].val = txData[i]
    BY <2>1, PaySlotVal DEF InJournal
  <2>4. Payload = txData
    BY <2>1, <2>3 DEF Payload, TypeOK, TxType
  <2> QED BY <2>1, <2>2, <2>4
<1> QED BY <1>1, PhasesHold, PTL

-----------------------------------------------------------------------------
(* The cache.                                                              *)

\* As long as no checkpoint write fails, a cached sector is the sector on the
\* disk, across commits, aborts, crashes and mounts.
THEOREM CacheStaysCoherent ==
  ASSUME "home" \notin FailAt
  PROVE  Spec => []CacheCoherent
<1>1. Init => CacheCoherent
  BY DEF Init, CacheCoherent, EmptyCache
<1>2. TypeOK /\ PhaseInv /\ CacheCoherent /\ [Next]_vars => CacheCoherent'
  <2> SUFFICES ASSUME TypeOK, PhaseInv, CacheCoherent, [Next]_vars
               PROVE  CacheCoherent'
    OBVIOUS
  <2>1. CASE UNCHANGED <<cache, home>>
    BY <2>1 DEF CacheCoherent
  <2>2. CASE cache' = EmptyCache
    BY <2>2 DEF CacheCoherent, EmptyCache
  <2>3. ASSUME NEW l \in Lba, MetaRead(l) \/ Evict(l)
        PROVE  CacheCoherent'
    <3>1. home' = home
      BY <2>3 DEF MetaRead, Evict, disk
    <3>2. cache' = [cache EXCEPT ![l] = home[l]]
             \/ cache' = [cache EXCEPT ![l] = None]
      BY <2>3 DEF MetaRead, Evict
    <3> QED BY <3>1, <3>2 DEF CacheCoherent, TypeOK, MemType
  <2>4. CASE WriteHome
    <3> PICK out \in Outcomes("home") : WriteHome!(out)
      BY <2>4 DEF WriteHome
    <3>1. out = "ok"
      BY DEF Outcomes
    <3>2. /\ home' = [home EXCEPT ![txLbas[idx]] = txData[idx]]
          /\ cache' = [cache EXCEPT ![txLbas[idx]] = txData[idx]]
      BY <3>1
    <3> QED BY <3>2 DEF CacheCoherent, TypeOK, MemType, DiskType
  <2>5. CASE ReplayHome
    <3>1. cache' = EmptyCache
      BY <2>5 DEF ReplayHome, PhaseInv
    <3> QED BY <3>1, <2>2
  <2>6. CASE TxBegin \/ Abort \/ (\E l \in Lba, v \in Val : MetaWrite(l, v))
               \/ (\E v \in Val : TouchSb(v))
    BY <2>1, <2>6 DEF TxBegin, Abort, MetaWrite, TouchSb, disk
  <2>7. CASE CommitFull \/ CommitEmpty \/ CommitStart
    BY <2>1, <2>7 DEF CommitFull, CommitEmpty, CommitStart, disk
  <2>8. CASE WriteHdr \/ WritePay \/ WriteCmt \/ Retire \/ ReplayRetire
    BY <2>1, <2>8 DEF WriteHdr, WritePay, WriteCmt, Retire, ReplayRetire
  <2>9. CASE Crash \/ Boot \/ Remount
    BY <2>2, <2>9 DEF Crash, Boot, Remount, Replay
  <2>10. CASE UNCHANGED vars
    BY <2>1, <2>10 DEF vars
  <2> QED BY <2>3, <2>4, <2>5, <2>6, <2>7, <2>8, <2>9, <2>10
          DEF Next, CommitStep, MountStep
<1> QED BY <1>1, <1>2, PhasesHold, PTL DEF Spec

-----------------------------------------------------------------------------
(* What recovery delivers.                                                 *)

\* The payload of a valid entry is the one its checksum was taken over.
LEMMA ValidPayload ==
  ASSUME TypeOK, Valid
  PROVE  Payload = hdr.crc
<1>1. \A i \in 1 .. Len(hdr.lbas) : slots[i].val = hdr.crc[i]
  BY PaySlotVal DEF Valid
<1> QED BY <1>1 DEF Payload, TypeOK, DiskType, Header

\* Bringing one more sector of a transaction home changes nothing about the
\* result of applying the transaction.
LEMMA ApplyAgain ==
  ASSUME NEW st \in [Lba -> Val], NEW ls \in Seq(Lba), NEW ds \in Seq(Val),
         Len(ls) = Len(ds), Distinct(ls), NEW k \in 1 .. Len(ls)
  PROVE  Apply([st EXCEPT ![ls[k]] = ds[k]], ls, ds) = Apply(st, ls, ds)
<1> DEFINE st2 == [st EXCEPT ![ls[k]] = ds[k]]
<1>0. ls[k] \in Lba /\ ds[k] \in Val
  OBVIOUS
<1>1. st2 \in [Lba -> Val]
  BY <1>0
<1>2. ASSUME NEW l \in Lba
      PROVE  Apply(st2, ls, ds)[l] = Apply(st, ls, ds)[l]
  <2>1. CASE \E i \in 1 .. Len(ls) : ls[i] = l
    <3> PICK i \in 1 .. Len(ls) : ls[i] = l
      BY <2>1
    <3> HIDE DEF st2
    <3> QED BY <1>1, ApplyAt
  <2>2. CASE \A i \in 1 .. Len(ls) : ls[i] # l
    <3>1. st2[l] = st[l]
      BY <2>2
    <3> HIDE DEF st2
    <3> QED BY <2>2, <3>1, ApplyAt
  <2> QED BY <2>1, <2>2
<1> HIDE DEF st2
<1>3. Apply(st2, ls, ds) \in [Lba -> Val] /\ Apply(st, ls, ds) \in [Lba -> Val]
  BY <1>1, ApplyType
<1>4. Apply(st2, ls, ds) = Apply(st, ls, ds)
  BY <1>2, <1>3
<1> QED BY <1>4 DEF st2

\* A transaction that is home already changes nothing.
LEMMA ApplyDone ==
  ASSUME NEW st \in [Lba -> Val], NEW ls \in Seq(Lba), NEW ds \in Seq(Val),
         Len(ls) = Len(ds), Distinct(ls),
         \A i \in 1 .. Len(ls) : st[ls[i]] = ds[i]
  PROVE  Apply(st, ls, ds) = st
<1>1. ASSUME NEW l \in Lba
      PROVE  Apply(st, ls, ds)[l] = st[l]
  <2>1. CASE \E i \in 1 .. Len(ls) : ls[i] = l
    BY <2>1, ApplyAt
  <2>2. CASE \A i \in 1 .. Len(ls) : ls[i] # l
    BY <2>2, ApplyAt
  <2> QED BY <2>1, <2>2
<1>2. Apply(st, ls, ds) \in [Lba -> Val]
  BY ApplyType
<1> QED BY <1>1, <1>2

\* An entry that is home, or no valid entry: recovery changes nothing.
LEMMA NothingOwed ==
  ASSUME TypeOK, Valid => EntryHome(Len(hdr.lbas))
  PROVE  Recovered = home
<1>1. CASE Valid
  <2>1. Recovered = Apply(home, hdr.lbas, hdr.crc)
    BY <1>1, ValidPayload DEF Recovered
  <2>2. Apply(home, hdr.lbas, hdr.crc) = home
    BY <1>1, ApplyDone DEF EntryHome, TypeOK, DiskType, Header
  <2> QED BY <2>1, <2>2
<1>2. CASE ~Valid
  BY <1>2 DEF Recovered
<1> QED BY <1>1, <1>2

\* What recovery delivers depends on the disk alone.
LEMMA RecoveredKept ==
  ASSUME UNCHANGED disk
  PROVE  Recovered' = Recovered
BY DEF disk, Recovered, Valid, Payload

\* A checkpoint write of a commit, failed or not, leaves the recovery point
\* where it is: the entry covers it.
LEMMA CheckpointKeepsPoint ==
  ASSUME TypeOK, PhaseInv, WriteHome
  PROVE  Recovered' = Recovered
<1> PICK out \in Outcomes("home") : WriteHome!(out)
  BY DEF WriteHome
<1>1. /\ UNCHANGED <<hdr, slots>>
      /\ home' = home \/ home' = [home EXCEPT ![txLbas[idx]] = txData[idx]]
  OBVIOUS
<1>2. /\ idx \in 1 .. Len(txLbas) /\ Len(txLbas) \in Nat
      /\ hdr.live /\ hdr.lbas = txLbas /\ hdr.crc = txData
      /\ InJournal(Len(txLbas))
      /\ slots[Len(txLbas) + 1] = CmtSlot(hdr.seq, txData)
  BY DEF PhaseInv, TypeOK, MemType, TxType
<1>3. Valid
  BY <1>2 DEF Valid, InJournal, TypeOK, TxType
<1>4. Valid' /\ Payload' = Payload
  BY <1>1, <1>3 DEF Valid, Payload
<1>5. Payload = txData
  BY <1>2, <1>3, ValidPayload
<1>6. CASE home' = home
  BY <1>1, <1>3, <1>4, <1>6 DEF Recovered
<1>7. CASE home' = [home EXCEPT ![txLbas[idx]] = txData[idx]]
  <2>1. Apply(home', txLbas, txData) = Apply(home, txLbas, txData)
    <3>1. Apply([home EXCEPT ![txLbas[idx]] = txData[idx]], txLbas, txData)
            = Apply(home, txLbas, txData)
      <4>1. /\ home \in [Lba -> Val]
            /\ txLbas \in Seq(Lba) /\ txData \in Seq(Val)
            /\ Len(txLbas) = Len(txData) /\ Distinct(txLbas)
        BY DEF TypeOK, DiskType, TxType
      <4>2. idx \in 1 .. Len(txLbas)
        BY <1>2
      <4> QED BY <4>1, <4>2, ApplyAgain
    <3> QED BY <1>7, <3>1
  <2>2. Recovered' = Apply(home', txLbas, txData)
    BY <1>1, <1>2, <1>4, <1>5 DEF Recovered
  <2>3. Recovered = Apply(home, txLbas, txData)
    BY <1>2, <1>3, <1>5 DEF Recovered
  <2> QED BY <2>1, <2>2, <2>3
<1> QED BY <1>1, <1>6, <1>7

\* Retiring an entry that is home changes nothing.
LEMMA RetireKeepsPoint ==
  ASSUME TypeOK, PhaseInv, Retire
  PROVE  Recovered' = Recovered /\ Recovered = home
<1> PICK out \in Outcomes("retire") : Retire!(out)
  BY DEF Retire
<1>1. /\ hdr.live /\ hdr.lbas = txLbas /\ hdr.crc = txData
      /\ AtHome(Len(txLbas))
  BY DEF PhaseInv
<1>2. EntryHome(Len(hdr.lbas))
  BY <1>1 DEF EntryHome, AtHome
<1>3. Recovered = home
  BY <1>2, NothingOwed
<1>4. CASE hdr' = hdr
  BY <1>3, <1>4, RecoveredKept DEF disk
<1>5. CASE hdr' = NoHdr
  <2>1. ~Valid'
    BY <1>5 DEF Valid, NoHdr
  <2> QED BY <1>3, <2>1 DEF Recovered
<1> QED BY <1>3, <1>4, <1>5

\* So do the steps of a replay whose writes do not fail.
LEMMA ReplayKeepsPoint ==
  ASSUME "rhome" \notin FailAt, TypeOK, PhaseInv, ReplayHome \/ ReplayRetire
  PROVE  /\ Recovered' = Recovered
         /\ ReplayRetire => Recovered = home
<1>1. CASE ReplayHome
  <2> PICK out \in Outcomes("rhome") : ReplayHome!(out)
    BY <1>1 DEF ReplayHome
  <2>1. Valid /\ pc = "rhome"
    BY DEF PhaseInv
  <2>2. idx \in 1 .. Len(hdr.lbas)
    BY DEF PhaseInv, TypeOK, MemType, DiskType, Header
  <2>3. slots[idx] = PaySlot(hdr.crc[idx])
    BY <2>1, <2>2 DEF Valid
  <2>4. home' = [home EXCEPT ![hdr.lbas[idx]] = hdr.crc[idx]]
    BY <2>3 DEF Outcomes, PaySlot
  <2>5. Valid' /\ Payload' = Payload /\ Payload = hdr.crc
    BY <2>1, ValidPayload DEF Valid, Payload
  <2>6. Apply(home', hdr.lbas, hdr.crc) = Apply(home, hdr.lbas, hdr.crc)
    <3>1. Apply([home EXCEPT ![hdr.lbas[idx]] = hdr.crc[idx]],
                hdr.lbas, hdr.crc) = Apply(home, hdr.lbas, hdr.crc)
      BY <2>2, ApplyAgain DEF TypeOK, DiskType, Header
    <3> QED BY <2>4, <3>1
  <2>7. Recovered' = Apply(home', hdr.lbas, hdr.crc)
    BY <2>5 DEF Recovered
  <2>8. Recovered = Apply(home, hdr.lbas, hdr.crc)
    BY <2>1, <2>5 DEF Recovered
  <2>9. ~ReplayRetire
    BY <2>1 DEF ReplayRetire
  <2> QED BY <2>6, <2>7, <2>8, <2>9
<1>2. CASE ReplayRetire
  <2> PICK out \in Outcomes("rretire") : ReplayRetire!(out)
    BY <1>2 DEF ReplayRetire
  <2>1. Recovered = home
    BY NothingOwed DEF PhaseInv
  <2>2. CASE hdr' = hdr
    BY <2>1, <2>2, RecoveredKept DEF disk
  <2>3. CASE hdr' = NoHdr
    <3>1. ~Valid'
      BY <2>3 DEF Valid, NoHdr
    <3> QED BY <2>1, <3>1 DEF Recovered
  <2> QED BY <2>1, <2>2, <2>3
<1> QED BY <1>1, <1>2

\* Only the journal phase of a commit moves the point a crash recovers to.
THEOREM RecoveryPointStays ==
  ASSUME "rhome" \notin FailAt
  PROVE  Spec => RecoveryPointFixed
<1>1. TypeOK /\ PhaseInv /\ [Next]_vars
        => [Recovered' # Recovered => pc \in {"hdr", "pay", "cmt"}]_vars
  <2> SUFFICES ASSUME TypeOK, PhaseInv, Next, pc \notin {"hdr", "pay", "cmt"}
               PROVE  Recovered' = Recovered
    OBVIOUS
  <2>1. CASE UNCHANGED disk
    BY <2>1, RecoveredKept
  <2>2. CASE WriteHome
    BY <2>2, CheckpointKeepsPoint
  <2>3. CASE Retire
    BY <2>3, RetireKeepsPoint
  <2>4. CASE ReplayHome \/ ReplayRetire
    BY <2>4, ReplayKeepsPoint
  <2>5. CASE WriteHdr \/ WritePay \/ WriteCmt
    BY <2>5 DEF WriteHdr, WritePay, WriteCmt
  <2>6. CASE TxBegin \/ Abort \/ (\E l \in Lba, v \in Val : MetaWrite(l, v))
               \/ (\E l \in Lba : MetaRead(l) \/ Evict(l))
               \/ (\E v \in Val : TouchSb(v))
    BY <2>1, <2>6 DEF TxBegin, Abort, MetaWrite, MetaRead, Evict, TouchSb
  <2>7. CASE CommitFull \/ CommitEmpty \/ CommitStart
    BY <2>1, <2>7 DEF CommitFull, CommitEmpty, CommitStart
  <2>8. CASE Crash \/ Boot \/ Remount
    BY <2>1, <2>8 DEF Crash, Boot, Remount, Replay
  <2> QED BY <2>2, <2>3, <2>4, <2>5, <2>6, <2>7, <2>8
          DEF Next, CommitStep, MountStep
<1> QED BY <1>1, PhasesHold, PTL DEF Spec, RecoveryPointFixed

-----------------------------------------------------------------------------
(* The entry as the only copy, if no write but a retiring one fails.       *)

\* Between two commits, and up to the header of the next, all of the entry is home.
NothingPending == pc \in {"idle", "hdr"} => Recovered = home

LEMMA PendingStep ==
  ASSUME FailAt \subseteq {"retire", "rretire"}, TypeOK, PhaseInv, NothingPending, [Next]_vars
  PROVE  NothingPending'
<1> SUFFICES ASSUME pc' \in {"idle", "hdr"}
             PROVE  Recovered' = home'
  BY DEF NothingPending
<1>1. CASE pc \in {"idle", "hdr"} /\ UNCHANGED disk
  BY <1>1, RecoveredKept DEF NothingPending, disk
<1>2. CASE WriteHdr \/ WritePay \/ WriteCmt \/ WriteHome
  BY <1>2 DEF WriteHdr, WritePay, WriteCmt, WriteHome, Outcomes
<1>3. CASE Retire
  BY <1>3, RetireKeepsPoint DEF Retire
<1>4. CASE ReplayHome
  BY <1>4 DEF ReplayHome
<1>5. CASE ReplayRetire
  BY <1>5, ReplayKeepsPoint DEF ReplayRetire
<1>6. CASE Boot \/ Remount
  <2>1. ~Valid /\ UNCHANGED disk
    BY <1>6 DEF Boot, Remount, Replay, Valid
  <2> QED BY <2>1, RecoveredKept DEF disk, Recovered
<1>7. CASE Crash
  BY <1>7 DEF Crash
<1>8. CASE TxBegin \/ Abort \/ (\E l \in Lba, v \in Val : MetaWrite(l, v))
             \/ (\E l \in Lba : MetaRead(l) \/ Evict(l))
             \/ (\E v \in Val : TouchSb(v))
  BY <1>1, <1>8 DEF TxBegin, Abort, MetaWrite, MetaRead, Evict, TouchSb
<1>9. CASE CommitFull \/ CommitEmpty \/ CommitStart
  BY <1>1, <1>9 DEF CommitFull, CommitEmpty, CommitStart
<1>10. CASE UNCHANGED vars
  BY <1>1, <1>10 DEF vars, disk
<1> QED BY <1>2, <1>3, <1>4, <1>5, <1>6, <1>7, <1>8, <1>9, <1>10 DEF Next, CommitStep, MountStep

\* The journal entry that is the only copy of a commit is not overwritten.
THEOREM CommittedCopyStays ==
  ASSUME FailAt \subseteq {"retire", "rretire"}
  PROVE  Spec => KeepsCommittedCopy
<1>1. Init => NothingPending
  BY DEF Init, NoHdr, NothingPending, Recovered, Valid
<1>2. TypeOK /\ PhaseInv /\ NothingPending /\ [Next]_vars => NothingPending'
  BY PendingStep
<1>3. TypeOK /\ PhaseInv /\ NothingPending /\ [Next]_vars
        => [Valid /\ home # Recovered /\ hdr' # hdr => home' = Recovered]_vars
  <2> SUFFICES ASSUME TypeOK, PhaseInv, NothingPending, Next, hdr' # hdr
               PROVE  home = Recovered
    OBVIOUS
  <2>1. WriteHdr \/ Retire \/ ReplayRetire
    BY DEF Next, CommitStep, MountStep, TxBegin, Abort, MetaWrite, MetaRead, Evict, TouchSb, CommitFull,
           CommitEmpty, CommitStart, WritePay, WriteCmt, WriteHome, Boot, Remount, Replay, ReplayHome, Crash, disk
  <2>2. CASE WriteHdr
    BY <2>2 DEF WriteHdr, NothingPending
  <2>3. CASE Retire
    BY <2>3, RetireKeepsPoint
  <2>4. CASE ReplayRetire
    BY <2>4, ReplayKeepsPoint
  <2> QED BY <2>1, <2>2, <2>3, <2>4
<1> QED BY <1>1, <1>2, <1>3, PhasesHold, PTL DEF Spec, KeepsCommittedCopy

\* A mount that brings every sector home may retire the entry.
THEOREM ReplayIsComplete ==
  ASSUME "rhome" \notin FailAt
  PROVE  Spec => ReplayKeepsEntry
<1>1. TypeOK /\ PhaseInv => (pc = "rretire" /\ Valid => home = Recovered)
  BY NothingOwed DEF PhaseInv
<1>2. TypeOK /\ PhaseInv => [pc = "rretire" /\ Valid /\ home # Recovered => hdr' = hdr]_vars
  BY <1>1
<1> QED BY <1>2, PhasesHold, PTL DEF ReplayKeepsEntry

-----------------------------------------------------------------------------
(* The journal implements the atomic store, if no home write fails.        *)

\* With a coherent cache, readers see the disk.
LEMMA ServedHome ==
  ASSUME TypeOK, CacheCoherent
  PROVE  Served = home
BY DEF Served, CacheCoherent, TypeOK, MemType, DiskType

\* A pending sector is one of the buffer, with the buffer's contents.
LEMMA PendOf ==
  ASSUME TypeOK, txActive, pc \in {"idle", "hdr", "pay", "cmt"}
  PROVE  /\ \A i \in 1 .. Len(txLbas) : pend[txLbas[i]] = txData[i]
         /\ \A l \in Lba : (\A i \in 1 .. Len(txLbas) : txLbas[i] # l)
                              => pend[l] = None
<1>1. ASSUME NEW i \in 1 .. Len(txLbas)
      PROVE  pend[txLbas[i]] = txData[i]
  <2>1. txLbas[i] \in Lba
    BY DEF TypeOK, TxType
  <2>2. (CHOOSE k \in 1 .. Len(txLbas) : txLbas[k] = txLbas[i]) = i
    BY DEF Distinct, TypeOK, TxType
  <2> QED BY <2>1, <2>2 DEF pend
<1>2. ASSUME NEW l \in Lba, \A i \in 1 .. Len(txLbas) : txLbas[i] # l
      PROVE  pend[l] = None
  BY <1>2 DEF pend
<1> QED BY <1>1, <1>2

\* No open transaction, or one that is past its commit record: nothing pends.
LEMMA PendNone ==
  ASSUME ~txActive \/ txLbas = <<>> \/ pc \notin {"idle", "hdr", "pay", "cmt"}
  PROVE  pend = Atomic!NoWrite
BY DEF pend, Atomic!NoWrite

\* The whole of the pending writes is the buffer applied.
LEMMA PendWhole ==
  ASSUME TypeOK, txActive, pc \in {"idle", "hdr", "pay", "cmt"}
  PROVE  Atomic!Whole(home, pend) = Apply(home, txLbas, txData)
<1>1. ASSUME NEW l \in Lba
      PROVE  Atomic!Whole(home, pend)[l] = Apply(home, txLbas, txData)[l]
  <2>1. CASE \E i \in 1 .. Len(txLbas) : txLbas[i] = l
    <3> PICK i \in 1 .. Len(txLbas) : txLbas[i] = l
      BY <2>1
    <3>1. pend[l] = txData[i] /\ txData[i] \in Val
      BY PendOf DEF TypeOK, TxType
    <3>2. Apply(home, txLbas, txData)[l] = txData[i]
      <4>1. /\ home \in [Lba -> Val]
            /\ txLbas \in Seq(Lba) /\ txData \in Seq(Val)
            /\ Len(txLbas) = Len(txData) /\ Distinct(txLbas)
        BY DEF TypeOK, DiskType, TxType
      <4> QED BY <4>1, ApplyAt
    <3> QED BY <3>1, <3>2 DEF Atomic!Whole, JournalAssumption
  <2>2. CASE \A i \in 1 .. Len(txLbas) : txLbas[i] # l
    <3>1. pend[l] = None
      BY <2>2, PendOf
    <3>2. Apply(home, txLbas, txData)[l] = home[l]
      BY <2>2, ApplyAt DEF TypeOK, TxType
    <3> QED BY <3>1, <3>2 DEF Atomic!Whole
  <2> QED BY <2>1, <2>2
<1>2. Apply(home, txLbas, txData) \in [Lba -> Val]
  BY ApplyType DEF TypeOK, DiskType, TxType
<1> QED BY <1>1, <1>2 DEF Atomic!Whole

\* meta_write adds one pending write.
LEMMA BufferedPend ==
  ASSUME TypeOK, NEW l \in Lba, NEW v \in Val,
         \/ \E i \in 1 .. Len(txLbas) : txLbas[i] = l
         \/ Len(txLbas) < TxMax,
         Buffered(l, v), txActive, txActive',
         pc = "idle", pc' \in {"idle", "hdr"}, TypeOK'
  PROVE  pend' = [pend EXCEPT ![l] = v]
<1>0. pend \in [Lba -> Val \union {None}] /\ pend' = [m \in Lba |-> pend'[m]]
  <2>1. ASSUME NEW m \in Lba
        PROVE  pend[m] \in Val \union {None}
    <3>1. CASE \E i \in 1 .. Len(txLbas) : txLbas[i] = m
      BY <3>1, PendOf DEF TypeOK, TxType
    <3>2. CASE \A i \in 1 .. Len(txLbas) : txLbas[i] # m
      BY <3>2, PendOf
    <3> QED BY <3>1, <3>2
  <2> QED BY <2>1 DEF pend
<1>1. /\ \A i \in 1 .. Len(txLbas') : pend'[txLbas'[i]] = txData'[i]
      /\ \A m \in Lba : (\A i \in 1 .. Len(txLbas') : txLbas'[i] # m)
                           => pend'[m] = None
  <2>1. ASSUME NEW i \in 1 .. Len(txLbas')
        PROVE  pend'[txLbas'[i]] = txData'[i]
    <3>1. txLbas'[i] \in Lba
      BY DEF TypeOK, TxType
    <3>2. (CHOOSE k \in 1 .. Len(txLbas') : txLbas'[k] = txLbas'[i]) = i
      BY DEF Distinct, TypeOK, TxType
    <3> QED BY <3>1, <3>2 DEF pend
  <2>2. ASSUME NEW m \in Lba, \A i \in 1 .. Len(txLbas') : txLbas'[i] # m
        PROVE  pend'[m] = None
    BY <2>2 DEF pend
  <2> QED BY <2>1, <2>2
<1>2. ASSUME NEW m \in Lba
      PROVE  pend'[m] = IF m = l THEN v ELSE pend[m]
  <2>1. CASE \E i \in 1 .. Len(txLbas) : txLbas[i] = l
    <3>1. /\ txLbas' = txLbas
          /\ txData' = [i \in 1 .. Len(txLbas) |->
                          IF txLbas[i] = l THEN v ELSE txData[i]]
      BY <2>1 DEF Buffered
    <3>2. CASE \E i \in 1 .. Len(txLbas) : txLbas[i] = m
      <4> PICK i \in 1 .. Len(txLbas) : txLbas[i] = m
        BY <3>2
      <4>1. pend[m] = txData[i]
        BY PendOf
      <4>2. pend'[m] = txData'[i]
        BY <1>1, <3>1
      <4>3. txData'[i] = IF m = l THEN v ELSE txData[i]
        BY <3>1
      <4> QED BY <4>1, <4>2, <4>3
    <3>3. CASE \A i \in 1 .. Len(txLbas) : txLbas[i] # m
      BY <1>1, <2>1, <3>1, <3>3, PendOf DEF TypeOK, TxType
    <3> QED BY <3>2, <3>3
  <2>2. CASE \A i \in 1 .. Len(txLbas) : txLbas[i] # l
    <3>1. txLbas' = Append(txLbas, l) /\ txData' = Append(txData, v)
      BY <2>2 DEF Buffered
    <3>2. /\ Len(txLbas') = Len(txLbas) + 1
          /\ txLbas'[Len(txLbas) + 1] = l
          /\ txData'[Len(txLbas) + 1] = v
          /\ \A i \in 1 .. Len(txLbas) :
               txLbas'[i] = txLbas[i] /\ txData'[i] = txData[i]
      BY <3>1 DEF TypeOK, TxType
    <3>3. CASE m = l
      BY <1>1, <3>2, <3>3 DEF TypeOK, TxType
    <3>4. CASE m # l /\ \E i \in 1 .. Len(txLbas) : txLbas[i] = m
      <4> PICK i \in 1 .. Len(txLbas) : txLbas[i] = m
        BY <3>4
      <4>1. pend[m] = txData[i]
        BY PendOf
      <4>2. i \in 1 .. Len(txLbas')
        BY <3>2 DEF TypeOK, TxType
      <4>3. pend'[m] = txData'[i]
        BY <1>1, <3>2, <4>2
      <4> QED BY <3>2, <3>4, <4>1, <4>3
    <3>5. CASE m # l /\ \A i \in 1 .. Len(txLbas) : txLbas[i] # m
      <4>1. \A i \in 1 .. Len(txLbas') : txLbas'[i] # m
        BY <3>2, <3>5 DEF TypeOK, TxType
      <4> QED BY <1>1, <3>5, <4>1, PendOf
    <3> QED BY <3>3, <3>4, <3>5
  <2> QED BY <2>1, <2>2
<1> QED BY <1>0, <1>2

\* While the journal phase writes the entry of the open transaction, recovery
\* delivers either nothing of it or all of it.
LEMMA EntryInDoubt ==
  ASSUME TypeOK, TypeOK', hdr' = TxHdr, home' = home
  PROVE  Recovered' = home \/ Recovered' = Apply(home, txLbas, txData)
<1>1. hdr'.lbas = txLbas /\ hdr'.crc = txData
  BY DEF TxHdr
<1>2. CASE Valid'
  <2>1. Payload' = hdr'.crc
    <3>1. \A i \in 1 .. Len(hdr'.lbas) : slots'[i].val = hdr'.crc[i]
      BY <1>2, PaySlotVal DEF Valid
    <3> QED BY <3>1 DEF Payload, TypeOK, DiskType, Header
  <2>2. Recovered' = Apply(home', hdr'.lbas, hdr'.crc)
    BY <1>2, <2>1 DEF Recovered
  <2> QED BY <1>1, <2>2
<1>3. CASE ~Valid'
  BY <1>3 DEF Recovered
<1> QED BY <1>2, <1>3

\* A step of the journal phase that leaves the transaction alone leaves what
\* pends alone.
LEMMA PendKept ==
  ASSUME UNCHANGED tx, pc \in {"idle", "hdr", "pay", "cmt"},
         pc' \in {"idle", "hdr", "pay", "cmt"}
  PROVE  pend' = pend
BY DEF pend, tx

\* The operations between commits: a write, a drop, or nothing.
LEMMA ClientRefines ==
  ASSUME TypeOK, TypeOK', CacheCoherent, CacheCoherent',
         \/ TxBegin \/ Abort
         \/ \E l \in Lba, v \in Val : MetaWrite(l, v)
         \/ \E l \in Lba : MetaRead(l) \/ Evict(l)
         \/ \E v \in Val : TouchSb(v)
         \/ CommitFull \/ CommitEmpty \/ CommitStart
  PROVE  [Atomic!Next]_(Atomic!vars)
<1>1. UNCHANGED disk /\ pc = "idle" /\ pc' \in {"idle", "hdr"}
  BY DEF TxBegin, Abort, MetaWrite, MetaRead, Evict, TouchSb, CommitFull,
         CommitEmpty, CommitStart
<1>2. view' = view
  <2>1. view = home
    BY <1>1, ServedHome DEF view
  <2>2. Served' = home'
    BY DEF Served, CacheCoherent, TypeOK, MemType, DiskType
  <2>3. view' = home'
    BY <1>1, <2>2 DEF view
  <2> QED BY <1>1, <2>1, <2>3 DEF disk
<1>3. Recovered' = Recovered
  BY <1>1, RecoveredKept
<1>4. SUFFICES pend' = pend \/ Atomic!Write \/ pend' = Atomic!NoWrite
  BY <1>2, <1>3 DEF Atomic!Next, Atomic!vars, Atomic!Drop
<1>5. CASE TxBegin
  BY <1>5, PendNone DEF TxBegin, pend, Atomic!NoWrite
<1>6. CASE Abort \/ CommitFull
  BY <1>6 DEF Abort, CommitFull, TxAbort, pend, Atomic!NoWrite
<1>7. ASSUME NEW l \in Lba, NEW v \in Val, MetaWrite(l, v)
      PROVE  Atomic!Write
  <2>1. pend' = [pend EXCEPT ![l] = v]
    BY <1>1, <1>7, BufferedPend DEF MetaWrite
  <2> QED BY <1>2, <1>3, <2>1 DEF Atomic!Write
<1>8. CASE \E l \in Lba : MetaRead(l) \/ Evict(l)
  BY <1>1, <1>8, PendKept DEF MetaRead, Evict
<1>9. CASE \E v \in Val : TouchSb(v)
  BY <1>1, <1>9, PendKept DEF TouchSb
<1>10. CASE CommitEmpty
  BY <1>10 DEF CommitEmpty, pend, Atomic!NoWrite
<1>11. CASE CommitStart /\ sbDirty
  <2>1. /\ Buffered(Sb, sbMem) /\ txActive /\ txActive' = txActive
        /\ Len(txLbas) < TxMax
    BY <1>11 DEF CommitStart, FoldAborts, TypeOK, TxType
  <2>2. Sb \in Lba /\ sbMem \in Val
    BY DEF TypeOK, MemType
  <2>3. pend' = [pend EXCEPT ![Sb] = sbMem]
    BY <1>1, <2>1, <2>2, BufferedPend
  <2> QED BY <1>2, <1>3, <2>2, <2>3 DEF Atomic!Write
<1>12. CASE CommitStart /\ ~sbDirty
  BY <1>1, <1>12, PendKept DEF CommitStart, tx
<1> QED BY <1>5, <1>6, <1>7, <1>8, <1>9, <1>10, <1>11, <1>12

\* The journal phase: in doubt, until the commit record is down.
LEMMA JournalPhaseRefines ==
  ASSUME TypeOK, TypeOK', PhaseInv, PhaseInv', CacheCoherent, CacheCoherent',
         WriteHdr \/ WritePay \/ WriteCmt
  PROVE  [Atomic!Next]_(Atomic!vars)
<1>1. /\ pc \in {"hdr", "pay", "cmt"} /\ txActive /\ home' = home
  BY DEF WriteHdr, WritePay, WriteCmt, PhaseInv
<1>2. view = home
  BY <1>1, ServedHome DEF view
<1>3. Atomic!Whole(view, pend) = Apply(home, txLbas, txData)
  BY <1>1, <1>2, PendWhole
<1>4. pc' # "home" => view' = view
  <2>1. Served' = home'
    BY DEF Served, CacheCoherent, TypeOK, MemType, DiskType
  <2>2. pc' \in {"idle", "pay", "cmt", "home"}
    BY DEF WriteHdr, WritePay, WriteCmt
  <2> QED BY <1>1, <1>2, <2>1, <2>2 DEF view
<1>5. pc' # "home" => pend' \in {pend, Atomic!NoWrite}
  <2>1. TxAbort => pend' = Atomic!NoWrite
    BY DEF TxAbort, pend, Atomic!NoWrite
  <2>2. pc' # "home" => TxAbort \/ (UNCHANGED tx /\ pc' \in {"pay", "cmt"})
    BY DEF WriteHdr, WritePay, WriteCmt
  <2> QED BY <1>1, <2>1, <2>2, PendKept
<1>6. \/ Recovered' = Recovered /\ pend' = Atomic!NoWrite
      \/ Recovered' = home
      \/ Recovered' = Apply(home, txLbas, txData)
  <2>1. CASE UNCHANGED disk /\ TxAbort
    <3>1. pend' = Atomic!NoWrite
      BY <2>1 DEF TxAbort, pend, Atomic!NoWrite
    <3> QED BY <2>1, <3>1, RecoveredKept
  <2>2. CASE hdr' = TxHdr
    BY <1>1, <2>2, EntryInDoubt
  <2>3. (UNCHANGED disk /\ TxAbort) \/ hdr' = TxHdr
    BY DEF WriteHdr, WritePay, WriteCmt, PhaseInv, disk
  <2> QED BY <2>1, <2>2, <2>3
<1>7. CASE pc' # "home"
  <2>1. CASE Recovered' = Recovered /\ pend' = Atomic!NoWrite
    BY <1>4, <1>7, <2>1 DEF Atomic!Next, Atomic!Drop
  <2>2. CASE Recovered' = home
    BY <1>2, <1>4, <1>5, <1>7, <2>2 DEF Atomic!Next, Atomic!Settle
  <2>3. CASE Recovered' = Apply(home, txLbas, txData)
    BY <1>3, <1>4, <1>5, <1>7, <2>3 DEF Atomic!Next, Atomic!Doubt
  <2> QED BY <1>6, <2>1, <2>2, <2>3
<1>8. CASE pc' = "home"
  <2>1. WriteCmt
    BY <1>8 DEF WriteHdr, WritePay
  <2> PICK out \in Outcomes("cmt") : WriteCmt!(out)
    BY <2>1 DEF WriteCmt
  <2>2. out = "ok"
    BY <1>8
  <2>3. UNCHANGED <<txLbas, txData>>
    BY <2>2 DEF tx
  <2>4. /\ hdr'.live /\ hdr'.lbas = txLbas /\ hdr'.crc = txData
        /\ InJournal(Len(txLbas))'
        /\ slots'[Len(txLbas) + 1] = CmtSlot(hdr'.seq, txData)
        /\ Len(txLbas) >= 1
    BY <1>8, <2>3 DEF PhaseInv
  <2>5. Valid'
    BY <2>3, <2>4 DEF Valid, InJournal, TypeOK, TxType
  <2>6. Payload' = txData
    <3>1. \A i \in 1 .. Len(txLbas) : slots'[i].val = txData[i]
      BY <2>3, <2>4, PaySlotVal DEF InJournal
    <3> QED BY <2>4, <3>1 DEF Payload, TypeOK, TxType
  <2>7. Recovered' = Apply(home, txLbas, txData)
    BY <1>1, <2>4, <2>5, <2>6 DEF Recovered
  <2>8. view' = Recovered'
    BY <1>8 DEF view
  <2>9. pend' = Atomic!NoWrite
    BY <1>8 DEF pend, Atomic!NoWrite
  <2> QED BY <1>3, <2>7, <2>8, <2>9 DEF Atomic!Next, Atomic!Commit
<1> QED BY <1>7, <1>8

\* The checkpoint, the crash and the mount: nothing, or a recovery.
LEMMA RestRefines ==
  ASSUME "home" \notin FailAt, "rhome" \notin FailAt,
         TypeOK, TypeOK', PhaseInv, PhaseInv', CacheCoherent, CacheCoherent',
         WriteHome \/ Retire \/ Crash \/ MountStep
  PROVE  [Atomic!Next]_(Atomic!vars)
<1>1. Served' = home'
  BY DEF Served, CacheCoherent, TypeOK, MemType, DiskType
<1>2. CASE WriteHome
  <2>1. pc = "home" /\ pc' \in {"home", "retire"}
    BY <1>2 DEF WriteHome, Outcomes
  <2>2. view' = view /\ Recovered' = Recovered
    BY <1>2, <2>1, CheckpointKeepsPoint DEF view
  <2>3. pend' = pend
    BY <2>1 DEF pend
  <2> QED BY <2>2, <2>3 DEF Atomic!vars
<1>3. CASE Retire
  <2>1. Recovered' = Recovered /\ Recovered = home /\ home' = home
    BY <1>3, RetireKeepsPoint DEF Retire
  <2>2. view' = view
    BY <1>1, <1>3, <2>1 DEF Retire, view
  <2>3. pend' = pend
    BY <1>3 DEF Retire, TxAbort, pend
  <2> QED BY <2>1, <2>2, <2>3 DEF Atomic!vars
<1>4. CASE Crash
  <2>1. Recovered' = Recovered
    BY <1>4, RecoveredKept DEF Crash
  <2>2. view' = Recovered
    BY <1>4, <2>1 DEF Crash, view
  <2>3. pend' = Atomic!NoWrite
    BY <1>4 DEF Crash, pend, Atomic!NoWrite
  <2> QED BY <2>1, <2>2, <2>3 DEF Atomic!Next, Atomic!Recover
<1>5. CASE Boot \/ Remount
  <2>0. Replay /\ ~txActive
    BY <1>5 DEF Boot, Remount, PhaseInv
  <2>1. Recovered' = Recovered /\ home' = home
    BY <2>0, RecoveredKept DEF Replay, disk
  <2>2. view' = Recovered
    <3>1. CASE Valid \/ hdr.live
      BY <2>0, <2>1, <3>1 DEF Replay, view, Valid
    <3>2. CASE ~hdr.live
      <4>1. pc' = "idle" /\ ~Valid
        BY <2>0, <3>2 DEF Replay, Mounted, Valid
      <4> QED BY <1>1, <2>1, <4>1 DEF view, Recovered
    <3> QED BY <3>1, <3>2
  <2>3. pend' = Atomic!NoWrite
    BY <2>0 DEF Replay, tx, pend, Atomic!NoWrite
  <2> QED BY <2>1, <2>2, <2>3 DEF Atomic!Next, Atomic!Recover
<1>6. CASE ReplayHome
  <2>1. pc = "rhome" /\ pc' \in {"rhome", "rretire"}
    BY <1>6 DEF ReplayHome
  <2>2. view' = view /\ Recovered' = Recovered
    BY <1>6, <2>1, ReplayKeepsPoint DEF view
  <2>3. pend' = pend
    BY <2>1 DEF pend
  <2> QED BY <2>2, <2>3 DEF Atomic!vars
<1>7. CASE ReplayRetire
  <2>1. Recovered' = Recovered /\ Recovered = home /\ home' = home
    BY <1>7, ReplayKeepsPoint DEF ReplayRetire
  <2>2. pc = "rretire" /\ pc' = "idle" /\ UNCHANGED tx /\ ~txActive
    BY <1>7 DEF ReplayRetire, Mounted, PhaseInv
  <2>3. view' = view
    BY <1>1, <2>1, <2>2 DEF view
  <2>4. pend' = pend
    BY <2>2 DEF pend, tx
  <2> QED BY <2>1, <2>3, <2>4 DEF Atomic!vars
<1> QED BY <1>2, <1>3, <1>4, <1>5, <1>6, <1>7 DEF MountStep

\* Metadata updates are all-or-nothing, for readers and across any crash,
\* whatever other writes fail, as long as no home write does.
THEOREM JournalIsAtomic ==
  ASSUME "home" \notin FailAt, "rhome" \notin FailAt
  PROVE  Spec => StoreSpec
<1>1. Init => Atomic!Init
  <2> SUFFICES ASSUME Init PROVE Atomic!Init
    OBVIOUS
  <2>1. Served = home
    BY DEF Init, Served, EmptyCache
  <2>2. Recovered = home
    BY DEF Init, Recovered, Valid, NoHdr
  <2>3. pend = Atomic!NoWrite
    BY PendNone DEF Init
  <2> QED BY <2>1, <2>2, <2>3 DEF Init, view, Atomic!Init, Atomic!Store
<1>2. (TypeOK /\ PhaseInv /\ CacheCoherent) /\ [Next]_vars
        /\ (TypeOK' /\ PhaseInv' /\ CacheCoherent')
        => [Atomic!Next]_(Atomic!vars)
  <2> SUFFICES ASSUME TypeOK, PhaseInv, CacheCoherent,
                      TypeOK', PhaseInv', CacheCoherent', [Next]_vars
               PROVE  [Atomic!Next]_(Atomic!vars)
    OBVIOUS
  <2>1. CASE UNCHANGED vars
    <3>1. UNCHANGED disk
      BY <2>1 DEF vars, disk
    <3>2. Recovered' = Recovered
      BY <3>1, RecoveredKept
    <3>3. view' = view
      BY <2>1, <3>2 DEF vars, view, Served
    <3>4. pend' = pend
      BY <2>1 DEF vars, pend
    <3> QED BY <3>2, <3>3, <3>4 DEF Atomic!vars
  <2>2. CASE Next
    BY <2>2, ClientRefines, JournalPhaseRefines, RestRefines
       DEF Next, CommitStep
  <2> QED BY <2>1, <2>2
<1>3. Spec => [](TypeOK /\ PhaseInv) /\ []CacheCoherent
  BY PhasesHold, CacheStaysCoherent
<1> QED BY <1>1, <1>2, <1>3, PTL DEF Spec, StoreSpec, Atomic!Spec
=============================================================================
