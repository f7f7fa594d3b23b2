\* Every write outside the checkpoint and the replay may fail, over the journal
\* of an earlier life of the disk.
SPECIFICATION Spec
CONSTANTS
  a = a
  b = b
  v0 = v0
  v1 = v1
  None = None
  Sb = a
  Lba = {a, b}
  Val = {v0, v1}
  TxMax = 2
  MaxSeq = 1
  FailAt <- JournalFails
  Stale <- MCStale
SYMMETRY ContentSymmetry
INVARIANTS
  TypeOK
  CacheCoherent
  CheckpointCovered
PROPERTIES
  RecoveryPointFixed
  StoreSpec
