\* Commits and replays that have begun come to their end, over the journal of an
\* earlier life of the disk.
SPECIFICATION FairSpec
CONSTANTS
  a = a
  b = b
  v0 = v0
  v1 = v1
  None = None
  Sb = a
  Lba = {a, b}
  Val = {v0, v1}
  TxMax = 2
  MaxSeq = 1
  FailAt <- RetireFails
  Stale <- MCStale
PROPERTIES
  KeepsCommittedCopy
  CheckpointFinishes
