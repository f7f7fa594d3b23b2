\* A checkpoint write may fail.
SPECIFICATION FairSpec
CONSTANTS
  a = a
  b = b
  v0 = v0
  v1 = v1
  None = None
  Sb = a
  Lba = {a, b}
  Val = {v0, v1}
  TxMax = 2
  MaxSeq = 2
  FailAt <- HomeFails
  Stale <- Blank
PROPERTIES
  KeepsCommittedCopy
