\* Creates, deletes, renames and writes; writes can fail, and the power, between
\* any two commits.
SPECIFICATION Spec
CONSTANTS
  r0 = r0
  i1 = i1
  i2 = i2
  i3 = i3
  i4 = i4
  b1 = b1
  b2 = b2
  b3 = b3
  na = na
  nb = nb
  Nil = Nil
  Root = r0
  Ino = {r0, i1, i2}
  Blk = {b1, b2, b3}
  Name = {na, nb}
  Direct = 1
  Fan = 1
  MaxKids = 2
  WalkMax = 2
  IoFails = TRUE
  Crashes = TRUE
  Checks = FALSE
  Ticks = FALSE
  Streams = TRUE
  Ctr = 1
  Dots <- NoDots
SYMMETRY Alike
INVARIANTS
  TypeOK
  TreeSound
  UsedIsMarked
  NoSharing
  OrderedData
  StreamWritesAside
  StreamOwnsFile
PROPERTIES
  FilesGrowOrEmpty
