\* The recycle bin with restarts between calls and nothing else going wrong.
SPECIFICATION TrashSpec
CONSTANTS
  f1 = f1
  c1 = c1
  c2 = c2
  BinSize = 2
  FileName = {f1}
  Content = {c1, c2}
  Fails = FALSE
  Cuts = FALSE
PROPERTY DeletedLandsInBin
