\* Threads and futexes, socket pairs and forks, and the recycle bin with restarts.
SPECIFICATION CallsSpec
CONSTANTS
  LinSlots = 3
  Compat = TRUE
  Links = 4
  Fds = 2
  Procs = 2
  Queue = 1
  RefMax = 2
  f1 = f1
  f2 = f2
  c1 = c1
  c2 = c2
  BinSize = 2
  FileName = {f1, f2}
  Content = {c1, c2}
  Fails = TRUE
  Cuts = TRUE
INVARIANTS
  CallsTypeOK
  NoLostWake
  PeersMutual
  OpenLinksLive
  NothingLost
  
\* A program that waits for ever, or whose last link has leaked, stops.
CHECK_DEADLOCK FALSE
