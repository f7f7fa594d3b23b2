\* The scheduler without the timer striking inside sched_yield, the frames of the
\* browser, a TCP connection and the task timers.
SPECIFICATION TasksSpec
CONSTANTS
  Slots = 3
  Quantum = 2
  Nap = 1
  Wrap = 4
  Torn = FALSE
  PeerLen = 4
  PeerSeg = 3
  RingBytes = 3
  Sends = 2
  Tries = 1
  Timers = 2
  Day = 3
  Horizon = 5
INVARIANTS
  TasksTypeOK
  NoTaskLost
  BlitsWhole
  PayloadIntact
  AckedIsKept
PROPERTIES
  ResumedAsItself
  ReadyRuns
  PictureShown
  StreamMoves
  ByteStreamSpec
  StreamArrives
  QuietSenderSettles
  FiresOnlyOlder
  ArmedForTheHour
  DueFires
\* The horizon of the timers ends their behaviours.
CHECK_DEADLOCK FALSE
