\* The timer may strike between any two assignments of sched_yield.
SPECIFICATION SchedSpec
CONSTANTS
  Slots = 3
  Quantum = 2
  Nap = 1
  Wrap = 4
  Torn = TRUE
PROPERTY ResumedAsItself
