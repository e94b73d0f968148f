\* Equal priorities that any process may change, under fairness.
CONSTANTS
  m = m
  a = a
  b = b
  Procs <- MCProcs
  Main = m
  NoProc = NoProc
  NoSem = NoSem
  Prios = {0, 1}
  Quantum = 1
  Preempt = TRUE
  Calls = {"setpri"}
  Retarget <- OneRetarget
  MaxNest = 1
  Sems = {1}
  InitReady <- ReadyBA
  InitPri <- Equal
  MaxHold = 1
  InOrder = TRUE
  WindowIrq = FALSE
SPECIFICATION SemFairSpec
INVARIANTS
  OnePlaceSem
PROPERTIES
  WaiterServed
