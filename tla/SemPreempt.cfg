\* The preemptive kernel but for the window of sem_obtain().
CONSTANTS
  m = m
  a = a
  b = b
  Procs <- MCProcs
  Main = m
  NoProc = NoProc
  NoSem = NoSem
  Prios = {0}
  Quantum = 1
  Preempt = TRUE
  Calls = {"yield"}
  Retarget <- NoRetarget
  MaxNest = 1
  Sems = {1, 2}
  InitReady <- ReadyBA
  InitPri <- Stairs
  MaxHold = 2
  InOrder = FALSE
  WindowIrq = FALSE
SPECIFICATION SemSpec
INVARIANTS
  SemTypeOK
  MutualExclusion
  NoOrphanQueue
  OnePlaceSem
  InheritanceExact
