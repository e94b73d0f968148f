\* An interrupt between proc_permit() and proc_switch() in sem_obtain().
CONSTANTS
  m = m
  a = a
  b = b
  Procs <- MCProcs
  Main = m
  NoProc = NoProc
  NoSem = NoSem
  Prios = {0}
  Quantum = 1
  Preempt = TRUE
  Calls = {"yield"}
  Retarget <- NoRetarget
  MaxNest = 1
  Sems = {1}
  InitReady <- ReadyBA
  InitPri <- Stairs
  MaxHold = 1
  InOrder = TRUE
  WindowIrq = TRUE
SPECIFICATION SemSpec
INVARIANTS
  QueuesValid
