\* Every service; a process changes only its own priority; fairness.
CONSTANTS
  m = m
  a = a
  b = b
  Procs <- MCProcs
  Main = m
  NoProc = NoProc
  Prios = {0, 1}
  Quantum = 2
  Preempt = TRUE
  Calls = {"yield", "forbid", "setpri", "new", "exit"}
  Retarget <- SelfRetarget
  MaxNest = 1
SPECIFICATION FairSpec
INVARIANTS
  ReadySorted
PROPERTIES
  HighestRuns
  RoundRobin
