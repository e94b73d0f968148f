\* Every service; any process may change any priority.
CONSTANTS
  m = m
  a = a
  b = b
  Procs <- MCProcs
  Main = m
  NoProc = NoProc
  Prios = {0, 1}
  Quantum = 1
  Preempt = TRUE
  Calls = {"yield", "forbid", "setpri", "new", "exit"}
  Retarget <- AnyRetarget
  MaxNest = 2
SPECIFICATION Spec
SYMMETRY Symmetry
INVARIANTS
  TypeOK
  PreemptCountExact
  OnePlace
  StackInUse
  BlocksDistinct
PROPERTIES
  SectionNotPreempted
