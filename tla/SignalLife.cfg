\* Two signals and a timeout; processes come and go.
CONSTANTS
  m = m
  a = a
  b = b
  Procs <- MCPair
  Main = m
  NoProc = NoProc
  Prios = {0}
  Quantum = 1
  Preempt = TRUE
  Calls = {"yield", "exit", "new"}
  Retarget <- NoRetarget
  MaxNest = 1
  Sigs = {s1, s2, T}
  SigTimeout = T
  Delays = {1}
  InitReady <- ReadyA
  InitPri <- PairPri
SPECIFICATION SigSpec
PROPERTIES
  StartsUnsignalled
  ImplementsBox
