\* Distinct priorities, a signal and timeouts, fairness.
CONSTANTS
  m = m
  a = a
  b = b
  Procs <- MCProcs
  Main = m
  NoProc = NoProc
  Prios = {0}
  Quantum = 1
  Preempt = TRUE
  Calls = {"yield", "forbid"}
  Retarget <- NoRetarget
  MaxNest = 1
  Sigs = {s1, T}
  SigTimeout = T
  Delays = {1, 2}
  InitReady <- ReadyBA
  InitPri <- Stairs
SPECIFICATION SigFairSpec
INVARIANTS
  SigTypeOK
  NoLostWakeup
  OnePlaceSig
  TimersArmed
PROPERTIES
  ImplementsBox
  TopIsServed
