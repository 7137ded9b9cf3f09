\* Two runs that release on one channel from one base: the one that comes
\* second meets a conflict, is revised on the new base, and tries again.
SPECIFICATION Spec
CONSTANTS
  t1 = t1  t2 = t2  w1 = w1  w2 = w2  r1 = r1  r2 = r2  ch = ch  None = None
  Run = {r1, r2}
  Channel = {ch}
  ChannelOf <- OneChannel
  Version = {1, 2, 3}
  Step = {1, 2, 3, 4, 5, 6}
  Thread = {t1, t2}
  Worker = {w1, w2}
  WorkerOf <- OwnWorkers
  RequireApproval <- NoApproval
  MaxIterations <- OneIteration
  Faults = {}
  Commands = {"decide"}
  AnyTarget = FALSE
  IterationCap = 2
  MaxHistory = 0
SYMMETRY ProcessesAndRuns
INVARIANTS
  UnapprovedReleasesAreFresh
PROPERTIES
  RegistrySpec
