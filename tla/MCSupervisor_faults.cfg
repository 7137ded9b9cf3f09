\* One run, two workers, every fault: leases lapse under live drivers, drivers
\* are interrupted anywhere, a worker crashes.
SPECIFICATION Spec
CONSTANTS
  t1 = t1  t2 = t2  w1 = w1  w2 = w2  r1 = r1  r2 = r2  ch = ch  None = None
  Run = {r1}
  Channel = {ch}
  ChannelOf <- OneChannel
  Version = {1, 2}
  Step = {1, 2, 3, 4}
  Thread = {t1, t2}
  Worker = {w1, w2}
  WorkerOf <- OwnWorkers
  RequireApproval <- Approval
  MaxIterations <- OneIteration
  Faults = {"crash", "abort", "lapse"}
  Commands = {"pause", "decide", "rollback", "cancel"}
  AnyTarget = TRUE
  IterationCap = 2
  MaxHistory = 2
SYMMETRY Processes
INVARIANTS
  TypeOK OpenCallIsPending ReleaseGate PausedAtBoundary Inductive
PROPERTIES
  OutcomesAreFinal VerdictsAreFinal
