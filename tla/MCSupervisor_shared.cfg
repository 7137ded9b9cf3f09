\* Two threads of one API server drive one run through its one supervisor.
SPECIFICATION Spec
CONSTANTS
  t1 = t1  t2 = t2  w1 = w1  w2 = w2  r1 = r1  r2 = r2  ch = ch  None = None
  Run = {r1}
  Channel = {ch}
  ChannelOf <- OneChannel
  Version = {1, 2}
  Step = {1, 2, 3, 4}
  Thread = {t1, t2}
  Worker = {w1}
  WorkerOf <- SharedWorker
  RequireApproval <- NoApproval
  MaxIterations <- TwoIterations
  Faults = {}
  Commands = {}
  AnyTarget = FALSE
  IterationCap = 1
  MaxHistory = 0
INVARIANTS
  VerdictOnExaminedArtifact
