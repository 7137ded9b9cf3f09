\* One run, two workers of which one may crash at any point, fair drivers.
SPECIFICATION FairSpec
CONSTANTS
  t1 = t1  t2 = t2  w1 = w1  w2 = w2  r1 = r1  r2 = r2  ch = ch  None = None
  Run = {r1}
  Channel = {ch}
  ChannelOf <- OneChannel
  Version = {1, 2}
  Step = {1, 2, 3, 4, 5}
  Thread = {t1, t2}
  Worker = {w1, w2}
  WorkerOf <- OwnWorkers
  RequireApproval <- NoApproval
  MaxIterations <- OneIteration
  Faults = {"crash"}
  Commands = {"pause", "decide", "rollback", "cancel"}
  AnyTarget = TRUE
  IterationCap = 2
  MaxHistory = 2
PROPERTIES
  RunsComeToRest StrandedCallsSurface RegistrySpec
