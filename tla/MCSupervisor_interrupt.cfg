\* One driver, interrupted inside a call or before its result is committed,
\* whose supervisor lives on.
SPECIFICATION FairSpec
CONSTANTS
  t1 = t1  t2 = t2  w1 = w1  w2 = w2  r1 = r1  r2 = r2  ch = ch  None = None
  Run = {r1}
  Channel = {ch}
  ChannelOf <- OneChannel
  Version = {1}
  Step = {1, 2}
  Thread = {t1}
  Worker = {w1}
  WorkerOf <- OneThread
  RequireApproval <- NoApproval
  MaxIterations <- OneIteration
  Faults = {"interrupt"}
  Commands = {"decide"}
  AnyTarget = FALSE
  IterationCap = 1
  MaxHistory = 0
PROPERTIES
  StrandedCallsSurface
