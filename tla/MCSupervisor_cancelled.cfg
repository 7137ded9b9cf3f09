\* One run and one driver without any fault: a promotion that was dispatched
\* before the run is cancelled.
SPECIFICATION Spec
CONSTANTS
  t1 = t1  t2 = t2  w1 = w1  w2 = w2  r1 = r1  r2 = r2  ch = ch  None = None
  Run = {r1}
  Channel = {ch}
  ChannelOf <- OneChannel
  Version = {1}
  Step = {1, 2}
  Thread = {t1}
  Worker = {w1}
  WorkerOf <- OneThread
  RequireApproval <- NoApproval
  MaxIterations <- OneIteration
  Faults = {}
  Commands = {"decide", "cancel"}
  AnyTarget = FALSE
  IterationCap = 1
  MaxHistory = 0
PROPERTIES
  CancelledIsNotReleased
