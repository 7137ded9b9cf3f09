\* One run, two workers, leases that lapse only when nobody drives: crashes,
\* interrupted drivers and every command.
SPECIFICATION Spec
CONSTANTS
  t1 = t1  t2 = t2  w1 = w1  w2 = w2  r1 = r1  r2 = r2  ch = ch  None = None
  Run = {r1}
  Channel = {ch}
  ChannelOf <- OneChannel
  Version = {1, 2, 3}
  Step = {1, 2, 3, 4, 5, 6}
  Thread = {t1, t2}
  Worker = {w1, w2}
  WorkerOf <- OwnWorkers
  RequireApproval <- NoApproval
  MaxIterations <- TwoIterations
  Faults = {"crash", "abort"}
  Commands = {"pause", "decide", "rollback", "cancel"}
  AnyTarget = TRUE
  IterationCap = 3
  MaxHistory = 2
SYMMETRY Processes
INVARIANTS
  OneDriver StatusMatchesStep VerdictOnExaminedArtifact AnswersAreTaken RaisesHaveCauses
PROPERTIES
  RecoveryNeedsDecision PauseBeforeNextCall EndedRunsStayOrRollBack LifecycleSpec
