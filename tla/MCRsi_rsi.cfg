\* Two processes start, drive with automatic approval, roll back and export;
\* the API drives and rolls back the same runs, and an operator decides.
SPECIFICATION RsiSpec
CONSTANTS
  t1 = t1  t2 = t2  w1 = w1  w2 = w2  s1 = s1  s2 = s2  e1 = e1  e2 = e2
  ch = ch  None = None
  Run = {s1, s2, e1, e2}
  Channel = {ch}
  ChannelOf <- OneChannel
  Version = {1, 2, 3}
  Step = {1, 2, 3, 4, 5, 6, 7, 8}
  Thread = {t1, t2}
  Worker = {w1, w2}
  WorkerOf <- OwnWorkers
  RequireApproval <- ApprovalForEvolvers
  MaxIterations <- OneIteration
  Faults = {"crash", "unserved"}
  Commands = {"decide", "rollback"}
  AnyTarget = FALSE
  IterationCap = 2
  MaxHistory = 3
  SeedOf <- Seeds
  EvolverOf <- Evolvers
  Score <- Scorecards
  SeedScore <- Seed
  MinHoldout = 2
  Calls = {"start", "drive", "run", "step", "approve", "rollback", "export",
           "apiDrive", "apiRollback"}
  MaxCalls = 3
  MaxCommands = 1
CHECK_DEADLOCK FALSE
SYMMETRY Processes
INVARIANTS
  RsiTypeOK SkillWasReleased AutoApprovalFacesTheGate ReleasesBeatTheirBaseline
  SkillShowsActive HistoryChain ActiveIsMarked
