--------------------------- MODULE ExperimentProofs ---------------------------
(***************************************************************************)
(* What an experiment promises its users, and where the promise ends:      *)
(* SKILL.md shows the active version when all calls are over, but for      *)
(* three causes, and nothing is approved automatically that is not better  *)
(* than the version its run started from, as long as the run stays at the  *)
(* iteration drive() returned.                                             *)
(***************************************************************************)
EXTENDS RsiProofs, LeaseProofs

(* A call that drives has a driver, at its run; a drive that raised is on  *)
(* its way out.                                                            *)
CallsDrive ==
  \A t \in Thread :
    /\ InCall(t, "driving") => ~At(t, "idle") /\ thr[t].run = Driven(t)
    /\ call[t].raised => InCall(t, "driving") /\ At(t, "release")

(* What a call's step does to the other calls, and to its own.             *)
LEMMA CallGoes ==
  ASSUME CallsOK, CallsDrive, NEW t \in Thread, CallStep(t)
  PROVE  /\ \A u \in Thread \ {t} : call'[u] = call[u]
         /\ ~BeginDrive(t) /\ ~DriveStep(t) /\ ~DriveRaises(t) =>
              call'[t].pc # "driving" /\ ~call'[t].raised
<1>0. call \in [Thread -> CallRecord] /\ call[t] \in CallRecord
  BY DEF CallsOK
<1>1. ASSUME CallEnds(t)
      PROVE  call'[t].pc # "driving" /\ ~call'[t].raised
             /\ \A u \in Thread \ {t} : call'[u] = call[u]
  BY <1>0, <1>1 DEF CallEnds, NoCall
<1>2. ASSUME NEW pc \in CallPc \ {"driving"}, CallGoto(t, pc), ~InCall(t, "driving")
      PROVE  call'[t].pc # "driving" /\ ~call'[t].raised
             /\ \A u \in Thread \ {t} : call'[u] = call[u]
  BY <1>0, <1>2 DEF CallGoto, CallRecord, CallsDrive
<1>3. CASE ReadChannel(t) \/ Decide(t) \/ ReadActive(t)
  BY <1>0, <1>3 DEF ReadChannel, Decide, ReadActive, CallRecord, CallsDrive, InCall
<1>4. CASE CreateSeed(t) \/ Ask(t) \/ (Request(t) /\ ~CallEnds(t))
  BY <1>2, <1>4 DEF CreateSeed, Ask, Request, InCall, CallPc
<1>5. CASE LeaseUnavailable(t) \/ DecideRefused(t) \/ AskRefused(t) \/ CreateEvolver(t)
           \/ MaterializeRaises(t) \/ (Request(t) /\ CallEnds(t))
  BY <1>1, <1>5 DEF LeaseUnavailable, DecideRefused, AskRefused, CreateEvolver, MaterializeRaises
<1>6. CASE ReplaceSkill(t)
  <2>1. ~call[t].raised
    BY <1>6 DEF CallsDrive, ReplaceSkill, InCall
  <2>2. CASE call[t].op = "start"
    BY <1>0, <1>6, <2>1, <2>2 DEF ReplaceSkill, CallRecord
  <2>3. CASE call[t].op # "start"
    BY <1>0, <1>6, <2>1, <2>3 DEF ReplaceSkill, NoCall
  <2> QED BY <2>2, <2>3
<1>7. CASE DriveReturns(t)
  <2>1. CASE call' = [call EXCEPT ![t] = NoCall]
    BY <1>0, <2>1 DEF NoCall
  <2>2. CASE call' = [call EXCEPT ![t] = AfterDrive(t)] /\ ~call[t].raised
    <3>1. call'[t] = AfterDrive(t) /\ \A u \in Thread \ {t} : call'[u] = call[u]
      BY <1>0, <2>2
    <3>2. AfterDrive(t).pc \in {"read", "decide", "idle"} /\ AfterDrive(t).raised = FALSE
      BY <1>0, <2>2 DEF AfterDrive, NoCall, CallRecord
    <3> QED BY <3>1, <3>2
  <2> QED BY <1>0, <1>7, <2>1, <2>2 DEF DriveReturns
<1>8. CASE BeginDrive(t) \/ DriveStep(t) \/ DriveRaises(t)
  BY <1>0, <1>8 DEF BeginDrive, DriveStep, DriveRaises, CallGoto
<1> QED BY <1>3, <1>4, <1>5, <1>6, <1>7, <1>8 DEF CallStep

(* What it is to the supervisor.                                           *)
LEMMA CallDrives ==
  ASSUME NEW t \in Thread, DriveStep(t) \/ DriveRaises(t) \/ DriveReturns(t)
  PROVE  InCall(t, "driving") /\ (Drive(t) \/ Abort(t))
<1>1. CASE DriveStep(t)
  <2>1. CASE VerifierReturns(t)
    <3> DEFINE passed == IF thr[t].run \in Evolver
                         THEN Eligible(thr[t].held, baseline[thr[t].run]) ELSE TRUE
    <3>1. passed \in BOOLEAN
      BY DEF Eligible
    <3>2. CompleteVerify(t, passed)
      BY <2>1 DEF VerifierReturns
    <3> HIDE DEF passed
    <3> QED BY <1>1, <3>1, <3>2 DEF DriveStep, Drive
  <2> QED BY <1>1, <2>1 DEF DriveStep, AdapterReturns, Drive
<1>2. CASE DriveRaises(t) \/ DriveReturns(t)
  BY <1>2 DEF DriveRaises, DriveReturns, Drive
<1> QED BY <1>1, <1>2

(* A drive that goes on or raises has not come to the end.                 *)
LEMMA DrivingOn ==
  ASSUME NEW t \in Thread, DriveStep(t) \/ DriveRaises(t)
  PROVE  ~At(t, "release")
BY DEF DriveStep, DriveRaises, AdapterReturns, VerifierReturns, CompleteExecute, CompleteVerify,
   Restore, MarkRecoveryRequired, Dispatch, PauseAtBoundary, BeginExternalStep, FailExternalStep,
   RequestHuman, PromoteCandidate, PromotionConflict, RecordConflict, ReadRollbackTarget,
   ReadRollbackFrom, CommitRollback, Raise, Refused, Abort, ExternalNode, At

(* A drive touches no other driver.                                        *)
LEMMA DrivesOne ==
  ASSUME TypeOK, TypeOK', NEW t \in Thread, DriveStep(t) \/ DriveRaises(t) \/ DriveReturns(t)
  PROVE  \A u \in Thread \ {t} : thr'[u] = thr[u]
<1>1. CASE Release(t)
  BY <1>1 DEF Release, TypeOK
<1>2. CASE ~Release(t)
  BY <1>2, CallDrives, DrivingKeepsRun DEF KeepsRun
<1> QED BY <1>1, <1>2

(* The other steps of a call touch none, and no operator does.             *)
LEMMA CallsRest ==
  ASSUME NEW t \in Thread, CallStep(t),
         ~(BeginDrive(t) \/ DriveStep(t) \/ DriveRaises(t) \/ DriveReturns(t))
  PROVE  UNCHANGED <<registry, thr>>
BY DEF CallStep, ReadChannel, CreateSeed, CreateEvolver, CreateRun, LeaseUnavailable, Decide,
   Approve, DecideRefused, Ask, AskRollback, AskRefused, Request, RequestRollback, ReadActive,
   MaterializeRaises, ReplaceSkill, vars

LEMMA OperatorsRest ==
  ASSUME NEW r \in Run, OperateDirectly(r)
  PROVE  UNCHANGED <<registry, thr, call, baseline, score, file>>
BY DEF OperateDirectly, Steer, Pause, Resume, Approve, Revise, Reject, ResolveRecovery,
   DecideRollback, Cancel

LEMMA DrivesKept ==
  ASSUME SupervisorAssumption, TypeOK, TypeOK', CallsOK, CallsDrive, [RsiNext]_rsiVars
  PROVE  CallsDrive'
<1>0. /\ thr \in [Thread -> Driver] /\ \A t \in Thread : thr[t] \in Driver
      /\ call \in [Thread -> CallRecord] /\ \A t \in Thread : call[t] \in CallRecord
  BY DEF TypeOK, CallsOK
<1>1. ASSUME \A t \in Thread : \/ /\ thr'[t] = thr[t]
                                  /\ call'[t] = call[t]
                               \/ call'[t].pc # "driving" /\ ~call'[t].raised
                               \/ /\ ~At(t, "idle")' /\ thr'[t].run = Driven(t)'
                                  /\ call'[t].raised => InCall(t, "driving")' /\ At(t, "release")'
      PROVE  CallsDrive'
  BY <1>0, <1>1 DEF CallsDrive, InCall, At, Driven
<1>2. ASSUME NEW t \in Thread, BeginDrive(t) PROVE CallsDrive'
  <2>1. /\ thr'[t].pc = "restore" /\ thr'[t].run = Driven(t)
        /\ \A u \in Thread \ {t} : thr'[u] = thr[u]
    BY <1>0, <1>2 DEF BeginDrive, Acquire, Idle
  <2>2. /\ call'[t].pc = "driving" /\ ~call'[t].raised /\ call'[t].run = call[t].run
        /\ call'[t].op = call[t].op
        /\ \A u \in Thread \ {t} : call'[u] = call[u]
    BY <1>0, <1>2 DEF BeginDrive, CallGoto, CallsDrive, InCall, CallRecord
  <2> QED BY <1>1, <2>1, <2>2 DEF At, InCall, Driven
<1>3. ASSUME NEW t \in Thread, DriveStep(t) \/ DriveRaises(t) \/ DriveReturns(t) PROVE CallsDrive'
  <2>1. InCall(t, "driving") /\ (Drive(t) \/ Abort(t)) /\ CallStep(t)
    BY <1>3, CallDrives DEF CallStep
  <2>2. ~At(t, "idle") /\ thr[t].run = Driven(t)
    BY <2>1 DEF CallsDrive
  <2>3. \A u \in Thread \ {t} : thr'[u] = thr[u] /\ call'[u] = call[u]
    BY <1>3, <2>1, CallGoes, DrivesOne
  <2>4. CASE DriveReturns(t)
    <3>1. At(t, "release") /\ ~DriveStep(t) /\ ~DriveRaises(t) /\ ~BeginDrive(t)
      BY <2>4, DrivingOn DEF DriveReturns, Release, BeginDrive, InCall
    <3>2. call'[t].pc # "driving" /\ ~call'[t].raised
      BY <2>1, <3>1, CallGoes
    <3> QED BY <1>1, <2>3, <3>2
  <2>5. CASE DriveStep(t) \/ DriveRaises(t)
    <3>1. ~Release(t) /\ ~At(t, "release")
      BY <2>5, DrivingOn DEF Release
    <3>2. KeepsRun(t)
      BY <2>1, <3>1, DrivingKeepsRun
    <3>3. ~call[t].raised
      BY <3>1 DEF CallsDrive
    <3>4. /\ call'[t].pc = "driving" /\ call'[t].op = call[t].op /\ call'[t].run = call[t].run
          /\ call'[t].raised => At(t, "release")'
      <4>1. CASE DriveStep(t)
        BY <1>0, <2>1, <3>3, <4>1 DEF DriveStep, CallRecord, InCall
      <4>2. CASE DriveRaises(t)
        <5>1. thr'[t].pc = "release"
          BY <1>0, <4>2 DEF DriveRaises, Raise, Abort, Leave, Idle
        <5> QED BY <1>0, <2>1, <4>2, <5>1 DEF DriveRaises, CallRecord, InCall, At
      <4> QED BY <2>5, <4>1, <4>2
    <3> QED BY <1>1, <2>2, <2>3, <3>2, <3>4 DEF KeepsRun, InCall, At, Driven
  <2> QED BY <1>3, <2>4, <2>5
<1>4. ASSUME NEW t \in Thread, CallStep(t),
             ~(BeginDrive(t) \/ DriveStep(t) \/ DriveRaises(t) \/ DriveReturns(t))
      PROVE  CallsDrive'
  BY <1>1, <1>4, CallGoes, CallsRest
<1>5. ASSUME NEW t \in Thread, NEW op \in Calls, NEW r \in Run, Begin(t, op, r)
      PROVE  CallsDrive'
  <2>1. FirstStep(op) # "driving"
    BY DEF FirstStep
  <2>2. /\ call'[t].pc = FirstStep(op) /\ ~call'[t].raised
        /\ \A u \in Thread \ {t} : call'[u] = call[u]
    BY <1>0, <1>5 DEF Begin, NoCall
  <2> QED BY <1>1, <1>5, <2>1, <2>2 DEF Begin, vars
<1>6. CASE (\E r \in Run : OperateDirectly(r)) \/ Elapse \/ UNCHANGED rsiVars
  BY <1>1, <1>6, OperatorsRest DEF Elapse, Heartbeat, LeaseLapse, rsiVars, vars
<1>7. ASSUME NEW w \in Worker, ProcessDies(w) PROVE CallsDrive'
  <2>1. \A t \in Thread : WorkerOf[t] = w => call'[t].pc # "driving" /\ ~call'[t].raised
    BY <1>7 DEF ProcessDies, NoCall
  <2>2. \A t \in Thread : WorkerOf[t] # w => thr'[t] = thr[t] /\ call'[t] = call[t]
    BY <1>7 DEF ProcessDies, Crash
  <2> QED BY <1>1, <2>1, <2>2
<1> QED BY <1>2, <1>3, <1>4, <1>5, <1>6, <1>7 DEF RsiNext

(* The calls' part of the invariant.                                       *)
LEMMA DrivesInvariant == RsiSpec => []CallsDrive
<1>1. RsiInit => CallsDrive
  BY DEF RsiInit, CallsDrive, NoCall, InCall
<1>2. TypeOK /\ TypeOK' /\ CallsOK /\ CallsDrive /\ [RsiNext]_rsiVars => CallsDrive'
  BY DrivesKept, SupervisorAssumption
<1> QED BY <1>1, <1>2, RsiInvariant, PTL DEF RsiSpec

------------------------------------------------------------------------------
(* SKILL.md.  A call that is going to show what is active by then: it is   *)
(* about to read the channel, has read it, or its drive is over and it     *)
(* comes to that next.                                                     *)
WillSync(t) ==
  \/ InCall(t, "read")
  \/ InCall(t, "replace") /\ call[t].read = active[Ch]
  \/ /\ InCall(t, "driving") /\ At(t, "release")
     /\ ~call[t].raised /\ call[t].awaits = 0 /\ call[t].op \notin Generic

(* Whenever the file is behind, and nothing happened since it last was     *)
(* right that may have left it so, some call will bring it up to date.     *)
SomebodySyncs == skill # active[Ch] /\ behind = {} => \E t \in Thread : WillSync(t)

(* The pointer is moved by the last step of a drive that does not raise    *)
(* and does not end with a run that awaits approval.                       *)
LEMMA MoversSync ==
  ASSUME SupervisorAssumption, RegistryAssumption, TypeOK, TypeOK', Inductive, CallsOK,
         CallsDrive, NEW t \in Thread, DriveStep(t), active' # active, call[t].op \notin Generic
  PROVE  WillSync(t)'
<1> DEFINE r == thr[t].run
<1>0. /\ call \in [Thread -> CallRecord] /\ call[t] \in CallRecord
      /\ thr \in [Thread -> Driver] /\ run \in [Run -> RunState]
      /\ ~At(t, "release") /\ InCall(t, "driving")
  BY DrivingOn DEF CallsOK, TypeOK, DriveStep
<1>1. r \in Run /\ ~call[t].raised
  BY <1>0 DEF CallsDrive, Inductive, DriversHaveRuns
<1>2. PromoteCandidate(t) \/ CommitRollback(t)
  BY DEF DriveStep, AdapterReturns, VerifierReturns, CompleteExecute, CompleteVerify,
     InsertVersion, UpdateVersion, Restore, MarkRecoveryRequired, Dispatch, PauseAtBoundary,
     BeginExternalStep, FailExternalStep, RequestHuman, PromotionConflict, RecordConflict,
     ReadRollbackTarget, ReadRollbackFrom, registry
<1>3. /\ thr'[t].pc = "release"
      /\ run'[r].status \in {"succeeded", "rolled_back"}
  <2>1. Leave(t)
    BY <1>2 DEF PromoteCandidate, CommitRollback
  <2>2. CASE PromoteCandidate(t)
    BY <1>0, <1>1, <2>1, <2>2 DEF PromoteCandidate, Leave, Idle, RunState
  <2>3. CASE CommitRollback(t)
    BY <1>0, <1>1, <2>1, <2>3 DEF CommitRollback, Leave, Idle, RunState
  <2> QED BY <1>2, <2>2, <2>3
<1>4. /\ call'[t].pc = "driving" /\ call'[t].op = call[t].op /\ ~call'[t].raised
      /\ call'[t].awaits = 0
  BY <1>0, <1>1, <1>3 DEF DriveStep, CallRecord, InCall, At, Awaited
<1> QED BY <1>3, <1>4 DEF WillSync, InCall, At

LEMMA SyncsKept ==
  ASSUME SupervisorAssumption, RegistryAssumption, TypeOK, TypeOK', Inductive, CallsOK,
         RestTypeOK, CallsDrive, SomebodySyncs, [RsiNext]_rsiVars
  PROVE  SomebodySyncs'
<1>0. /\ call \in [Thread -> CallRecord] /\ \A t \in Thread : call[t] \in CallRecord
      /\ thr \in [Thread -> Driver]
  BY DEF CallsOK, TypeOK
<1>1. ASSUME UNCHANGED <<skill, active>>, behind \subseteq behind',
             \A t \in Thread : WillSync(t) => WillSync(t)' \/ behind' # {} \/ skill = active[Ch]
      PROVE  SomebodySyncs'
  BY <1>1 DEF SomebodySyncs
<1>2. ASSUME NEW t \in Thread, call'[t] = call[t], thr'[t] = thr[t], active' = active
      PROVE  WillSync(t) => WillSync(t)'
  BY <1>0, <1>2 DEF WillSync, InCall, At
<1>3. ASSUME behind' = Failing
      PROVE  behind \subseteq behind' /\ (behind' # {} \/ skill = active[Ch])
  BY <1>3 DEF Failing
<1>4. ASSUME NEW t \in Thread, CallStep(t)
      PROVE  SomebodySyncs'
  <2>1. \A u \in Thread \ {t} : call'[u] = call[u]
    BY <1>4, CallGoes
  <2>2. ASSUME UNCHANGED <<skill, active>>, behind \subseteq behind',
               \A u \in Thread \ {t} : thr'[u] = thr[u],
               WillSync(t) => WillSync(t)' \/ behind' # {} \/ skill = active[Ch]
        PROVE  SomebodySyncs'
    BY <1>1, <1>2, <2>1, <2>2
  <2>3. CASE BeginDrive(t)
    <3>1. ~WillSync(t)
      BY <2>3 DEF BeginDrive, InCall, WillSync
    <3> QED BY <1>0, <2>2, <2>3, <3>1 DEF BeginDrive, Acquire, registry, file
  <2>4. CASE DriveStep(t) /\ active' # active
    <3>1. CASE call[t].op \in Generic
      <4>1. active'[Ch] = active[Ch] \/ "commanded" \in behind'
        BY <2>4, <3>1 DEF DriveStep
      <4>2. CASE "commanded" \in behind'
        BY <4>2 DEF SomebodySyncs
      <4>3. CASE active'[Ch] = active[Ch]
        <5>1. UNCHANGED <<skill, behind>> /\ ~WillSync(t)
          BY <2>4, <4>3, DrivingOn DEF DriveStep, WillSync, InCall
        <5>2. \A u \in Thread \ {t} : thr'[u] = thr[u]
          BY <2>4, DrivesOne
        <5>3. \A u \in Thread \ {t} : WillSync(u) => WillSync(u)'
          BY <1>0, <2>1, <4>3, <5>2 DEF WillSync, InCall, At
        <5> QED BY <4>3, <5>1, <5>3 DEF SomebodySyncs
      <4> QED BY <4>1, <4>2, <4>3
    <3>2. CASE call[t].op \notin Generic
      BY <2>4, <3>2, MoversSync DEF SomebodySyncs
    <3> QED BY <3>1, <3>2
  <2>5. CASE (DriveStep(t) /\ active' = active) \/ DriveRaises(t)
    <3>1. ~WillSync(t)
      BY <2>5, DrivingOn, CallDrives DEF WillSync, InCall
    <3>2. UNCHANGED <<skill, active, behind>>
      BY <2>5 DEF DriveStep, DriveRaises, Raise, Abort, registry, file
    <3>3. \A u \in Thread \ {t} : thr'[u] = thr[u]
      BY <2>5, DrivesOne
    <3> QED BY <2>2, <3>1, <3>2, <3>3
  <2>6. CASE DriveReturns(t)
    <3>1. UNCHANGED <<skill, active>>
      BY <2>6 DEF DriveReturns, Release, registry
    <3>2. \A u \in Thread \ {t} : thr'[u] = thr[u]
      BY <2>6, DrivesOne
    <3>3. behind \subseteq behind'
      BY <1>3, <2>6 DEF DriveReturns
    <3>4. ASSUME WillSync(t)
          PROVE  WillSync(t)' \/ behind' # {} \/ skill = active[Ch]
      <4>1. ~call[t].raised /\ call[t].awaits = 0 /\ call[t].op \notin Generic
        BY <2>6, <3>4 DEF WillSync, DriveReturns, InCall
      <4>2. CASE call[t].op = "start" /\ run[SeedOf[t]].candidate = None
        BY <1>3, <2>6, <4>1, <4>2 DEF DriveReturns
      <4>3. CASE ~(call[t].op = "start" /\ run[SeedOf[t]].candidate = None)
        <5>1. call'[t] = AfterDrive(t)
          BY <1>0, <2>6, <4>1, <4>3 DEF DriveReturns
        <5>2. AfterDrive(t).pc = "read"
          BY <1>0, <4>1 DEF AfterDrive, CallRecord
        <5> QED BY <5>1, <5>2 DEF WillSync, InCall
      <4> QED BY <4>2, <4>3
    <3> QED BY <2>2, <3>1, <3>2, <3>3, <3>4
  <2>7. CASE ReadChannel(t) \/ LeaseUnavailable(t) \/ DecideRefused(t) \/ AskRefused(t)
             \/ CreateSeed(t) \/ CreateEvolver(t) \/ Decide(t) \/ Ask(t) \/ Request(t)
    <3>1. ~WillSync(t)
      BY <2>7 DEF ReadChannel, LeaseUnavailable, DecideRefused, AskRefused, CreateSeed,
         CreateEvolver, Decide, Ask, Request, WillSync, InCall
    <3>2. UNCHANGED file
      BY <2>7 DEF ReadChannel, LeaseUnavailable, DecideRefused, AskRefused, CreateSeed,
         CreateEvolver, Decide, Ask, Request
    <3>3. UNCHANGED <<registry, thr>>
      BY <1>4, <2>7, CallsRest DEF ReadChannel, LeaseUnavailable, DecideRefused, AskRefused,
         CreateSeed, CreateEvolver, CreateRun, Decide, Approve, Ask, AskRollback, Request,
         RequestRollback, vars
    <3> QED BY <2>2, <3>1, <3>2, <3>3 DEF registry, file
  <2>8. CASE ReadActive(t)
    <3>1. call'[t].pc = "replace" /\ call'[t].read = active[Ch]
      BY <1>0, <2>8 DEF ReadActive, CallRecord
    <3>2. UNCHANGED <<active, thr, skill, behind>>
      BY <2>8 DEF ReadActive, vars, registry, file
    <3> QED BY <2>2, <3>1, <3>2 DEF WillSync, InCall
  <2>9. CASE MaterializeRaises(t)
    BY <1>3, <2>2, <2>9 DEF MaterializeRaises, vars, registry
  <2>10. CASE ReplaceSkill(t)
    BY <2>10 DEF ReplaceSkill, SomebodySyncs, vars, registry
  <2> QED BY <1>4, <2>3, <2>4, <2>5, <2>6, <2>7, <2>8, <2>9, <2>10 DEF CallStep
<1>5. ASSUME NEW t \in Thread, NEW op \in Calls, NEW r \in Run, Begin(t, op, r)
      PROVE  SomebodySyncs'
  <2>1. ~WillSync(t)
    BY <1>5 DEF Begin, WillSync, InCall
  <2>2. UNCHANGED <<active, thr, skill, behind>> /\ \A u \in Thread \ {t} : call'[u] = call[u]
    BY <1>0, <1>5 DEF Begin, vars, registry, file
  <2> QED BY <1>1, <1>2, <2>1, <2>2
<1>6. CASE (\E r \in Run : OperateDirectly(r)) \/ Elapse \/ UNCHANGED rsiVars
  <2>1. UNCHANGED <<active, thr, skill, behind, call>>
    BY <1>6, OperatorsRest DEF Elapse, Heartbeat, LeaseLapse, rsiVars, vars, registry, file
  <2> QED BY <1>1, <1>2, <2>1
<1>7. ASSUME NEW w \in Worker, ProcessDies(w)
      PROVE  SomebodySyncs'
  <2>1. UNCHANGED <<active, skill>> /\ behind \subseteq behind'
    BY <1>3, <1>7 DEF ProcessDies, Crash, registry
  <2>2. ASSUME NEW t \in Thread
        PROVE  WillSync(t) => WillSync(t)' \/ behind' # {} \/ skill = active[Ch]
    <3>1. CASE WorkerOf[t] = w
      <4>1. WillSync(t) => Owes(t)
        BY DEF WillSync, Owes, InCall
      <4> QED BY <1>3, <1>7, <3>1, <4>1 DEF ProcessDies
    <3>2. CASE WorkerOf[t] # w
      <4>1. thr'[t] = thr[t] /\ call'[t] = call[t]
        BY <1>7, <3>2 DEF ProcessDies, Crash
      <4> QED BY <1>2, <2>1, <4>1
    <3> QED BY <3>1, <3>2
  <2> QED BY <1>1, <2>1, <2>2
<1> QED BY <1>4, <1>5, <1>6, <1>7 DEF RsiNext

(* When all calls are over and SKILL.md does not show the active version,  *)
(* then one of the three things happened since it last did that            *)
(* SkillShowsActive names, however the calls, the generic commands, the    *)
(* operators and the crashes interleave and whatever leases lapse: no call *)
(* of an experiment that runs to its end forgets the file.                 *)
THEOREM SkillIsBroughtUpToDate ==
  ASSUME Thread # {}
  PROVE  RsiSpec => []SkillShowsActive
<1>1. RsiInit => SomebodySyncs
  BY Evolvers DEF RsiInit, Init, RegistryInit, SomebodySyncs
<1>2. TypeOK /\ TypeOK' /\ Inductive /\ CallsOK /\ RestTypeOK /\ CallsDrive /\ SomebodySyncs
        /\ [RsiNext]_rsiVars => SomebodySyncs'
  BY SyncsKept, SupervisorAssumption, RegistryAssumption
<1>3. SomebodySyncs => SkillShowsActive
  BY DEF SomebodySyncs, SkillShowsActive, WillSync, InCall
<1> QED
  BY <1>1, <1>2, <1>3, RsiInvariant, DrivesInvariant, PTL DEF RsiSpec

------------------------------------------------------------------------------
(* An approval that nobody gave by hand.                                   *)

(* What drive() returned is still so, or the run has gone to another       *)
(* iteration.                                                              *)
Ready(r, iteration) ==
  /\ r \in Run /\ Created(r) /\ run[r].iteration >= iteration
  /\ run[r].iteration = iteration => run[r].node \notin ExternalNode /\ Passed(run[r].candidate)

(* The version start() has taken as its baseline.                          *)
BasedOn(c) ==
  c.pc = "create" \/ (c.op = "start" /\ c.pc \in {"read", "replace"}) => Exists(c.version)

Waited(c) ==
  c.op = "drive" => /\ c.awaits > 0 => Ready(c.run, c.awaits)
                    /\ c.pc = "decide" => c.awaits > 0

(* Every version that passed in an evolver run beat that run's baseline.   *)
Beaten ==
  \A v \in Version : Passed(v) /\ ver[v].run \in Evolver => Eligible(v, baseline[ver[v].run])

GateInductive ==
  /\ \A t \in Thread : BasedOn(call[t]) /\ Waited(call[t])
  /\ \A r \in Evolver : Created(r) => Exists(baseline[r])
  /\ Beaten

LEMMA ReadyStays ==
  ASSUME SupervisorAssumption, RegistryAssumption, TypeOK, TypeOK', Inductive, LeaseInductive,
         Settled, [Next]_vars, NEW q \in Run, NEW iteration \in Nat, Ready(q, iteration)
  PROVE  Ready(q, iteration)'
<1>1. Goes(run[q], run'[q])
  <2>1. ~CreateRun(q)
    BY DEF Ready, CreateRun
  <2> QED BY <2>1, RunsGo DEF Settled
<1>2. run[q].iteration \in Nat /\ run'[q].iteration \in Nat
  BY DEF TypeOK, RunState
<1>3. Created(q)' /\ run'[q].iteration >= run[q].iteration /\ run[q].iteration >= iteration
  BY <1>1 DEF Goes, Ready, Created
<1>4. run'[q].iteration >= iteration
  BY <1>2, <1>3
<1>5. ASSUME run'[q].iteration = iteration
      PROVE  run'[q].node \notin ExternalNode /\ Passed(run[q].candidate)'
  <2>1. run[q].iteration = iteration /\ run'[q].iteration = run[q].iteration
    BY <1>2, <1>3, <1>5
  <2>2. /\ run'[q].node \notin ExternalNode /\ run'[q].candidate = run[q].candidate
        /\ Passed(run[q].candidate)
    BY <1>1, <2>1 DEF Goes, Ready
  <2>3. VerdictsKept
    BY VerdictsStay
  <2> QED BY <2>2, <2>3 DEF Passed, VerdictsKept
<1> QED BY <1>3, <1>4, <1>5 DEF Ready

(* What calls do to what they have read.                                   *)
LEMMA CallsHold ==
  ASSUME CallsOK, NEW t \in Thread, CallStep(t)
  PROVE  /\ call'[t].op = "drive" /\ ~DriveStep(t) =>
              /\ call[t].op = "drive" /\ call'[t].run = call[t].run
              /\ call'[t].awaits = call[t].awaits
              /\ call'[t].pc = "decide" => call[t].awaits > 0
         /\ call'[t].pc = "create" \/ (call'[t].op = "start" /\ call'[t].pc \in {"read", "replace"}) =>
              \/ call'[t].version = active[Ch] /\ active[Ch] # None
              \/ call'[t].version = run[SeedOf[t]].candidate /\ run[SeedOf[t]].candidate # None
              \/ /\ call'[t].version = call[t].version
                 /\ call[t].op = "start" /\ call[t].pc \in {"read", "replace"}
<1> DEFINE c == call[t]
           n == call'[t]
           A == n.op = "drive" =>
                  /\ c.op = "drive" /\ n.run = c.run /\ n.awaits = c.awaits
                  /\ n.pc = "decide" => c.awaits > 0
           B == n.pc = "create" \/ (n.op = "start" /\ n.pc \in {"read", "replace"}) =>
                  \/ n.version = active[Ch] /\ active[Ch] # None
                  \/ n.version = run[SeedOf[t]].candidate /\ run[SeedOf[t]].candidate # None
                  \/ n.version = c.version /\ c.op = "start" /\ c.pc \in {"read", "replace"}
<1>0. c \in CallRecord /\ call \in [Thread -> CallRecord]
  BY DEF CallsOK
<1>1. CASE CallEnds(t)
  BY <1>0, <1>1 DEF CallEnds, NoCall
<1>2. ASSUME NEW pc \in CallPc \ {"decide", "create", "read", "replace"}, CallGoto(t, pc)
      PROVE  A /\ B
  <2>1. /\ n.pc = pc /\ n.op = c.op /\ n.run = c.run /\ n.awaits = c.awaits
        /\ n.version = c.version
    BY <1>0, <1>2 DEF CallGoto, CallRecord
  <2> QED BY <2>1
<1>3. CASE ReadChannel(t)
  <2>1. CASE active[Ch] = None
    <3>1. /\ n.pc = "seed" /\ n.op = c.op /\ n.run = c.run /\ n.awaits = c.awaits
      BY <1>0, <1>3, <2>1 DEF ReadChannel, CallRecord
    <3> QED BY <3>1
  <2>2. CASE active[Ch] # None
    <3>1. /\ n.pc = "read" /\ n.op = c.op /\ n.run = c.run /\ n.awaits = c.awaits
          /\ n.version = active[Ch]
      BY <1>0, <1>3, <2>2 DEF ReadChannel, CallRecord
    <3> QED BY <2>2, <3>1
  <2> QED BY <2>1, <2>2
<1>4. CASE ReadActive(t)
  <2>1. /\ n.pc = "replace" /\ n.op = c.op /\ n.run = c.run /\ n.awaits = c.awaits
        /\ n.version = c.version /\ c.pc = "read"
    BY <1>0, <1>4 DEF ReadActive, CallRecord, InCall
  <2> QED BY <2>1
<1>5. CASE ReplaceSkill(t)
  <2>1. CASE c.op = "start"
    <3>1. n.pc = "create" /\ n.op = c.op /\ n.version = c.version /\ c.pc = "replace"
      BY <1>0, <1>5, <2>1 DEF ReplaceSkill, CallRecord, InCall
    <3> QED BY <2>1, <3>1
  <2>2. CASE c.op # "start"
    BY <1>0, <1>5, <2>2 DEF ReplaceSkill, NoCall
  <2> QED BY <2>1, <2>2
<1>6. CASE Decide(t)
  <2>1. n.op = "approve" /\ n.pc = "drive"
    BY <1>0, <1>6 DEF Decide, CallRecord
  <2> QED BY <2>1
<1>7. CASE DriveRaises(t)
  <2>1. /\ n.pc = "driving" /\ n.op = c.op /\ n.run = c.run /\ n.awaits = c.awaits
    BY <1>0, <1>7 DEF DriveRaises, CallRecord, InCall
  <2> QED BY <2>1
<1>8. CASE DriveReturns(t)
  <2>1. CASE n = NoCall
    BY <1>0, <2>1 DEF NoCall
  <2>2. CASE n = AfterDrive(t) /\ (c.op = "start" => run[SeedOf[t]].candidate # None)
    <3>1. CASE c.op = "start"
      <4>1. n = [c EXCEPT !.pc = "read", !.version = run[SeedOf[t]].candidate]
        BY <2>2, <3>1 DEF AfterDrive, Generic
      <4>2. n.op = "start" /\ n.version = run[SeedOf[t]].candidate
        BY <1>0, <3>1, <4>1 DEF CallRecord
      <4> QED BY <2>2, <3>1, <4>2
    <3>2. CASE c.op = "drive" /\ c.awaits > 0
      <4>1. n = [c EXCEPT !.pc = "decide"]
        BY <2>2, <3>2 DEF AfterDrive, Generic
      <4>2. n.op = "drive" /\ n.pc = "decide" /\ n.run = c.run /\ n.awaits = c.awaits
        BY <1>0, <3>2, <4>1 DEF CallRecord
      <4> QED BY <3>2, <4>2
    <3>3. CASE c.op \in Generic
      <4>1. n = NoCall
        BY <2>2, <3>3 DEF AfterDrive, Generic
      <4> QED BY <2>1, <4>1
    <3>4. CASE c.op \notin Generic \cup {"start"} /\ ~(c.op = "drive" /\ c.awaits > 0)
      <4>1. n = [c EXCEPT !.pc = "read"]
        BY <2>2, <3>4 DEF AfterDrive
      <4>2. n.op = c.op /\ n.pc = "read" /\ n.run = c.run /\ n.awaits = c.awaits
        BY <1>0, <4>1 DEF CallRecord
      <4> QED BY <3>4, <4>2
    <3> QED BY <3>1, <3>2, <3>3, <3>4
  <2>3. n = NoCall \/ (n = AfterDrive(t) /\ (c.op = "start" => run[SeedOf[t]].candidate # None))
    BY <1>0, <1>8 DEF DriveReturns
  <2> QED BY <2>1, <2>2, <2>3
<1>9. CASE DriveStep(t)
  <2>1. n.pc = c.pc /\ c.pc = "driving"
    BY <1>0, <1>9 DEF DriveStep, CallRecord, InCall
  <2> QED BY <1>9, <2>1
<1>10. CASE CreateSeed(t) \/ BeginDrive(t) \/ Ask(t) \/ Request(t)
  BY <1>1, <1>2, <1>10 DEF CreateSeed, BeginDrive, Ask, Request, CallPc
<1>11. CASE LeaseUnavailable(t) \/ DecideRefused(t) \/ AskRefused(t) \/ CreateEvolver(t)
            \/ MaterializeRaises(t)
  BY <1>1, <1>11 DEF LeaseUnavailable, DecideRefused, AskRefused, CreateEvolver, MaterializeRaises
<1> QED
  BY <1>3, <1>4, <1>5, <1>6, <1>7, <1>8, <1>9, <1>10, <1>11 DEF CallStep

(* Runs are created by start() only, and a baseline is fixed with its run. *)
LEMMA Creations ==
  ASSUME SupervisorAssumption, TypeOK, TypeOK', Inductive, LeaseInductive, Settled, CallsOK,
         RestTypeOK, [RsiNext]_rsiVars, NEW q \in Run
  PROVE  /\ Created(q)' => \/ Created(q)
                           \/ \E t \in Thread : CreateSeed(t) /\ q = SeedOf[t]
                           \/ \E t \in Thread : CreateEvolver(t) /\ q = EvolverOf[t]
         /\ Created(q) => baseline'[q] = baseline[q]
<1> DEFINE Goal == Created(q)' => \/ Created(q)
                                  \/ \E t \in Thread : CreateSeed(t) /\ q = SeedOf[t]
                                  \/ \E t \in Thread : CreateEvolver(t) /\ q = EvolverOf[t]
<1>0. /\ run \in [Run -> RunState] /\ baseline \in [Run -> Version \cup {None}]
      /\ \A t \in Thread : ~At(t, "idle") => thr[t].run \in Run
  BY DEF TypeOK, RestTypeOK, Inductive, DriversHaveRuns
<1>1. UNCHANGED run => Goal
  BY DEF Created
<1>2. Created(q) => baseline'[q] = baseline[q]
  <2>1. CASE \E t \in Thread : CreateEvolver(t)
    BY <1>0, <2>1 DEF CreateEvolver, CreateRun
  <2>2. CASE ~(\E t \in Thread : CreateEvolver(t))
    <3>1. UNCHANGED baseline
      BY <2>2 DEF RsiNext, rsiVars, CallStep, ReadChannel, CreateSeed, BeginDrive, LeaseUnavailable,
         DriveStep, DriveRaises, DriveReturns, Decide, DecideRefused, Ask, AskRefused, Request,
         ReadActive, MaterializeRaises, ReplaceSkill, Begin, OperateDirectly, Elapse, ProcessDies
    <3> QED BY <3>1
  <2> QED BY <2>1, <2>2
<1>3. ASSUME NEW t \in Thread, CreateSeed(t) \/ CreateEvolver(t) PROVE Goal
  BY <1>0, <1>3 DEF CreateSeed, CreateEvolver, CreateRun, Created
<1>4. ASSUME NEW t \in Thread, DriveStep(t) \/ DriveRaises(t) \/ DriveReturns(t) PROVE Goal
  <2>1. Drive(t) \/ Abort(t)
    BY <1>4, CallDrives
  <2>2. CASE Release(t)
    BY <1>1, <2>2 DEF Release
  <2>3. CASE ~Release(t)
    <3>1. ~At(t, "idle")
      BY <2>1, <2>3, DrivingKeepsRun
    <3>2. /\ thr[t].run \in Run /\ Created(thr[t].run) /\ Fits(run[thr[t].run])
          /\ Knows(thr[t], run[thr[t].run])
      BY <1>0, <3>1 DEF LeaseInductive, Settled
    <3>3. \A p \in Run \ {thr[t].run} : run'[p] = run[p]
      BY <2>1, <2>3, <3>2, DriversFit
    <3> QED BY <3>2, <3>3 DEF Created
  <2> QED BY <2>2, <2>3
<1>5. ASSUME NEW r \in Run, Steer(r) \/ Approve(r) \/ RequestRollback(r)
      PROVE  Goal
  <2>1. CASE Created(r)
    <3>1. \A p \in Run \ {r} : run'[p] = run[p]
      BY <1>0, <1>5 DEF Steer, Pause, Resume, Approve, Revise, Reject, ResolveRecovery,
         DecideRollback, Cancel, RequestRollback
    <3> QED BY <2>1, <3>1 DEF Created
  <2>2. CASE ~Created(r)
    BY <1>5, <2>2 DEF Steer, Pause, Resume, Approve, Revise, Reject, ResolveRecovery,
       DecideRollback, Cancel, RequestRollback, Awaiting, Created, Settled
  <2> QED BY <2>1, <2>2
<1>6. ASSUME NEW t \in Thread, Decide(t) \/ Request(t) PROVE Goal
  <2>1. call[t].run \in Run
    BY <1>6, Evolvers DEF Decide, Request, InCall, CallsOK, WellCalled
  <2> QED BY <1>5, <1>6, <2>1 DEF Decide, Request
<1>7. ASSUME NEW t \in Thread,
             \/ ReadChannel(t) \/ BeginDrive(t) \/ LeaseUnavailable(t) \/ DecideRefused(t)
             \/ Ask(t) \/ AskRefused(t) \/ ReadActive(t) \/ MaterializeRaises(t) \/ ReplaceSkill(t)
      PROVE  Goal
  BY <1>1, <1>7 DEF ReadChannel, BeginDrive, Acquire, LeaseUnavailable, DecideRefused, Ask,
     AskRollback, AskRefused, ReadActive, MaterializeRaises, ReplaceSkill, vars
<1>8. CASE \/ \E t \in Thread, op \in Calls, r \in Run : Begin(t, op, r)
           \/ Elapse \/ (\E w \in Worker : ProcessDies(w)) \/ UNCHANGED rsiVars
  BY <1>1, <1>8 DEF Begin, Elapse, Heartbeat, LeaseLapse, ProcessDies, Crash, rsiVars, vars
<1>9. Goal
  BY <1>3, <1>4, <1>5, <1>6, <1>7, <1>8 DEF RsiNext, CallStep, OperateDirectly
<1> QED BY <1>2, <1>9

(* Only results touch verdicts and scores.                                 *)
LEMMA ScoresGo ==
  ASSUME TypeOK, [RsiNext]_rsiVars
  PROVE  \/ VersionsKept /\ UNCHANGED score
         \/ \E t \in Thread : DriveStep(t) /\ (AdapterReturns(t) \/ VerifierReturns(t))
<1>1. UNCHANGED ver => VersionsKept
  BY DEF VersionsKept
<1>2. ASSUME NEW t \in Thread, PromoteCandidate(t) \/ CommitRollback(t)
      PROVE  VersionsKept
  <2>1. RegistryTypeOK /\ "superseded" \in VersionStatus /\ "rolled_back" \in VersionStatus
    BY DEF TypeOK, VersionStatus
  <2> QED
    BY <1>2, <2>1, PointerKeepsVersions DEF PromoteCandidate, Promote, CommitRollback, Rollback
<1>3. ASSUME NEW t \in Thread, DriveStep(t), ~AdapterReturns(t), ~VerifierReturns(t)
      PROVE  VersionsKept /\ UNCHANGED score
  BY <1>1, <1>2, <1>3 DEF DriveStep, Restore, MarkRecoveryRequired, Dispatch, PauseAtBoundary,
     BeginExternalStep, FailExternalStep, RequestHuman, PromotionConflict, RecordConflict,
     ReadRollbackTarget, ReadRollbackFrom, registry
<1>4. ASSUME NEW t \in Thread, CallStep(t), ~DriveStep(t)
      PROVE  UNCHANGED <<ver, score>>
  BY <1>4 DEF CallStep, ReadChannel, CreateSeed, CreateEvolver, CreateRun, BeginDrive, Acquire,
     LeaseUnavailable, DriveRaises, Raise, Abort, DriveReturns, Release, Decide, Approve,
     DecideRefused, Ask, AskRollback, AskRefused, Request, RequestRollback, ReadActive,
     MaterializeRaises, ReplaceSkill, vars, registry
<1>5. CASE \/ \E t \in Thread, op \in Calls, r \in Run : Begin(t, op, r)
           \/ (\E r \in Run : OperateDirectly(r))
           \/ Elapse \/ (\E w \in Worker : ProcessDies(w)) \/ UNCHANGED rsiVars
  BY <1>1, <1>5, OperatorsRest DEF Begin, Elapse, Heartbeat, LeaseLapse, ProcessDies, Crash,
     rsiVars, vars, registry, file
<1> QED BY <1>1, <1>3, <1>4, <1>5 DEF RsiNext

(* The three parts of the invariant, step by step: what passed has beaten  *)
(* its baseline, ...                                                       *)
LEMMA BeatenStays ==
  ASSUME SupervisorAssumption, RegistryAssumption, TypeOK, TypeOK', Inductive, LeaseInductive,
         Settled, CallsOK, RestTypeOK, GateInductive, [RsiNext]_rsiVars
  PROVE  Beaten'
<1> SUFFICES ASSUME NEW v \in Version, Passed(v)', ver'[v].run \in Evolver
             PROVE  Eligible(v, baseline[ver[v].run])'
  BY DEF Beaten
<1>0. /\ ver \in [Version -> VersionState] /\ score \in [Version -> Score \cup {SeedScore}]
      /\ \A t \in Thread : ~At(t, "idle") => thr[t].run \in Run
      /\ Evolver \subseteq Run
  BY Evolvers DEF TypeOK, RegistryTypeOK, RestTypeOK, Inductive, DriversHaveRuns
<1>1. \A q \in Evolver : Created(q) => Exists(baseline[q]) /\ baseline'[q] = baseline[q]
  BY <1>0, Creations DEF GateInductive
<1>2. \A w \in Version : ver[w].run \in Evolver => Created(ver[w].run)
  BY <1>0 DEF Settled
<1>3. ASSUME NEW b \in Version, score'[v] = score[v], score'[b] = score[b], Eligible(v, b),
             baseline'[ver'[v].run] = b
      PROVE  Eligible(v, baseline[ver[v].run])'
  BY <1>3 DEF Eligible
<1>4. CASE VersionsKept /\ UNCHANGED score
  <2>1. Passed(v) /\ ver[v].run = ver'[v].run
    BY <1>4 DEF VersionsKept, Passed
  <2>2. PICK b \in Version : b = baseline[ver[v].run] /\ baseline'[ver[v].run] = b
    BY <1>1, <1>2, <2>1 DEF Exists
  <2>3. Eligible(v, b)
    BY <2>1, <2>2 DEF GateInductive, Beaten
  <2> QED BY <1>3, <1>4, <2>1, <2>2, <2>3
<1>5. ASSUME NEW t \in Thread, DriveStep(t), AdapterReturns(t)
      PROVE  Eligible(v, baseline[ver[v].run])'
  <2>1. PICK n \in Version : /\ ~Exists(n) /\ ver'[n].validation = "none"
                            /\ \A w \in Version \ {n} : ver'[w] = ver[w]
    BY <1>5, ResultsVersions DEF AdapterReturns
  <2>2. v # n
    BY <2>1 DEF Passed
  <2>3. ver'[v] = ver[v] /\ Passed(v)
    BY <2>1, <2>2 DEF Passed
  <2>4. PICK b \in Version : /\ b = baseline[ver[v].run] /\ baseline'[ver[v].run] = b
                            /\ Exists(b)
    BY <1>1, <1>2, <2>3 DEF Exists
  <2>5. ver'[b] = ver[b]
    BY <2>1, <2>4
  <2>6. score'[v] = score[v] /\ score'[b] = score[b]
    BY <1>5, <2>3, <2>5 DEF AdapterReturns
  <2>7. Eligible(v, b)
    BY <2>3, <2>4 DEF GateInductive, Beaten
  <2> QED BY <1>3, <2>3, <2>4, <2>6, <2>7
<1>6. ASSUME NEW t \in Thread, DriveStep(t), VerifierReturns(t)
      PROVE  Eligible(v, baseline[ver[v].run])'
  <2> DEFINE r == thr[t].run
             passed == IF r \in Evolver THEN Eligible(thr[t].held, baseline[r]) ELSE TRUE
  <2>1. CompleteVerify(t, passed) /\ passed \in BOOLEAN /\ UNCHANGED score
    BY <1>6 DEF VerifierReturns, Eligible
  <2>2. At(t, "verifying") /\ r \in Run
    BY <1>0, <2>1 DEF CompleteVerify, At
  <2>3. thr[t].held = run[r].candidate
    BY <2>2 DEF LeaseInductive, Knows, At
  <2> HIDE DEF passed
  <2>4. PICK n \in Version : /\ n = run[r].candidate /\ ver'[n].run = ver[n].run
                            /\ ver'[n].validation = (IF passed THEN "passed" ELSE "failed")
                            /\ \A w \in Version \ {n} : ver'[w] = ver[w]
    BY <2>1, ResultsVersions
  <2>5. ver'[v].run = ver[v].run
    BY <2>4
  <2>6. PICK b \in Version : b = baseline[ver[v].run] /\ baseline'[ver[v].run] = b
    BY <1>1, <1>2, <2>5 DEF Exists
  <2>7. Eligible(v, b)
    <3>1. CASE v # n
      <4>1. Passed(v)
        BY <2>4, <3>1 DEF Passed
      <4> QED BY <2>5, <2>6, <4>1 DEF GateInductive, Beaten
    <3>2. CASE v = n
      <4>1. passed
        BY <2>4, <3>2 DEF Passed
      <4>2. n # None
        BY DEF RegistryAssumption
      <4>3. ver[n].run = r
        BY <2>2, <2>4, <4>2 DEF Inductive, CandidatesAreOwn
      <4> QED BY <2>3, <2>4, <2>5, <2>6, <3>2, <4>1, <4>3 DEF passed
    <3> QED BY <3>1, <3>2
  <2> QED BY <1>3, <2>1, <2>5, <2>6, <2>7
<1> QED BY <1>4, <1>5, <1>6, ScoresGo

(* ... baselines exist, ...                                                *)
LEMMA BaselinesStay ==
  ASSUME SupervisorAssumption, RegistryAssumption, TypeOK, TypeOK', Inductive, LeaseInductive,
         Settled, CallsOK, RestTypeOK, GateInductive, [Next]_vars, [RsiNext]_rsiVars
  PROVE  /\ \A v \in Version : Exists(v) => Exists(v)'
         /\ \A r \in Evolver : Created(r)' => Exists(baseline[r])'
<1>0. Evolver \subseteq Run /\ baseline \in [Run -> Version \cup {None}]
  BY Evolvers DEF RestTypeOK
<1>1. \A v \in Version : Exists(v) => Exists(v)'
  <2>1. CASE VersionsKept
    BY <2>1 DEF VersionsKept, Exists
  <2>2. ASSUME NEW t \in Thread, CompleteExecute(t), NEW v \in Version, Exists(v)
        PROVE  Exists(v)'
    BY <2>2, ResultsVersions DEF Exists
  <2>3. ASSUME NEW t \in Thread, NEW passed \in BOOLEAN, CompleteVerify(t, passed),
               NEW v \in Version, Exists(v)
        PROVE  Exists(v)'
    <3>1. PICK n \in Version : Exists(n)' /\ \A w \in Version \ {n} : ver'[w] = ver[w]
      BY <2>3, ResultsVersions
    <3> QED BY <2>3, <3>1 DEF Exists
  <2> QED BY <2>1, <2>2, <2>3, VersionsGo
<1>2. ASSUME NEW r \in Evolver, Created(r)'
      PROVE  \E b \in Version : baseline'[r] = b /\ Exists(b)
  <2>1. CASE Created(r)
    BY <1>0, <2>1, Creations DEF GateInductive, Exists
  <2>2. ASSUME NEW t \in Thread, CreateSeed(t), r = SeedOf[t]
        PROVE  FALSE
    BY <2>2, RsiAssumption DEF RsiAssumption, Evolver
  <2>3. ASSUME NEW t \in Thread, CreateEvolver(t), r = EvolverOf[t]
        PROVE  \E b \in Version : baseline'[r] = b /\ Exists(b)
    <3>1. baseline'[r] = call[t].version
      BY <1>0, <2>3 DEF CreateEvolver
    <3>2. Exists(call[t].version)
      BY <2>3 DEF CreateEvolver, InCall, GateInductive, BasedOn
    <3> QED BY <3>1, <3>2 DEF Exists
  <2> QED BY <1>0, <1>2, <2>1, <2>2, <2>3, Creations
<1> QED BY <1>1, <1>2

(* ... and calls know what they are based on and wait for.                 *)
LEMMA CallsStay ==
  ASSUME SupervisorAssumption, RegistryAssumption, TypeOK, TypeOK', Inductive, LeaseInductive,
         Settled, Settled', CallsOK, CallsDrive, GateInductive, [Next]_vars,
         [RsiNext]_rsiVars, \A v \in Version : Exists(v) => Exists(v)'
  PROVE  \A t \in Thread : BasedOn(call[t])' /\ Waited(call[t])'
<1>0. /\ call \in [Thread -> CallRecord] /\ \A t \in Thread : call[t] \in CallRecord
      /\ \A t \in Thread : BasedOn(call[t]) /\ Waited(call[t])
  BY DEF CallsOK, GateInductive
<1>1. ASSUME NEW t \in Thread,
             call'[t].op = "drive" =>
               /\ call[t].op = "drive" /\ call'[t].run = call[t].run
               /\ call'[t].awaits = call[t].awaits
               /\ call'[t].pc = "decide" => call[t].awaits > 0
      PROVE  Waited(call[t])'
  <2> SUFFICES ASSUME call'[t].op = "drive", call[t].awaits > 0
               PROVE  Ready(call[t].run, call[t].awaits)'
    BY <1>1 DEF Waited
  <2>1. Ready(call[t].run, call[t].awaits) /\ call[t].awaits \in Nat
    BY <1>0, <1>1 DEF Waited, CallRecord
  <2>2. PICK q \in Run, i \in Nat : q = call[t].run /\ i = call[t].awaits
    BY <2>1 DEF Ready
  <2>3. Ready(q, i)'
    BY <2>1, <2>2, ReadyStays
  <2>4. call'[t].run = q /\ call'[t].awaits = i
    BY <1>1, <2>2
  <2> QED BY <2>3, <2>4 DEF Ready
<1>2. ASSUME NEW t \in Thread, NEW v, call'[t].version = v, Exists(v)
      PROVE  BasedOn(call[t])'
  <2>1. Exists(v)'
    BY <1>2 DEF Exists
  <2> QED BY <1>2, <2>1 DEF BasedOn, Exists
<1>3. ASSUME NEW t \in Thread, call'[t] = call[t]
      PROVE  BasedOn(call[t])' /\ Waited(call[t])'
  <2>1. Waited(call[t])'
    <3>1. call[t].op = "drive" /\ call[t].pc = "decide" => call[t].awaits > 0
      BY <1>0 DEF Waited
    <3> QED BY <1>1, <1>3, <3>1
  <2>2. CASE Exists(call[t].version)
    <3>1. PICK v \in Version : v = call[t].version
      BY <2>2 DEF Exists
    <3> QED BY <1>2, <1>3, <2>1, <2>2, <3>1
  <2>3. CASE ~Exists(call[t].version)
    <3>1. ~(call[t].pc = "create" \/ (call[t].op = "start" /\ call[t].pc \in {"read", "replace"}))
      BY <1>0, <2>3 DEF BasedOn
    <3> QED BY <1>3, <2>1, <3>1 DEF BasedOn
  <2> QED BY <2>2, <2>3
<1>4. ASSUME NEW t \in Thread, call'[t].op # "drive",
             ~(call'[t].pc = "create"
               \/ (call'[t].op = "start" /\ call'[t].pc \in {"read", "replace"}))
      PROVE  BasedOn(call[t])' /\ Waited(call[t])'
  BY <1>4 DEF BasedOn, Waited
<1>5. ASSUME NEW t \in Thread, DriveStep(t), call'[t].op = "drive"
      PROVE  Waited(call[t])'
  <2> DEFINE r == thr[t].run
  <2>1. /\ call[t].pc = "driving" /\ call'[t].pc = "driving"
        /\ call'[t].run = call[t].run /\ call[t].op = "drive"
        /\ call'[t].awaits = IF At(t, "release")' THEN Awaited(run'[r]) ELSE 0
    BY <1>0, <1>5 DEF DriveStep, InCall, CallRecord
  <2>2. ~At(t, "idle") /\ r = call[t].run
    BY <2>1 DEF CallsDrive, InCall, Driven
  <2>3. r \in Run
    BY <2>2 DEF Inductive, DriversHaveRuns
  <2>4. PICK q \in Run : q = r
    BY <2>3
  <2>5. ASSUME call'[t].awaits > 0
        PROVE  Ready(call[t].run, call[t].awaits)'
    <3>1. /\ run'[q].status = "awaiting_human" /\ run'[q].reason = "approval_required"
          /\ call'[t].awaits = run'[q].iteration
      BY <2>1, <2>4, <2>5 DEF Awaited
    <3>2. run'[q].node = "hitl"
      BY <3>1 DEF Settled, Awaiting
    <3>3. Passed(run[q].candidate)'
      BY <3>1, <3>2 DEF Settled, Unapproved
    <3>4. run'[q].iteration \in Nat
      BY DEF TypeOK, RunState
    <3>5. run'[q].iteration >= run'[q].iteration
      BY <3>4
    <3>6. call'[t].run = q
      BY <2>1, <2>2, <2>4
    <3> QED BY <3>1, <3>2, <3>3, <3>5, <3>6 DEF Ready, Created, ExternalNode
  <2> QED BY <2>1, <2>5 DEF Waited
<1>6. ASSUME NEW t \in Thread, CallStep(t)
      PROVE  BasedOn(call[t])' /\ Waited(call[t])'
  <2>1. Waited(call[t])'
    <3>1. CASE DriveStep(t) /\ call'[t].op = "drive"
      BY <1>5, <3>1
    <3>2. CASE call'[t].op # "drive"
      BY <3>2 DEF Waited
    <3>3. CASE ~DriveStep(t) /\ call'[t].op = "drive"
      <4>1. /\ call[t].op = "drive" /\ call'[t].run = call[t].run
            /\ call'[t].awaits = call[t].awaits
            /\ call'[t].pc = "decide" => call[t].awaits > 0
        BY <1>6, <3>3, CallsHold
      <4> QED BY <1>1, <4>1
    <3> QED BY <3>1, <3>2, <3>3
  <2>2. BasedOn(call[t])'
    <3> SUFFICES ASSUME call'[t].pc = "create"
                        \/ (call'[t].op = "start" /\ call'[t].pc \in {"read", "replace"})
                 PROVE  BasedOn(call[t])'
      BY DEF BasedOn
    <3>1. CASE call'[t].version = active[Ch] /\ active[Ch] # None
      <4>1. Exists(active[Ch])
        BY <3>1, Evolvers DEF Settled
      <4>2. PICK v \in Version : v = active[Ch]
        BY <4>1 DEF Exists
      <4> QED BY <1>2, <3>1, <4>1, <4>2
    <3>2. CASE /\ call'[t].version = run[SeedOf[t]].candidate
               /\ run[SeedOf[t]].candidate # None
      <4>1. SeedOf[t] \in Run
        BY RsiAssumption DEF RsiAssumption
      <4>2. Exists(run[SeedOf[t]].candidate)
        BY <3>2, <4>1 DEF Inductive, CandidatesAreOwn
      <4>3. PICK v \in Version : v = run[SeedOf[t]].candidate
        BY <4>2 DEF Exists
      <4> QED BY <1>2, <3>2, <4>2, <4>3
    <3>3. CASE /\ call'[t].version = call[t].version
               /\ call[t].op = "start" /\ call[t].pc \in {"read", "replace"}
      <4>1. Exists(call[t].version)
        BY <1>0, <3>3 DEF BasedOn
      <4>2. PICK v \in Version : v = call[t].version
        BY <4>1 DEF Exists
      <4> QED BY <1>2, <3>3, <4>1, <4>2
    <3> QED BY <1>6, <3>1, <3>2, <3>3, CallsHold
  <2> QED BY <2>1, <2>2
<1>7. ASSUME NEW t \in Thread, NEW op \in Calls, NEW r \in Run, Begin(t, op, r)
      PROVE  BasedOn(call[t])' /\ Waited(call[t])'
  <2>1. /\ call'[t].op = op /\ call'[t].pc = FirstStep(op) /\ call'[t].awaits = 0
    BY <1>0, <1>7 DEF Begin, NoCall
  <2>2. /\ FirstStep(op) # "create" /\ op = "drive" => FirstStep(op) # "decide"
    BY DEF FirstStep
  <2>3. op = "start" => FirstStep(op) = "channel"
    BY DEF FirstStep
  <2>4. BasedOn(call[t])'
    BY <2>1, <2>2, <2>3 DEF BasedOn, FirstStep
  <2>5. Waited(call[t])'
    BY <2>1, <2>2, FirstStep("drive") = "drive" DEF Waited, FirstStep
  <2> QED BY <2>4, <2>5
<1>8. ASSUME NEW t \in Thread
      PROVE  \/ call'[t] = call[t] \/ CallStep(t) \/ call'[t] = NoCall
             \/ \E op \in Calls, r \in Run : Begin(t, op, r)
  <2>1. ASSUME NEW u \in Thread, CallStep(u), u # t
        PROVE  call'[t] = call[t]
    BY <2>1, CallGoes
  <2>2. ASSUME NEW u \in Thread, NEW op \in Calls, NEW r \in Run, Begin(u, op, r), u # t
        PROVE  call'[t] = call[t]
    BY <1>0, <2>2 DEF Begin
  <2>3. CASE \E w \in Worker : ProcessDies(w)
    BY <2>3 DEF ProcessDies
  <2> QED
    BY <2>1, <2>2, <2>3 DEF RsiNext, OperateDirectly, Elapse, rsiVars
<1>9. ASSUME NEW t \in Thread, call'[t] = NoCall
      PROVE  BasedOn(call[t])' /\ Waited(call[t])'
  BY <1>0, <1>4, <1>9 DEF NoCall
<1> QED BY <1>3, <1>6, <1>7, <1>8, <1>9

(* The two invariants together, while no call is ever let go.              *)
LEMMA GateInvariant ==
  ASSUME LeaseHonoured
  PROVE  RsiSpec => []GateInductive
<1>1. RsiInit => GateInductive
  <2> SUFFICES ASSUME RsiInit PROVE GateInductive
    OBVIOUS
  <2>1. \A t \in Thread : BasedOn(call[t]) /\ Waited(call[t])
    BY DEF RsiInit, BasedOn, Waited, NoCall
  <2>2. \A r \in Evolver : ~Created(r)
    BY Evolvers DEF RsiInit, Init, Created, Absent
  <2>3. Beaten
    BY DEF RsiInit, Init, RegistryInit, Beaten, Passed
  <2> QED BY <2>1, <2>2, <2>3 DEF GateInductive
<1>2. ASSUME TypeOK, TypeOK', Inductive, CallsOK, RestTypeOK, CallsDrive, LeaseInductive,
             Settled, Settled', GateInductive, [RsiNext]_rsiVars
      PROVE  GateInductive'
  <2>1. [Next]_vars
    BY <1>2, StepsImplement
  <2>2. /\ \A v \in Version : Exists(v) => Exists(v)'
        /\ \A r \in Evolver : Created(r)' => Exists(baseline[r])'
    BY <1>2, <2>1, BaselinesStay, SupervisorAssumption, RegistryAssumption
  <2>3. Beaten'
    BY <1>2, BeatenStays, SupervisorAssumption, RegistryAssumption
  <2>4. \A t \in Thread : BasedOn(call[t])' /\ Waited(call[t])'
    BY <1>2, <2>1, <2>2, CallsStay, SupervisorAssumption, RegistryAssumption
  <2> QED BY <2>2, <2>3, <2>4 DEF GateInductive
<1>3. RsiSpec => []LeaseInductive /\ []Settled
  BY LeaseHonoured, RsiImplements, LeaseInvariant, SettledInvariant, PTL DEF ImplementsSupervisor
<1> QED BY <1>1, <1>2, <1>3, RsiInvariant, DrivesInvariant, PTL DEF RsiSpec

(* An approval nobody gave by hand is of a candidate that beat its         *)
(* baseline, unless the run has gone to a later iteration since drive()    *)
(* returned: of those the code promises nothing.                           *)
THEOREM AutomaticApprovalsAreEarned ==
  ASSUME LeaseHonoured
  PROVE  RsiSpec => []AutoApprovalFacesTheGate
<1>1. ASSUME TypeOK, CallsOK, Inductive, GateInductive
      PROVE  AutoApprovalFacesTheGate
  <2> SUFFICES ASSUME NEW t \in Thread, InCall(t, "decide"), call[t].op = "drive",
                      ~(run[call[t].run].iteration > call[t].awaits)
               PROVE  /\ run[call[t].run].candidate # None
                      /\ Eligible(run[call[t].run].candidate, baseline[call[t].run])
    BY DEF AutoApprovalFacesTheGate, Beats, Eligible
  <2> DEFINE r == call[t].run
  <2>1. r \in Evolver /\ r \in Run
    BY <1>1, Evolvers DEF CallsOK, WellCalled, InCall, Generic
  <2>2. Passed(run[r].candidate)
    <3>1. Ready(r, call[t].awaits)
      BY <1>1 DEF GateInductive, Waited, InCall
    <3>2. run[r].iteration \in Nat /\ call[t].awaits \in Nat
      BY <1>1, <2>1 DEF TypeOK, RunState, CallsOK, CallRecord
    <3>3. run[r].iteration = call[t].awaits
      BY <3>1, <3>2 DEF Ready
    <3> QED BY <3>1, <3>3 DEF Ready
  <2>3. run[r].candidate # None
    BY <2>2, RegistryAssumption DEF RegistryAssumption, Passed
  <2>4. ver[run[r].candidate].run = r
    BY <1>1, <2>1, <2>3 DEF Inductive, CandidatesAreOwn
  <2> QED BY <1>1, <2>1, <2>2, <2>3, <2>4 DEF GateInductive, Beaten, Passed
<1> QED BY <1>1, LeaseHonoured, GateInvariant, RsiInvariant, PTL

(* What an evolver run released and verification passed beat the baseline  *)
(* frozen in that run, for as long as the history is kept.                 *)
THEOREM VerifiedReleasesBeatTheBaseline ==
  ASSUME LeaseHonoured
  PROVE  RsiSpec => []ReleasesBeatTheirBaseline
<1>1. ASSUME ReleasesAreOwn, GateInductive
      PROVE  ReleasesBeatTheirBaseline
  <2> SUFFICES ASSUME NEW i \in DOMAIN history[Ch], history[Ch][i].action = "promote",
                      history[Ch][i].run \in Evolver,
                      ver[history[Ch][i].version].validation = "passed"
               PROVE  Eligible(history[Ch][i].version, baseline[history[Ch][i].run])
    BY DEF ReleasesBeatTheirBaseline, Beats, Eligible
  <2>0. Ch \in Channel
    BY Evolvers DEF Evolver
  <2>1. /\ history[Ch][i].version \in Version
        /\ ver[history[Ch][i].version].run = history[Ch][i].run
    BY <1>1, <2>0 DEF ReleasesAreOwn, Exists
  <2> QED BY <1>1, <2>1 DEF GateInductive, Beaten, Passed
<1> QED
  BY <1>1, LeaseHonoured, GateInvariant, RsiImplements, Implements, RegistryOwnership, PTL
     DEF ImplementsSupervisor

------------------------------------------------------------------------------
(* What the lease guarantees of a supervisor it guarantees of experiments: *)
(* whatever calls two processes make, a run has one driver, a verdict is   *)
(* of the artifact that was examined, no result is thrown away, no drive   *)
(* raises without a cause, and a run goes through its life as the abstract *)
(* specification says.                                                     *)
THEOREM ExperimentsKeepTheLease ==
  ASSUME LeaseHonoured
  PROVE  RsiSpec => /\ []OneDriver /\ []VerdictOnExaminedArtifact
                    /\ []AnswersAreTaken /\ []RaisesHaveCauses
                    /\ RecoveryNeedsDecision /\ LifecycleSpec
BY LeaseHonoured, RsiImplements, OneDriverPerRun, VerdictsAreOfTheExamined,
   ResultsAreAccepted, DrivesRaiseForAReason, HumansResolveRecovery, LifecycleImplemented, PTL
   DEF ImplementsSupervisor

==============================================================================
