------------------------------ MODULE RsiProofs ------------------------------
(***************************************************************************)
(* Proofs about RsiExperiment.tla: an experiment is a use of the           *)
(* supervisor, so that everything proved of the supervisor holds of it;    *)
(* and SKILL.md shows released versions only.                              *)
(***************************************************************************)
EXTENDS RsiProperties, SupervisorProofs

(* A call is about an experiment's run, an evolver run if it is a call of  *)
(* rsi.py, and decides or rolls back only where the operators may.         *)
WellCalled(c) ==
  /\ c.pc # "idle" => c.run \in Evolver \cup Bootstrap
  /\ c.pc # "idle" /\ c.op \notin Generic => c.run \in Evolver
  /\ c.pc = "decide" => "decide" \in Commands /\ c.op \notin Generic
  /\ c.pc \in {"ask", "request"} => "rollback" \in Commands

CallsOK == call \in [Thread -> CallRecord] /\ \A t \in Thread : WellCalled(call[t])

(* What the calls are about.                                               *)
LEMMA Evolvers ==
  /\ Evolver \subseteq Run /\ Bootstrap \subseteq Run
  /\ \A r \in Evolver \cup Bootstrap : ChannelOf[r] = Ch
  /\ Thread # {} => Ch \in Channel
<1>1. Evolver \subseteq Run /\ Bootstrap \subseteq Run
  BY RsiAssumption DEF RsiAssumption, Evolver, Bootstrap
<1>2. /\ \A t, u \in Thread : ChannelOf[EvolverOf[t]] = ChannelOf[EvolverOf[u]]
      /\ \A t \in Thread : ChannelOf[SeedOf[t]] = ChannelOf[EvolverOf[t]]
  BY RsiAssumption DEF RsiAssumption
<1>3. Thread # {} => (CHOOSE t \in Thread : TRUE) \in Thread
  OBVIOUS
<1>4. \A r \in Evolver \cup Bootstrap : ChannelOf[r] = Ch
  BY <1>2, <1>3 DEF Evolver, Bootstrap, Ch
<1>5. Thread # {} => Ch \in Channel
  BY <1>3, RsiAssumption, RegistryAssumption DEF RsiAssumption, RegistryAssumption, Ch
<1> QED BY <1>1, <1>4, <1>5

------------------------------------------------------------------------------
(* Every step of an experiment is a step of the supervisor, or leaves the  *)
(* supervisor's variables alone.                                           *)
LEMMA CallStepsImplement ==
  ASSUME CallsOK, NEW t \in Thread, CallStep(t)
  PROVE  [Next]_vars
<1> USE DEF CallsOK
<1>1. /\ ~InCall(t, "idle") => call[t].run \in Run /\ ChannelOf[call[t].run] = Ch
      /\ SeedOf[t] \in Run /\ EvolverOf[t] \in Run
  BY Evolvers, RsiAssumption DEF RsiAssumption, WellCalled, InCall
<1>2. CASE ReadChannel(t) \/ LeaseUnavailable(t) \/ DecideRefused(t) \/ AskRefused(t)
           \/ ReadActive(t) \/ MaterializeRaises(t) \/ ReplaceSkill(t)
  BY <1>2 DEF ReadChannel, LeaseUnavailable, DecideRefused, AskRefused, ReadActive,
       MaterializeRaises, ReplaceSkill
<1>3. CASE CreateSeed(t) \/ CreateEvolver(t)
  <2>1. \E r \in Run : CreateRun(r)
    BY <1>1, <1>3 DEF CreateSeed, CreateEvolver
  <2> QED BY <2>1 DEF Next, Operate, Steer
<1>4. CASE BeginDrive(t)
  <2>1. Acquire(t, Driven(t)) /\ Driven(t) \in Run
    BY <1>1, <1>4 DEF BeginDrive, Driven, InCall
  <2> QED BY <2>1 DEF Next
<1>5. CASE DriveStep(t)
  <2>1. CASE AdapterReturns(t)
    BY <2>1 DEF AdapterReturns, Next, Drive
  <2>2. CASE VerifierReturns(t)
    <3> DEFINE passed == IF thr[t].run \in Evolver
                         THEN Eligible(thr[t].held, baseline[thr[t].run]) ELSE TRUE
    <3>1. passed \in BOOLEAN
      BY DEF Eligible
    <3>2. CompleteVerify(t, passed)
      BY <2>2 DEF VerifierReturns
    <3> HIDE DEF passed
    <3> QED BY <3>1, <3>2 DEF Next, Drive
  <2>3. CASE \/ Restore(t) \/ MarkRecoveryRequired(t) \/ Dispatch(t) \/ PauseAtBoundary(t)
             \/ \E node \in ExternalNode : BeginExternalStep(t, node)
             \/ FailExternalStep(t) \/ RequestHuman(t)
             \/ PromoteCandidate(t) \/ PromotionConflict(t) \/ RecordConflict(t)
             \/ ReadRollbackTarget(t) \/ ReadRollbackFrom(t) \/ CommitRollback(t)
    BY <2>3 DEF Next, Drive
  <2> QED BY <1>5, <2>1, <2>2, <2>3 DEF DriveStep
<1>6. CASE DriveRaises(t) \/ DriveReturns(t)
  BY <1>6 DEF DriveRaises, DriveReturns, Next, Drive
<1>7. CASE Decide(t)
  <2>1. Approve(call[t].run) /\ "decide" \in Commands
    BY <1>7 DEF Decide, WellCalled, InCall
  <2> QED BY <1>1, <1>7, <2>1 DEF Next, Operate, Steer, Decide, InCall
<1>8. CASE Ask(t)
  <2>1. "rollback" \in Commands
    BY <1>8 DEF Ask, WellCalled, InCall
  <2>2. PICK target \in Nameable(Ch) : AskRollback(call[t].run, target)
    BY <1>8 DEF Ask
  <2>3. call[t].run \in Run /\ ChannelOf[call[t].run] = Ch
    BY <1>1, <1>8 DEF Ask, InCall
  <2> QED BY <2>1, <2>2, <2>3 DEF Next, Operate, Steer
<1>9. CASE Request(t)
  <2>1. "rollback" \in Commands /\ RequestRollback(call[t].run)
    BY <1>9 DEF Request, WellCalled, InCall
  <2> QED BY <1>1, <1>9, <2>1 DEF Next, Operate, Steer, Request, InCall
<1> QED
  BY <1>2, <1>3, <1>4, <1>5, <1>6, <1>7, <1>8, <1>9 DEF CallStep

LEMMA StepsImplement ==
  ASSUME CallsOK, [RsiNext]_rsiVars
  PROVE  [Next]_vars
<1>1. CASE \E t \in Thread : CallStep(t)
  BY <1>1, CallStepsImplement
<1>2. CASE \E t \in Thread, op \in Calls, r \in Run : Begin(t, op, r)
  BY <1>2 DEF Begin
<1>3. CASE \E r \in Run : OperateDirectly(r)
  BY <1>3 DEF OperateDirectly, Next, Operate
<1>4. CASE Elapse
  BY <1>4 DEF Elapse, Next
<1>5. CASE \E w \in Worker : ProcessDies(w)
  BY <1>5 DEF ProcessDies, Next
<1>6. CASE UNCHANGED rsiVars
  BY <1>6 DEF rsiVars
<1> QED BY <1>1, <1>2, <1>3, <1>4, <1>5, <1>6 DEF RsiNext

------------------------------------------------------------------------------
(* Types, and the calls' side conditions, step by step.                    *)

RestTypeOK ==
  /\ baseline \in [Run -> Version \cup {None}]
  /\ score \in [Version -> Score \cup {SeedScore}]
  /\ skill \in Version \cup {None}
  /\ made \in [calls: Nat, commands: Nat] /\ behind \subseteq {"overtaken", "failed", "commanded"}

(* One call goes on.                                                       *)
LEMMA OneCall ==
  ASSUME CallsOK, NEW t \in Thread, NEW c \in CallRecord, WellCalled(c),
         call' = [call EXCEPT ![t] = c]
  PROVE  CallsOK'
BY DEF CallsOK, WellCalled

(* ... at another place, ...                                               *)
LEMMA GoesTo ==
  ASSUME CallsOK, NEW t \in Thread, ~InCall(t, "idle"),
         NEW pc \in {"idle", "channel", "seed", "drive", "driving", "read", "replace", "create"},
         CallGoto(t, pc)
  PROVE  CallsOK'
<1> DEFINE c == [call[t] EXCEPT !.pc = pc]
<1>1. c \in CallRecord /\ WellCalled(c)
  BY DEF CallsOK, CallRecord, CallPc, WellCalled, InCall
<1>2. call' = [call EXCEPT ![t] = c]
  BY DEF CallGoto, CallsOK
<1> HIDE DEF c
<1> QED BY <1>1, <1>2, OneCall

(* ... or ends.                                                            *)
LEMMA NoCallOK == NoCall \in CallRecord /\ WellCalled(NoCall)
BY DEF NoCall, CallRecord, CallPc, WellCalled

LEMMA Ends ==
  ASSUME CallsOK, NEW t \in Thread, CallEnds(t)
  PROVE  CallsOK'
BY NoCallOK, OneCall DEF CallEnds

LEMMA CallStepKeeps ==
  ASSUME TypeOK, Inductive, CallsOK, RestTypeOK, TypeOK', NEW t \in Thread, CallStep(t)
  PROVE  CallsOK' /\ RestTypeOK'
<1> DEFINE k == call[t]
<1>0. /\ k \in CallRecord /\ WellCalled(k)
      /\ ~InCall(t, "idle") => k.run \in Evolver \cup Bootstrap /\ k.run \in Run
      /\ SeedOf[t] \in Run /\ EvolverOf[t] \in Run /\ Ch \in Channel
  BY Evolvers, RsiAssumption DEF CallsOK, RsiAssumption, WellCalled, InCall
<1>00. active[Ch] \in Version \cup {None} /\ run[SeedOf[t]].candidate \in Version \cup {None}
  BY <1>0 DEF TypeOK, RegistryTypeOK, RunState
<1>1. CASE ReadChannel(t)
  <2> DEFINE c == IF active[Ch] = None THEN [k EXCEPT !.pc = "seed"]
                  ELSE [k EXCEPT !.pc = "read", !.version = active[Ch]]
  <2>1. c \in CallRecord /\ WellCalled(c)
    BY <1>0, <1>00, <1>1 DEF CallRecord, CallPc, WellCalled, ReadChannel, InCall
  <2>2. call' = [call EXCEPT ![t] = c]
    BY <1>1 DEF ReadChannel, CallsOK
  <2> HIDE DEF c
  <2> QED BY <1>1, <2>1, <2>2, OneCall DEF ReadChannel, RestTypeOK, file
<1>2. CASE CreateSeed(t)
  BY <1>2, GoesTo DEF CreateSeed, InCall, RestTypeOK, file
<1>3. CASE CreateEvolver(t)
  <2>1. k.version \in Version \cup {None}
    BY <1>0 DEF CallRecord
  <2> QED BY <1>3, <2>1, Ends DEF CreateEvolver, RestTypeOK, file
<1>4. CASE BeginDrive(t)
  BY <1>4, GoesTo DEF BeginDrive, InCall, RestTypeOK, file
<1>5. CASE LeaseUnavailable(t) \/ DecideRefused(t) \/ AskRefused(t)
  BY <1>5, Ends DEF LeaseUnavailable, DecideRefused, AskRefused, RestTypeOK, file
<1>6. CASE DriveStep(t)
  <2> DEFINE a == IF At(t, "release")' THEN Awaited(run'[thr[t].run]) ELSE 0
             c == [k EXCEPT !.awaits = a]
  <2>1. a \in Nat
    <3>1. ~At(t, "idle")
      BY <1>6 DEF DriveStep, AdapterReturns, VerifierReturns, CompleteExecute, CompleteVerify,
           Restore, MarkRecoveryRequired, Dispatch, PauseAtBoundary, BeginExternalStep,
           FailExternalStep, RequestHuman, PromoteCandidate, PromotionConflict, RecordConflict,
           ReadRollbackTarget, ReadRollbackFrom, CommitRollback, ExternalNode, At
    <3>2. thr[t].run \in Run
      BY <3>1 DEF Inductive, DriversHaveRuns
    <3>3. run'[thr[t].run].iteration \in Nat
      BY <3>2 DEF TypeOK, RunState
    <3> QED BY <3>3 DEF Awaited
  <2>2. call' = [call EXCEPT ![t] = c]
    BY <1>6 DEF DriveStep, CallsOK
  <2> HIDE DEF a
  <2>3. c \in CallRecord /\ WellCalled(c)
    BY <1>0, <2>1 DEF CallRecord, WellCalled
  <2>4. score' \in [Version -> Score \cup {SeedScore}]
    <3>1. CASE AdapterReturns(t)
      BY <3>1 DEF AdapterReturns, RestTypeOK
    <3>2. CASE UNCHANGED score
      BY <3>2 DEF RestTypeOK
    <3> QED BY <1>6, <3>1, <3>2 DEF DriveStep, VerifierReturns
  <2> HIDE DEF c
  <2> QED BY <1>6, <2>2, <2>3, <2>4, OneCall DEF DriveStep, RestTypeOK, file
<1>7. CASE DriveRaises(t)
  <2> DEFINE c == [k EXCEPT !.raised = TRUE]
  <2>1. c \in CallRecord /\ WellCalled(c)
    BY <1>0 DEF CallRecord, WellCalled
  <2>2. call' = [call EXCEPT ![t] = c]
    BY <1>7 DEF DriveRaises, CallsOK
  <2> HIDE DEF c
  <2> QED BY <1>7, <2>1, <2>2, OneCall DEF DriveRaises, RestTypeOK, file
<1>8. CASE DriveReturns(t)
  <2> DEFINE ends == k.raised \/ (k.op = "start" /\ run[SeedOf[t]].candidate = None)
             c == IF ends THEN NoCall ELSE AfterDrive(t)
  <2>1. call' = [call EXCEPT ![t] = c]
    BY <1>8 DEF DriveReturns, CallsOK
  <2>2. AfterDrive(t) \in CallRecord /\ WellCalled(AfterDrive(t))
    <3>1. k.pc = "driving" /\ k.run \in Evolver \cup Bootstrap
      BY <1>0, <1>8 DEF DriveReturns, InCall
    <3>2. k.op = "drive" => "decide" \in Commands
      BY <1>0, RsiAssumption DEF RsiAssumption, CallRecord
    <3>3. CASE k.op = "start"
      BY <1>0, <1>00, <3>1, <3>3 DEF AfterDrive, CallRecord, CallPc, WellCalled, Generic
    <3>4. CASE k.op = "drive" /\ k.awaits > 0
      BY <1>0, <3>1, <3>2, <3>4 DEF AfterDrive, CallRecord, CallPc, WellCalled, Generic
    <3>5. CASE k.op \in Generic
      <4>1. AfterDrive(t) = NoCall
        BY <3>5 DEF AfterDrive, Generic
      <4> QED BY <4>1, NoCallOK
    <3>6. CASE k.op \notin Generic /\ k.op # "start" /\ ~(k.op = "drive" /\ k.awaits > 0)
      <4>1. AfterDrive(t) = [k EXCEPT !.pc = "read"]
        BY <3>6 DEF AfterDrive
      <4> QED BY <1>0, <3>1, <4>1 DEF CallRecord, CallPc, WellCalled
    <3> QED BY <3>3, <3>4, <3>5, <3>6
  <2>3. c \in CallRecord /\ WellCalled(c)
    BY <2>2, NoCallOK
  <2> HIDE DEF c
  <2> QED BY <1>8, <2>1, <2>3, OneCall DEF DriveReturns, Failing, RestTypeOK
<1>9. CASE Decide(t)
  <2> DEFINE c == [k EXCEPT !.pc = "drive", !.op = "approve"]
  <2>1. c \in CallRecord /\ WellCalled(c)
    BY <1>0, <1>9 DEF CallRecord, CallPc, WellCalled, Generic, Decide, InCall
  <2>2. call' = [call EXCEPT ![t] = c]
    BY <1>9 DEF Decide, CallsOK
  <2> HIDE DEF c
  <2> QED BY <1>9, <2>1, <2>2, OneCall DEF Decide, RestTypeOK, file
<1>10. CASE Ask(t)
  <2> DEFINE c == [k EXCEPT !.pc = "request"]
  <2>1. c \in CallRecord /\ WellCalled(c)
    BY <1>0, <1>10 DEF CallRecord, CallPc, WellCalled, Ask, InCall
  <2>2. call' = [call EXCEPT ![t] = c]
    BY <1>10 DEF Ask, CallGoto, CallsOK
  <2> HIDE DEF c
  <2> QED BY <1>10, <2>1, <2>2, OneCall DEF Ask, RestTypeOK, file
<1>11. CASE Request(t)
  BY <1>11, GoesTo, Ends DEF Request, InCall, RestTypeOK, file
<1>12. CASE ReadActive(t)
  <2> DEFINE c == [k EXCEPT !.pc = "replace", !.read = active[Ch]]
  <2>1. c \in CallRecord /\ WellCalled(c)
    BY <1>0, <1>00, <1>12 DEF CallRecord, CallPc, WellCalled, ReadActive, InCall
  <2>2. call' = [call EXCEPT ![t] = c]
    BY <1>12 DEF ReadActive, CallsOK
  <2> HIDE DEF c
  <2> QED BY <1>12, <2>1, <2>2, OneCall DEF ReadActive, RestTypeOK, file
<1>13. CASE MaterializeRaises(t)
  BY <1>13, Ends DEF MaterializeRaises, Failing, RestTypeOK
<1>14. CASE ReplaceSkill(t)
  <2> DEFINE c == IF k.op = "start" THEN [k EXCEPT !.pc = "create"] ELSE NoCall
  <2>1. c \in CallRecord /\ WellCalled(c)
    BY <1>0, <1>14, NoCallOK DEF CallRecord, CallPc, WellCalled, ReplaceSkill, InCall
  <2>2. call' = [call EXCEPT ![t] = c]
    BY <1>14 DEF ReplaceSkill, CallsOK
  <2>3. k.read \in Version \cup {None}
    BY <1>0 DEF CallRecord
  <2> HIDE DEF c
  <2> QED BY <1>14, <2>1, <2>2, <2>3, OneCall DEF ReplaceSkill, RestTypeOK
<1> QED
  BY <1>1, <1>2, <1>3, <1>4, <1>5, <1>6, <1>7, <1>8, <1>9, <1>10, <1>11, <1>12, <1>13, <1>14
  DEF CallStep

(* A call begins.                                                          *)
LEMMA BeginsOK ==
  ASSUME CallsOK, NEW t \in Thread, NEW op \in Calls, NEW r \in Run, Begin(t, op, r)
  PROVE  CallsOK'
<1> DEFINE c == [NoCall EXCEPT !.op = op, !.pc = FirstStep(op), !.run = r]
<1>1. op = "start" => op \notin Generic
  BY DEF Generic
<1>2. r \in Evolver \cup Bootstrap /\ (op \notin Generic => r \in Evolver)
  BY DEF Begin, Evolver
<1>3. c \in CallRecord
  <2>1. FirstStep(op) \in CallPc
    BY DEF FirstStep, CallPc
  <2>2. NoCall \in CallRecord
    BY DEF NoCall, CallRecord, CallPc
  <2>3. /\ [NoCall EXCEPT !.op = op] \in CallRecord
        /\ \A k \in CallRecord : [k EXCEPT !.pc = FirstStep(op)] \in CallRecord
        /\ \A k \in CallRecord : [k EXCEPT !.run = r] \in CallRecord
    BY <2>1, <2>2 DEF CallRecord
  <2> QED BY <2>3
<1>4. WellCalled(c)
  <2>1. FirstStep(op) = "decide" => op = "approve" /\ op \notin Generic
    BY DEF FirstStep, Generic
  <2>2. FirstStep(op) = "ask" => op \in {"rollback", "apiRollback"}
    BY DEF FirstStep
  <2>3. FirstStep(op) # "request"
    BY DEF FirstStep
  <2>4. c.pc = FirstStep(op) /\ c.run = r /\ c.op = op
    BY DEF NoCall
  <2> QED BY <1>2, <2>1, <2>2, <2>3, <2>4, RsiAssumption DEF RsiAssumption, WellCalled
<1>5. call' = [call EXCEPT ![t] = c]
  BY DEF Begin
<1> HIDE DEF c
<1> QED BY <1>3, <1>4, <1>5, OneCall

LEMMA StepKeeps ==
  ASSUME TypeOK, Inductive, CallsOK, RestTypeOK, TypeOK', [RsiNext]_rsiVars
  PROVE  CallsOK' /\ RestTypeOK'
<1>1. CASE \E t \in Thread : CallStep(t)
  BY <1>1, CallStepKeeps
<1>2. CASE \E t \in Thread, op \in Calls, r \in Run : Begin(t, op, r)
  <2>1. CallsOK'
    BY <1>2, BeginsOK
  <2> QED BY <1>2, <2>1 DEF Begin, RestTypeOK, file
<1>3. CASE (\E r \in Run : OperateDirectly(r)) \/ Elapse \/ UNCHANGED rsiVars
  BY <1>3 DEF OperateDirectly, Elapse, CallsOK, WellCalled, RestTypeOK, rsiVars, file
<1>4. ASSUME NEW w \in Worker, ProcessDies(w)
      PROVE  CallsOK' /\ RestTypeOK'
  <2>1. \A t \in Thread : call'[t] \in {NoCall, call[t]}
    BY <1>4 DEF ProcessDies
  <2>2. \A t \in Thread : call[t] \in CallRecord /\ WellCalled(call[t])
    BY DEF CallsOK
  <2>3. \A t \in Thread : call'[t] \in CallRecord /\ WellCalled(call'[t])
    BY <2>1, <2>2, NoCallOK
  <2>4. CallsOK'
    BY <1>4, <2>3 DEF ProcessDies, CallsOK, WellCalled
  <2>5. behind' \subseteq {"overtaken", "failed", "commanded"}
    BY <1>4 DEF ProcessDies, Failing, RestTypeOK
  <2> QED BY <1>4, <2>4, <2>5 DEF ProcessDies, RestTypeOK
<1> QED BY <1>1, <1>2, <1>3, <1>4 DEF RsiNext

------------------------------------------------------------------------------
(* The invariant: the supervisor's own, and the calls' side conditions.    *)
THEOREM RsiInvariant == RsiSpec => [](TypeOK /\ Inductive /\ CallsOK /\ RestTypeOK)
<1>1. RsiInit => TypeOK /\ Inductive /\ CallsOK /\ RestTypeOK
  <2> SUFFICES ASSUME RsiInit PROVE TypeOK /\ Inductive /\ CallsOK /\ RestTypeOK
    OBVIOUS
  <2>1. TypeOK /\ Inductive
    BY Initially, SupervisorAssumption, RegistryAssumption DEF RsiInit
  <2>3. CallsOK
    BY NoCallOK DEF RsiInit, CallsOK, WellCalled
  <2> QED BY <2>1, <2>3 DEF RsiInit, RestTypeOK
<1>2. ASSUME TypeOK, Inductive, CallsOK, RestTypeOK, [RsiNext]_rsiVars
      PROVE  TypeOK' /\ Inductive' /\ CallsOK' /\ RestTypeOK'
  <2>1. [Next]_vars
    BY <1>2, StepsImplement
  <2>2. TypeOK' /\ Inductive'
    BY <1>2, <2>1, Always, SupervisorAssumption, RegistryAssumption
  <2> QED BY <1>2, <2>2, StepKeeps
<1> QED BY <1>1, <1>2, PTL DEF RsiSpec

(* An experiment's variables hold what rsi.py puts there.                  *)
THEOREM RsiTypes == RsiSpec => []RsiTypeOK
<1>1. TypeOK /\ CallsOK /\ RestTypeOK => RsiTypeOK
  BY DEF CallsOK, RestTypeOK, RsiTypeOK
<1> QED BY <1>1, RsiInvariant, PTL

(* Every experiment is an execution of the supervisor's specification:     *)
(* rsi.py changes runs, leases and releases in no way of its own.          *)
THEOREM RsiImplements == RsiSpec => ImplementsSupervisor
<1>1. RsiInit => Init
  BY DEF RsiInit
<1>2. CallsOK /\ [RsiNext]_rsiVars => [Next]_vars
  BY StepsImplement
<1> QED BY <1>1, <1>2, RsiInvariant, PTL DEF RsiSpec, Spec, ImplementsSupervisor

(* So automatic approval, seeding and the calls' retries open no way       *)
(* around the release gate, and leave no gap in the channel's history.     *)
THEOREM RsiReleases == RsiSpec => []ReleaseGate /\ []HistoryChain
  BY RsiImplements, Gate, ReleaseHistory, PTL DEF ImplementsSupervisor

------------------------------------------------------------------------------
(* SKILL.md.                                                               *)

(* A call that is about to replace SKILL.md has read a released version,   *)
(* however long ago.                                                       *)
ShownWasReleased ==
  /\ \A t \in Thread : InCall(t, "replace") => call[t].read \in Released(Ch)
  /\ skill # None => Ch \in Channel /\ skill \in Released(Ch)

LEMMA CallStepShows ==
  ASSUME CallsOK, RegistryTypeOK, HistoryChain, [RegistryNext]_registry, ShownWasReleased,
         NEW t \in Thread, CallStep(t)
  PROVE  ShownWasReleased'
<1>1. Ch \in Channel
  BY Evolvers
<1>2. Released(Ch) \subseteq Released(Ch)'
  BY <1>1, ReleasedGrows
<1>3. \A u \in Thread : u # t => call'[u] = call[u]
  BY DEF CallsOK, CallStep, ReadChannel, CreateSeed, CreateEvolver, BeginDrive, LeaseUnavailable,
     DriveStep, DriveRaises, DriveReturns, Decide, DecideRefused, Ask, AskRefused, Request,
     ReadActive, MaterializeRaises, ReplaceSkill, CallGoto, CallEnds
<1>4. CASE ReadActive(t)
  <2>1. call'[t].read \in Released(Ch) /\ skill' = skill
    BY <1>1, <1>4, ActiveIsReleased DEF ReadActive, CallsOK, CallRecord, file
  <2> QED BY <1>1, <1>2, <1>3, <2>1 DEF ShownWasReleased, InCall
<1>5. CASE ReplaceSkill(t)
  <2>1. skill' \in Released(Ch)
    BY <1>5 DEF ReplaceSkill, ShownWasReleased
  <2>2. call'[t].pc # "replace"
    BY <1>5 DEF ReplaceSkill, CallsOK, CallRecord, NoCall
  <2> QED BY <1>1, <1>2, <1>3, <2>1, <2>2 DEF ShownWasReleased, InCall
<1>6. CASE ~ReadActive(t) /\ ~ReplaceSkill(t)
  <2>1. skill' = skill
    BY <1>6 DEF CallStep, ReadChannel, CreateSeed, CreateEvolver, BeginDrive, LeaseUnavailable,
       DriveStep, DriveRaises, DriveReturns, Decide, DecideRefused, Ask, AskRefused, Request,
       MaterializeRaises, file
  <2>2. call'[t].pc # "replace"
    <3>1. call[t] \in CallRecord /\ DOMAIN call = Thread
      BY DEF CallsOK
    <3>2. CASE CallEnds(t)
      BY <3>1, <3>2 DEF CallEnds, NoCall, CallRecord
    <3>3. CASE DriveStep(t) \/ DriveRaises(t)
      BY <3>1, <3>3 DEF DriveStep, DriveRaises, CallRecord, InCall
    <3>4. CASE DriveReturns(t)
      BY <3>1, <3>4, SMTT(30) DEF DriveReturns, AfterDrive, NoCall, CallRecord, InCall
    <3>5. CASE ReadChannel(t) \/ CreateSeed(t) \/ BeginDrive(t) \/ Decide(t) \/ Ask(t)
               \/ (Request(t) /\ ~CallEnds(t))
      BY <3>1, <3>5 DEF ReadChannel, CreateSeed, BeginDrive, Decide, Ask, Request, CallGoto,
         CallRecord
    <3> QED
      BY <1>6, <3>2, <3>3, <3>4, <3>5 DEF CallStep, CreateEvolver, LeaseUnavailable,
         DecideRefused, AskRefused, MaterializeRaises
  <2> QED BY <1>1, <1>2, <1>3, <2>1, <2>2 DEF ShownWasReleased, InCall
<1> QED BY <1>4, <1>5, <1>6

LEMMA StepShows ==
  ASSUME CallsOK, RegistryTypeOK, HistoryChain, [RegistryNext]_registry, ShownWasReleased,
         [RsiNext]_rsiVars
  PROVE  ShownWasReleased'
<1>1. CASE \E t \in Thread : CallStep(t)
  BY <1>1, CallStepShows
<1>2. ASSUME skill' = skill,
             \A t \in Thread : call'[t].pc = "replace" => call'[t] = call[t]
      PROVE  ShownWasReleased'
  <2>1. Ch \in Channel => Released(Ch) \subseteq Released(Ch)'
    BY ReleasedGrows
  <2> QED BY <1>2, <2>1, Evolvers DEF ShownWasReleased, InCall
<1>3. CASE \E t \in Thread, op \in Calls, r \in Run : Begin(t, op, r)
  <2>1. PICK t \in Thread, op \in Calls, r \in Run : Begin(t, op, r)
    BY <1>3
  <2>2. call'[t].pc # "replace"
    BY <2>1 DEF Begin, CallsOK, NoCall, FirstStep
  <2> QED BY <1>2, <2>1, <2>2 DEF Begin, CallsOK, file
<1>4. CASE (\E r \in Run : OperateDirectly(r)) \/ Elapse \/ UNCHANGED rsiVars
  BY <1>2, <1>4 DEF OperateDirectly, Elapse, rsiVars, file
<1>5. CASE \E w \in Worker : ProcessDies(w)
  BY <1>2, <1>5 DEF ProcessDies, NoCall
<1> QED BY <1>1, <1>3, <1>4, <1>5 DEF RsiNext

LEMMA ShownInvariant == RsiSpec => []ShownWasReleased
<1>1. RsiInit => ShownWasReleased
  BY DEF RsiInit, ShownWasReleased, InCall, NoCall
<1>2. CallsOK /\ RegistryTypeOK /\ HistoryChain /\ [RegistryNext]_registry /\ ShownWasReleased
        /\ [RsiNext]_rsiVars => ShownWasReleased'
  BY StepShows
<1>3. TypeOK => RegistryTypeOK
  BY DEF TypeOK
<1>4. RsiSpec => [][RegistryNext]_registry
  BY RsiImplements, Implements, PTL DEF ImplementsSupervisor, RegistrySpec
<1> QED BY <1>1, <1>2, <1>3, <1>4, RsiInvariant, RsiReleases, PTL DEF RsiSpec

(* SKILL.md shows nothing that was never released.                         *)
THEOREM SkillShowsReleases == RsiSpec => []SkillWasReleased
<1>1. ShownWasReleased => SkillWasReleased
  BY DEF ShownWasReleased, SkillWasReleased
<1> QED BY <1>1, ShownInvariant, PTL

==============================================================================
