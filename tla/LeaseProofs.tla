----------------------------- MODULE LeaseProofs -----------------------------
(***************************************************************************)
(* What the supervisor guarantees when the lease is honoured: a lease      *)
(* lapses only when nobody drives under it, and every worker id has one    *)
(* thread.  Then two threads never drive one run, and what a driver has    *)
(* read of its run can only have been changed by an operator's command.    *)
(* At the end: a run that waits for an approval has a candidate that       *)
(* passed, which ExperimentProofs uses; the supervisor implements the life *)
(* of runs of RunLifecycle; and what a driver finds when it goes on, which *)
(* says what becomes of results, of ended runs and of a drive() that raises.*)
(***************************************************************************)
EXTENDS SupervisorProofs

LeaseHonoured ==
  /\ "lapse" \notin Faults
  /\ None \notin Run
  /\ \A t, u \in Thread : WorkerOf[t] = WorkerOf[u] => t = u

IdleDriversHaveNoRun == \A t \in Thread : At(t, "idle") => thr[t].run = None

(* What a run's state may look like: see StatusMatchesStep; a call is open *)
(* only at its node; whoever finds it interrupted says so.                 *)
Fits(s) ==
  /\ s.status \in Terminal \cup {"absent", "paused", "awaiting_human"} => s.step = None
  /\ s.status = "recovery_required" => s.step # None /\ s.reason = "interrupted"
  /\ s.step # None => s.node \in ExternalNode

Writing == {"promote", "conflict", "rollback_target", "rollback_from", "rollback_commit"}

(* What a driver with record d still knows of its run, whose state is s,   *)
(* whatever operators did to the run since the driver read it.             *)
Knows(d, s) ==
  /\ d.pc \in Writing => s.step = None
  /\ d.pc \in {"verify", "verifying"} => d.held = s.candidate
  /\ d.pc \in {"executing", "verifying"} =>
       /\ d.step # None
       /\ s.step = d.step =>
            s.status = "running"
            /\ s.node = (IF d.pc = "executing" THEN "execute" ELSE "verify")
  /\ d.pc = "promote" => s.node # "verify"
  /\ d.pc \in ExternalNode =>
       s.status # "recovery_required" /\ (s.pause => s.step # None)

LeaseInductive ==
  /\ IdleDriversHaveNoRun /\ OneDriver
  /\ \A r \in Run : Fits(run[r])
  /\ \A t \in Thread : ~At(t, "idle") => Knows(thr[t], run[thr[t].run])

------------------------------------------------------------------------------
(* A driver that goes on keeps its run, and so does one that leaves.       *)
KeepsRun(t) ==
  /\ thr' \in [Thread -> Driver] /\ UNCHANGED lease
  /\ thr'[t].run = thr[t].run /\ thr'[t].pc # "idle"
  /\ \A u \in Thread \ {t} : thr'[u] = thr[u]

LEMMA DrivingKeepsRun ==
  ASSUME TypeOK, TypeOK', NEW t \in Thread, Drive(t) \/ Abort(t), ~Release(t)
  PROVE  KeepsRun(t) /\ ~At(t, "idle")
<1>1. thr[t] \in Driver /\ thr \in [Thread -> Driver] /\ thr' \in [Thread -> Driver]
  BY DEF TypeOK
<1>2. ASSUME Leave(t)
      PROVE  thr'[t].run = thr[t].run /\ thr'[t].pc # "idle"
             /\ \A u \in Thread \ {t} : thr'[u] = thr[u]
  BY <1>1, <1>2 DEF Leave, Idle
<1>3. ASSUME NEW pc \in Pc \ {"idle"}, Goto(t, pc)
      PROVE  thr'[t].run = thr[t].run /\ thr'[t].pc # "idle"
             /\ \A u \in Thread \ {t} : thr'[u] = thr[u]
  BY <1>1, <1>3 DEF Goto, Driver
<1>4. ASSUME NEW s, NEW outcome, CommitStep(t, s, outcome)
      PROVE  thr'[t].run = thr[t].run /\ thr'[t].pc # "idle" /\ UNCHANGED lease
             /\ \A u \in Thread \ {t} : thr'[u] = thr[u]
  <2>1. CASE Leave(t) BY <1>2, <1>4, <2>1 DEF CommitStep
  <2>2. CASE thr' = [thr EXCEPT ![t] = [Idle EXCEPT !.pc = "loop", !.run = thr[t].run]]
    BY <1>1, <1>4, <2>2 DEF CommitStep, Idle
  <2> QED BY <1>4, <2>1, <2>2 DEF CommitStep
<1>5. CASE Restore(t) \/ MarkRecoveryRequired(t) \/ PauseAtBoundary(t) \/ RequestHuman(t)
           \/ PromoteCandidate(t) \/ PromotionConflict(t) \/ RecordConflict(t)
           \/ CommitRollback(t)
  BY <1>1, <1>2, <1>3, <1>5 DEF Restore, MarkRecoveryRequired, PauseAtBoundary, RequestHuman,
     PromoteCandidate, PromotionConflict, RecordConflict, CommitRollback, KeepsRun, At, Pc
<1>6. CASE Raise(t) \/ Abort(t)
  BY <1>1, <1>2, <1>6 DEF Raise, Refused, Abort, KeepsRun, At, ExternalNode
<1>7. CASE Dispatch(t)
  <2>1. CASE Leave(t) BY <1>1, <1>2, <1>7, <2>1 DEF Dispatch, KeepsRun, At
  <2>2. CASE Goto(t, "pause") \/ Goto(t, "execute") \/ Goto(t, "hitl")
    BY <1>1, <1>3, <1>7, <2>2 DEF Dispatch, KeepsRun, At, Pc
  <2>3. CASE ~Leave(t) /\ ~(Goto(t, "pause") \/ Goto(t, "execute") \/ Goto(t, "hitl"))
    BY <1>1, <1>7, <2>3 DEF Dispatch, KeepsRun, At, Driver
  <2> QED BY <2>1, <2>2, <2>3
<1>8. CASE (\E node \in ExternalNode : BeginExternalStep(t, node))
           \/ ReadRollbackTarget(t) \/ ReadRollbackFrom(t)
  BY <1>1, <1>8 DEF BeginExternalStep, ReadRollbackTarget, ReadRollbackFrom, KeepsRun, At,
     Driver, ExternalNode
<1>9. CASE CompleteExecute(t) \/ (\E passed \in BOOLEAN : CompleteVerify(t, passed))
           \/ FailExternalStep(t)
  BY <1>1, <1>4, <1>9 DEF CompleteExecute, CompleteVerify, FailExternalStep, KeepsRun, At
<1> QED BY <1>5, <1>6, <1>7, <1>8, <1>9 DEF Drive

(* The lease is kept through every step.                                   *)
LEMMA LeaseKept ==
  ASSUME LeaseHonoured, SupervisorAssumption, TypeOK, TypeOK', DriversHaveRuns,
         IdleDriversHaveNoRun, OneDriver, [Next]_vars
  PROVE  IdleDriversHaveNoRun' /\ OneDriver'
<1>0. /\ \A t \in Thread : WorkerOf[t] # None /\ thr[t] \in Driver
      /\ \A t, u \in Thread : WorkerOf[t] = WorkerOf[u] => t = u
      /\ \A t \in Thread : ~At(t, "idle") => thr[t].run \in Run
      /\ \A r \in Run : lease[r] \in Lease
      /\ thr \in [Thread -> Driver] /\ lease \in [Run -> Lease]
      /\ None \notin Run
  BY DEF LeaseHonoured, SupervisorAssumption, TypeOK, DriversHaveRuns
<1>00. ASSUME NEW t \in Thread, ~At(t, "idle")
       PROVE  /\ thr[t].run \in Run
              /\ lease[thr[t].run].owner = WorkerOf[t] /\ ~lease[thr[t].run].expired
  <2>1. lease[thr[t].run] = [owner |-> WorkerOf[t], expired |-> FALSE]
    BY <1>00 DEF OneDriver
  <2> QED BY <1>0, <1>00, <2>1
<1> USE DEF At, IdleDriversHaveNoRun, OneDriver
<1>1. CASE UNCHANGED <<thr, lease>>
  BY <1>1
<1>2. ASSUME NEW t \in Thread, KeepsRun(t), ~At(t, "idle")
      PROVE  IdleDriversHaveNoRun' /\ OneDriver'
  BY <1>2 DEF KeepsRun
<1>3. ASSUME NEW t \in Thread, Release(t)
      PROVE  IdleDriversHaveNoRun' /\ OneDriver'
  <2>1. /\ thr' = [thr EXCEPT ![t] = Idle]
        /\ lease' = [lease EXCEPT ![thr[t].run] = [owner |-> None, expired |-> FALSE]]
    BY <1>00, <1>3 DEF Release
  <2> QED BY <1>0, <2>1, <1>3 DEF Release, Idle
<1>4. ASSUME NEW t \in Thread, NEW r \in Run, Acquire(t, r)
      PROVE  IdleDriversHaveNoRun' /\ OneDriver'
  <2>1. \A u \in Thread \ {t} : thr[u].run # r
    BY <1>0, <1>00, <1>4 DEF Acquire, LeaseGranted
  <2>2. /\ thr' = [thr EXCEPT ![t] = [Idle EXCEPT !.pc = "restore", !.run = r]]
        /\ lease' = [lease EXCEPT ![r] = [owner |-> WorkerOf[t], expired |-> FALSE]]
    BY <1>4 DEF Acquire
  <2> QED BY <1>0, <2>1, <2>2 DEF Idle
<1>5. ASSUME NEW t \in Thread, Heartbeat(t)
      PROVE  IdleDriversHaveNoRun' /\ OneDriver'
  BY <1>0, <1>5 DEF Heartbeat
<1>6. ASSUME NEW r \in Run, LeaseLapse(r)
      PROVE  IdleDriversHaveNoRun' /\ OneDriver'
  <2>1. \A t \in Thread : thr[t].run # r
    BY <1>0, <1>00, <1>6 DEF LeaseLapse, LeaseHonoured
  <2> QED BY <1>0, <1>6, <2>1 DEF LeaseLapse
<1>7. ASSUME NEW w \in Worker, Crash(w)
      PROVE  IdleDriversHaveNoRun' /\ OneDriver'
  <2>1. \A t \in Thread : thr'[t] = thr[t] \/ thr'[t] = Idle
    BY <1>7 DEF Crash
  <2> QED BY <1>0, <1>7, <2>1 DEF Crash, Idle
<1>8. ASSUME NEW r \in Run, Operate(r)
      PROVE  UNCHANGED <<thr, lease>>
  BY <1>8 DEF Operate, Steer, CreateRun, Pause, Resume, Approve, Revise, Reject, ResolveRecovery,
     DecideRollback, AskRollback, RequestRollback, Cancel
<1>9. ASSUME NEW t \in Thread, Drive(t) \/ Abort(t)
      PROVE  IdleDriversHaveNoRun' /\ OneDriver'
  BY <1>2, <1>3, <1>9, DrivingKeepsRun
<1>10. CASE UNCHANGED vars
  BY <1>1, <1>10 DEF vars
<1> QED BY <1>1, <1>4, <1>5, <1>6, <1>7, <1>8, <1>9, <1>10 DEF Next

------------------------------------------------------------------------------
(* A command changes a run in ways every driver of it is prepared for.     *)
LEMMA CommandsFit ==
  ASSUME TypeOK, RestingRunsHaveNoStep, NEW r \in Run, Operate(r), Fits(run[r])
  PROVE  /\ UNCHANGED thr
         /\ \A q \in Run \ {r} : run'[q] = run[q]
         /\ Fits(run'[r])
         /\ \A d \in Driver : Knows(d, run[r]) => Knows(d, run'[r])
<1>0. run[r] \in RunState /\ run \in [Run -> RunState]
  BY DEF TypeOK
<1> USE DEF RunState
<1>1. CASE CreateRun(r)
  <2>1. run[r].step = None /\ run[r].candidate = None
    BY <1>1 DEF CreateRun, Created, RestingRunsHaveNoStep
  <2>2. /\ run'[r].status = "running" /\ run'[r].step = None /\ run'[r].candidate = None
        /\ run'[r].pause = FALSE /\ run'[r].node = "execute"
    BY <1>0, <1>1 DEF CreateRun, Absent
  <2> QED BY <1>0, <1>1, <2>1, <2>2 DEF CreateRun, Fits, Knows, Terminal, Writing, ExternalNode
<1>2. CASE Pause(r) \/ Resume(r)
  BY <1>0, <1>2 DEF Pause, Resume, Fits, Knows, Terminal, Writing, ExternalNode
<1>3. CASE Approve(r) \/ Revise(r) \/ Reject(r)
           \/ \E target \in Nameable(ChannelOf[r]) \cup {None} : DecideRollback(r, target)
  <2>1. run[r].status = "awaiting_human" /\ run[r].step = None
    BY <1>3 DEF Approve, Revise, Reject, DecideRollback, Awaiting, Fits
  <2>2. /\ run'[r].step = None /\ run'[r].candidate = run[r].candidate
        /\ run'[r].pause = run[r].pause /\ run'[r].status # "recovery_required"
        /\ UNCHANGED thr /\ \A q \in Run \ {r} : run'[q] = run[q]
    BY <1>0, <1>3, <2>1 DEF Approve, Revise, Reject, DecideRollback
  <2>3. run'[r].node # "verify"
    BY <1>0, <1>3, Routes DEF Approve, Revise, Reject, DecideRollback
  <2> QED BY <2>1, <2>2, <2>3 DEF Fits, Knows
<1>4. ASSUME NEW decision \in {"retry", "abort"}, ResolveRecovery(r, decision)
      PROVE  /\ UNCHANGED thr
             /\ \A q \in Run \ {r} : run'[q] = run[q]
             /\ Fits(run'[r])
             /\ \A d \in Driver : Knows(d, run[r]) => Knows(d, run'[r])
  <2> DEFINE closed == [run[r] EXCEPT !.step = None, !.owner = None, !.reason = "none"]
  <2>1. /\ run[r].status = "recovery_required" /\ UNCHANGED thr
        /\ run' \in {[run EXCEPT ![r] = [closed EXCEPT !.status = "running"]],
                     [run EXCEPT ![r] = [closed EXCEPT !.status = "failed", !.node = "done"]]}
    BY <1>4 DEF ResolveRecovery
  <2>2. closed \in RunState /\ closed.step = None /\ closed.candidate = run[r].candidate
        /\ closed.node = run[r].node
    BY <1>0 DEF Reason
  <2> HIDE DEF closed
  <2>3. PICK x \in {[closed EXCEPT !.status = "running"],
                    [closed EXCEPT !.status = "failed", !.node = "done"]} :
          run' = [run EXCEPT ![r] = x]
    BY <2>1
  <2>4. /\ x.step = None /\ x.candidate = run[r].candidate /\ x.status # "recovery_required"
        /\ x.node \in {run[r].node, "done"}
    BY <2>2
  <2>5. run'[r] = x /\ \A q \in Run \ {r} : run'[q] = run[q]
    BY <1>0, <2>3
  <2> QED BY <2>1, <2>4, <2>5 DEF Fits, Knows
<1>5. CASE RequestRollback(r) \/ Cancel(r)
  <2>1. CASE UNCHANGED run
    BY <1>5, <2>1 DEF RequestRollback, Cancel
  <2>2. CASE run' # run
    <3>1. /\ run[r].step = None /\ run'[r].step = None
          /\ run'[r].candidate = run[r].candidate
          /\ run'[r].pause = FALSE /\ run'[r].status # "recovery_required"
          /\ run'[r].node # "verify"
          /\ UNCHANGED thr /\ \A q \in Run \ {r} : run'[q] = run[q]
      BY <1>0, <1>5, <2>2 DEF RequestRollback, Cancel
    <3> QED BY <3>1 DEF Fits, Knows
  <2> QED BY <2>1, <2>2
<1>6. CASE \E target \in Nameable(ChannelOf[r]) : AskRollback(r, target)
  BY <1>6 DEF AskRollback
<1> QED BY <1>1, <1>2, <1>3, <1>4, <1>5, <1>6 DEF Operate, Steer

(* A result of a call is taken by CommitStep.                              *)
ResultCommitted(t) ==
  CompleteExecute(t) \/ (\E passed \in BOOLEAN : CompleteVerify(t, passed)) \/ FailExternalStep(t)

LEMMA ResultsCommit ==
  ASSUME SupervisorAssumption, TypeOK, NEW t \in Thread, thr[t].run \in Run, ResultCommitted(t)
  PROVE  \E s \in RunState :
           /\ \E outcome : CommitStep(t, s, outcome)
           /\ s.target = run[thr[t].run].target
           /\ s.node = "verify" => CompleteExecute(t)
           /\ s.node # "rollback"
           /\ s.candidate # run[thr[t].run].candidate =>
                CompleteExecute(t) /\ s.candidate \in Version
           /\ s.iteration >= run[thr[t].run].iteration
           /\ s.node = "hitl" => s.reason = "exhausted" \/ CompleteVerify(t, TRUE)
<1> DEFINE r == thr[t].run
<1>0. run[r] \in RunState /\ run \in [Run -> RunState]
  BY DEF TypeOK
<1>1. \A node \in ExternalNode :
        LET f == AfterFailure(r, node) IN
        /\ f \in RunState /\ f.target = run[r].target
        /\ f.node \in {"execute", "hitl"} /\ f.candidate = run[r].candidate
        /\ f.iteration >= run[r].iteration /\ (f.node = "hitl" => f.reason = "exhausted")
  <2> SUFFICES ASSUME NEW node \in ExternalNode
               PROVE  /\ AfterFailure(r, node) \in RunState
                      /\ AfterFailure(r, node).node \in {"execute", "hitl"}
                      /\ AfterFailure(r, node).candidate = run[r].candidate
                      /\ AfterFailure(r, node).target = run[r].target
                      /\ AfterFailure(r, node).iteration >= run[r].iteration
                      /\ AfterFailure(r, node).node = "hitl" =>
                           AfterFailure(r, node).reason = "exhausted"
    OBVIOUS
  <2>1. /\ AfterFailure(r, node) \in RunState
        /\ AfterFailure(r, node).node \in {"execute", "hitl"}
        /\ AfterFailure(r, node).candidate = run[r].candidate
    BY <1>0, AfterFailureType
  <2>2. AfterFailure(r, node).target = run[r].target
    BY <1>0, <2>1 DEF AfterFailure, RunState
  <2>3. /\ AfterFailure(r, node).iteration >= run[r].iteration
        /\ AfterFailure(r, node).node = "hitl" => AfterFailure(r, node).reason = "exhausted"
    BY <1>0, Routes DEF AfterFailure, RunState
  <2> QED BY <2>1, <2>2, <2>3
<1>2. CASE CompleteExecute(t)
  <2> DEFINE v == CHOOSE i \in FreeVersion : TRUE
             s == [run[r] EXCEPT !.node = RouteOf(r).execute.completed,
                                 !.candidate = v, !.reason = "none"]
  <2>1. v \in Version
    BY <1>2 DEF CompleteExecute, FreeVersion
  <2>2. CommitStep(t, s, "completed")
    BY <1>2 DEF CompleteExecute
  <2> HIDE DEF v
  <2>3. /\ s \in RunState /\ s.target = run[r].target
        /\ s.node = "verify" /\ s.candidate \in Version
    BY <1>0, <2>1, Routes DEF RunState, NodeName, Reason
  <2>4. s.iteration = run[r].iteration /\ s.iteration \in Nat
    BY <1>0 DEF RunState
  <2>5. s.iteration >= run[r].iteration
    BY <2>4
  <2> QED BY <1>2, <2>2, <2>3, <2>5
<1>3. ASSUME NEW passed \in BOOLEAN, CompleteVerify(t, passed)
      PROVE  \E s \in RunState :
               /\ \E outcome : CommitStep(t, s, outcome)
               /\ s.target = run[r].target /\ s.node \in {"execute", "hitl", "promote"}
               /\ s.candidate = run[r].candidate /\ s.iteration >= run[r].iteration
               /\ s.node = "hitl" => s.reason = "exhausted" \/ CompleteVerify(t, TRUE)
  <2> DEFINE next == RouteOf(r).verify.passed
             good == [run[r] EXCEPT !.node = next,
                        !.reason = IF next = "hitl" THEN "approval_required" ELSE "none"]
             s == IF passed THEN good ELSE AfterFailure(r, "verify")
  <2>1. next \in {"hitl", "promote"}
    BY Routes
  <2>2. CommitStep(t, s, "completed")
    BY <1>3 DEF CompleteVerify
  <2> HIDE DEF next
  <2>9. next \in NodeName
    BY <2>1 DEF NodeName
  <2>10. (IF next = "hitl" THEN "approval_required" ELSE "none") \in Reason
    BY DEF Reason
  <2>3. /\ good \in RunState /\ good.target = run[r].target
        /\ good.node \in {"hitl", "promote"} /\ good.candidate = run[r].candidate
    <3>1. good \in RunState
      BY <1>0, <2>9, <2>10 DEF RunState
    <3>2. good.node = next /\ good.target = run[r].target /\ good.candidate = run[r].candidate
      BY <1>0 DEF RunState
    <3> QED BY <2>1, <3>1, <3>2
  <2>7. good.iteration = run[r].iteration /\ good.iteration \in Nat
    BY <1>0 DEF RunState
  <2>8. good.iteration >= run[r].iteration
    BY <2>7
  <2>4. LET f == AfterFailure(r, "verify") IN
        /\ f \in RunState /\ f.target = run[r].target
        /\ f.node \in {"execute", "hitl"} /\ f.candidate = run[r].candidate
        /\ f.iteration >= run[r].iteration /\ (f.node = "hitl" => f.reason = "exhausted")
    BY <1>1 DEF ExternalNode
  <2> HIDE DEF good
  <2>5. CASE passed
    <3>1. CompleteVerify(t, TRUE)
      BY <1>3, <2>5
    <3> QED BY <2>2, <2>3, <2>5, <2>8, <3>1
  <2>6. CASE ~passed
    BY <2>2, <2>4, <2>6
  <2> QED BY <2>5, <2>6
<1>4. CASE FailExternalStep(t)
  BY <1>1, <1>4 DEF FailExternalStep, ExternalNode
<1> QED BY <1>2, <1>3, <1>4 DEF ResultCommitted

(* A driver's own step leaves it knowing what it has to know next.         *)
LEMMA DriversFit ==
  ASSUME SupervisorAssumption, TypeOK, TypeOK', NEW t \in Thread, Drive(t) \/ Abort(t),
         ~Release(t), thr[t].run \in Run, Fits(run[thr[t].run]),
         Knows(thr[t], run[thr[t].run])
  PROVE  /\ \A q \in Run \ {thr[t].run} : run'[q] = run[q]
         /\ Fits(run'[thr[t].run])
         /\ Knows(thr'[t], run'[thr[t].run])
<1> DEFINE r == thr[t].run
           Goal == /\ \A q \in Run \ {r} : run'[q] = run[q]
                   /\ Fits(run'[r])
                   /\ Knows(thr'[t], run'[r])
<1>0. /\ run[r] \in RunState /\ run \in [Run -> RunState]
      /\ thr[t] \in Driver /\ thr \in [Thread -> Driver] /\ thr' \in [Thread -> Driver]
      /\ None \notin Step
  BY DEF TypeOK, SupervisorAssumption
<1>l. ASSUME Leave(t) PROVE \A s : Knows(thr'[t], s)
  <2>1. thr'[t].pc = "release"
    BY <1>0, <1>l DEF Leave, Idle
  <2> QED BY <2>1 DEF Knows, Writing, ExternalNode
<1>g. ASSUME NEW pc \in Pc, Goto(t, pc)
      PROVE  thr'[t] = [thr[t] EXCEPT !.pc = pc] /\ thr'[t].pc = pc
             /\ thr'[t].held = thr[t].held /\ thr'[t].step = thr[t].step
  BY <1>0, <1>g DEF Goto, Driver
<1>1. CASE Restore(t)
  <2>1. thr'[t].pc \in {"recover", "loop"}
    BY <1>g, <1>1 DEF Restore, Pc
  <2> QED BY <1>1, <2>1 DEF Restore, Knows, Writing, ExternalNode
<1>2. CASE MarkRecoveryRequired(t)
  <2>1. /\ run'[r].status = "recovery_required" /\ run'[r].reason = "interrupted"
        /\ run'[r].step = run[r].step /\ run'[r].node = run[r].node
        /\ run[r].step # None
        /\ \A q \in Run \ {r} : run'[q] = run[q]
    BY <1>0, <1>2 DEF MarkRecoveryRequired, RunState
  <2> QED BY <1>2, <1>l, <2>1 DEF MarkRecoveryRequired, Fits, Terminal
<1>3. CASE Dispatch(t)
  <2>0. UNCHANGED run
    BY <1>3 DEF Dispatch
  <2>1. CASE Stops(run[r]) /\ Leave(t)
    BY <1>l, <2>0, <2>1
  <2>2. CASE ~Stops(run[r]) /\ PausesFirst(run[r]) /\ Goto(t, "pause")
    <3>1. thr'[t].pc = "pause"
      BY <1>g, <2>2 DEF Pc
    <3> QED BY <2>0, <3>1 DEF Knows, Writing, ExternalNode
  <2>3. ASSUME run[r].status = "running", ~PausesFirst(run[r]),
               run[r].node = "execute" \/ run[r].node = "hitl", Goto(t, run[r].node)
        PROVE  Knows(thr'[t], run[r])
    <3>1. thr'[t].pc \in {"execute", "hitl"}
      BY <1>g, <2>3 DEF Pc
    <3> QED BY <2>3, <3>1 DEF Knows, Writing, ExternalNode, PausesFirst
  <2>4. ASSUME run[r].status = "running", ~PausesFirst(run[r]),
               run[r].node \in {"verify", "promote"},
               thr' = [thr EXCEPT ![t].pc = run[r].node, ![t].held = run[r].candidate]
        PROVE  Knows(thr'[t], run[r])
    <3>1. thr'[t].pc = run[r].node /\ thr'[t].held = run[r].candidate
      BY <1>0, <2>4 DEF Driver
    <3> QED BY <2>4, <3>1 DEF Knows, Writing, ExternalNode, PausesFirst, Fits
  <2>5. ASSUME run[r].node = "rollback",
               thr' = [thr EXCEPT ![t].pc = "rollback_target", ![t].held = run[r].target]
        PROVE  Knows(thr'[t], run[r])
    <3>1. thr'[t].pc = "rollback_target"
      BY <1>0, <2>5 DEF Driver
    <3> QED BY <2>5, <3>1 DEF Knows, Writing, ExternalNode, Fits
  <2> QED BY <1>3, <2>0, <2>1, <2>2, <2>3, <2>4, <2>5 DEF Dispatch, Stops
<1>4. CASE PauseAtBoundary(t)
  <2>1. /\ run'[r].status = "paused" /\ run'[r].step = None
        /\ \A q \in Run \ {r} : run'[q] = run[q]
    BY <1>0, <1>4 DEF PauseAtBoundary, RunState
  <2> QED BY <1>4, <1>l, <2>1 DEF PauseAtBoundary, Fits
<1>5. ASSUME NEW node \in ExternalNode, BeginExternalStep(t, node)
      PROVE  Goal
  <2> DEFINE s == CHOOSE i \in UnusedStep : TRUE
  <2>1. s \in Step
    BY <1>5 DEF BeginExternalStep, UnusedStep
  <2>2. /\ run' = [run EXCEPT ![r].step = s, ![r].owner = WorkerOf[t]]
        /\ thr' = [thr EXCEPT ![t].step = s,
                     ![t].pc = IF node = "execute" THEN "executing" ELSE "verifying"]
        /\ run[r].status = "running" /\ run[r].node = node /\ thr[t].pc = node
    BY <1>5 DEF BeginExternalStep, MayBegin, At
  <2> HIDE DEF s
  <2>3. /\ run'[r].step = s /\ run'[r].status = "running" /\ run'[r].node = node
        /\ run'[r].candidate = run[r].candidate
        /\ \A q \in Run \ {r} : run'[q] = run[q]
    BY <1>0, <2>2 DEF RunState
  <2>4. /\ thr'[t].step = s /\ thr'[t].held = thr[t].held
        /\ thr'[t].pc = IF node = "execute" THEN "executing" ELSE "verifying"
    BY <1>0, <2>2 DEF Driver
  <2>5. Fits(run'[r])
    BY <2>3 DEF Fits, Terminal
  <2>6. Knows(thr'[t], run'[r])
    BY <1>0, <1>5, <2>1, <2>2, <2>3, <2>4 DEF Knows, Writing, ExternalNode
  <2> QED BY <2>3, <2>5, <2>6
<1>6. ASSUME NEW s \in RunState, NEW outcome, CommitStep(t, s, outcome)
      PROVE  Goal
  <2>1. /\ run'[r] = AtBoundary(s) /\ \A q \in Run \ {r} : run'[q] = run[q]
        /\ run'[r].status \in {"running", "paused"} /\ run'[r].step = None
    BY <1>0, <1>6, AtBoundaryType DEF CommitStep
  <2>2. Fits(run'[r])
    BY <2>1 DEF Fits, Terminal
  <2>3. CASE Leave(t)
    BY <1>l, <2>1, <2>2, <2>3
  <2>4. CASE thr' = [thr EXCEPT ![t] = [Idle EXCEPT !.pc = "loop", !.run = r]]
    <3>1. thr'[t].pc = "loop"
      BY <1>0, <2>4 DEF Idle
    <3> QED BY <2>1, <2>2, <3>1 DEF Knows, Writing, ExternalNode
  <2> QED BY <1>6, <2>3, <2>4 DEF CommitStep
<1>7. ASSUME ResultCommitted(t) PROVE Goal
  <2>1. PICK s \in RunState : \E outcome : CommitStep(t, s, outcome)
    BY <1>7, ResultsCommit
  <2> QED BY <1>6, <2>1
<1>10. CASE RequestHuman(t)
  <2>1. /\ run'[r].status = "awaiting_human" /\ run'[r].step = run[r].step
        /\ run[r].node = "hitl" /\ run'[r].node = "hitl"
        /\ \A q \in Run \ {r} : run'[q] = run[q]
    BY <1>0, <1>10 DEF RequestHuman, RunState
  <2> QED BY <1>10, <1>l, <2>1 DEF RequestHuman, Fits, ExternalNode
<1>11. CASE PromoteCandidate(t) \/ RecordConflict(t) \/ CommitRollback(t)
  <2>1. run[r].step = None
    BY <1>11 DEF PromoteCandidate, RecordConflict, CommitRollback, Knows, Writing, At
  <2>2. /\ run'[r].status # "recovery_required" /\ run'[r].step = None
        /\ \A q \in Run \ {r} : run'[q] = run[q]
    <3>1. CASE PromoteCandidate(t)
      BY <1>0, <2>1, <3>1 DEF PromoteCandidate, RunState
    <3>2. CASE RecordConflict(t)
      BY <1>0, <2>1, <3>2 DEF RecordConflict, RunState
    <3>3. CASE CommitRollback(t)
      BY <1>0, <2>1, <3>3 DEF CommitRollback, RunState
    <3> QED BY <1>11, <3>1, <3>2, <3>3
  <2> QED BY <1>11, <1>l, <2>2 DEF PromoteCandidate, RecordConflict, CommitRollback, Fits
<1>12. CASE PromotionConflict(t) \/ ReadRollbackTarget(t) \/ ReadRollbackFrom(t)
  <2>1. thr'[t].pc \in Writing \ {"promote"} /\ thr[t].pc \in Writing /\ UNCHANGED run
    BY <1>0, <1>12 DEF PromotionConflict, ReadRollbackTarget, ReadRollbackFrom, Goto, At,
       Writing, Driver
  <2> QED BY <2>1 DEF Knows, Writing, ExternalNode
<1>13. CASE Raise(t) \/ Abort(t)
  BY <1>l, <1>13 DEF Raise, Abort
<1> QED BY <1>1, <1>2, <1>3, <1>4, <1>5, <1>7, <1>10, <1>11, <1>12, <1>13 DEF Drive, ResultCommitted

(* So the invariant is inductive.                                          *)
LEMMA LeaseSteps ==
  ASSUME LeaseHonoured, SupervisorAssumption, TypeOK, TypeOK', Inductive, LeaseInductive,
         [Next]_vars
  PROVE  LeaseInductive'
<1>0. /\ DriversHaveRuns /\ RestingRunsHaveNoStep
      /\ IdleDriversHaveNoRun /\ OneDriver
      /\ \A r \in Run : Fits(run[r])
      /\ \A t \in Thread : ~At(t, "idle") => Knows(thr[t], run[thr[t].run])
      /\ \A t \in Thread : thr[t] \in Driver /\ (~At(t, "idle") => thr[t].run \in Run)
  BY DEF Inductive, LeaseInductive, TypeOK, DriversHaveRuns
<1>1. IdleDriversHaveNoRun' /\ OneDriver'
  BY <1>0, LeaseKept
<1> DEFINE Fit == /\ \A r \in Run : Fits(run'[r])
                  /\ \A t \in Thread : thr'[t].pc # "idle" => Knows(thr'[t], run'[thr'[t].run])
<1>2. ASSUME NEW t \in Thread, Drive(t) \/ Abort(t), ~Release(t)
      PROVE  Fit
  <2>1. KeepsRun(t) /\ ~At(t, "idle")
    BY <1>2, DrivingKeepsRun
  <2>2. \A u \in Thread \ {t} : thr[u].run # thr[t].run
    BY <2>1 DEF LeaseInductive, OneDriver
  <2>3. /\ \A q \in Run \ {thr[t].run} : run'[q] = run[q]
        /\ Fits(run'[thr[t].run])
        /\ Knows(thr'[t], run'[thr[t].run])
    BY <1>0, <1>2, <2>1, DriversFit
  <2> QED BY <1>0, <2>1, <2>2, <2>3 DEF KeepsRun, At
<1>3. ASSUME NEW r \in Run, Operate(r)
      PROVE  Fit
  <2>1. /\ UNCHANGED thr
        /\ \A q \in Run \ {r} : run'[q] = run[q]
        /\ Fits(run'[r])
        /\ \A d \in Driver : Knows(d, run[r]) => Knows(d, run'[r])
    BY <1>0, <1>3, CommandsFit
  <2> QED BY <1>0, <2>1 DEF At
<1>4. ASSUME UNCHANGED run,
             \A t \in Thread : \/ thr'[t] = thr[t] \/ thr'[t].pc = "idle"
                               \/ thr'[t].pc = "restore"
      PROVE  Fit
  <2>1. \A d, s : d.pc = "restore" => Knows(d, s)
    BY DEF Knows, Writing, ExternalNode
  <2> QED BY <1>0, <1>4, <2>1 DEF At
<1>5. ASSUME \E t \in Thread : Release(t) PROVE Fit
  BY <1>4, <1>5 DEF Release, Idle, TypeOK
<1>6. ASSUME \E t \in Thread, r \in Run : Acquire(t, r) PROVE Fit
  BY <1>4, <1>6 DEF Acquire, Idle, TypeOK
<1>7. ASSUME (\E t \in Thread : Heartbeat(t)) \/ (\E r \in Run : LeaseLapse(r)) \/ UNCHANGED vars
      PROVE  Fit
  BY <1>4, <1>7 DEF Heartbeat, LeaseLapse, vars
<1>8. ASSUME \E w \in Worker : Crash(w) PROVE Fit
  BY <1>4, <1>8 DEF Crash, Idle, TypeOK
<1>9. Fit
  BY <1>2, <1>3, <1>5, <1>6, <1>7, <1>8 DEF Next
<1> QED BY <1>1, <1>9 DEF LeaseInductive, At

LEMMA LeaseInitially ==
  ASSUME Init
  PROVE  LeaseInductive
BY DEF Init, LeaseInductive, IdleDriversHaveNoRun, OneDriver, Idle, At, Absent, Fits, Terminal

(* The invariant: the supervisor's own, which needs no lease, and what the *)
(* lease adds to it.                                                       *)
THEOREM LeaseInvariant ==
  ASSUME LeaseHonoured
  PROVE  Spec => [](TypeOK /\ Inductive /\ LeaseInductive)
<1>1. Init => LeaseInductive
  BY LeaseInitially
<1>2. TypeOK /\ Inductive /\ LeaseInductive /\ TypeOK' /\ [Next]_vars => LeaseInductive'
  BY LeaseHonoured, LeaseSteps, SupervisorAssumption
<1> QED BY <1>1, <1>2, InductiveInvariant, PTL DEF Spec

------------------------------------------------------------------------------
(* Two workers never drive one run (storage.py, acquire_lease).            *)
THEOREM OneDriverPerRun ==
  ASSUME LeaseHonoured
  PROVE  Spec => []OneDriver
<1>1. LeaseInductive => OneDriver
  BY DEF LeaseInductive
<1> QED BY <1>1, LeaseInvariant, PTL

(* A run that waits for an operator or is over has no call open, and one   *)
(* that needs recovery has (supervisor.py, drive and _resolve_recovery).   *)
THEOREM StatusTellsOfCalls ==
  ASSUME LeaseHonoured
  PROVE  Spec => []StatusMatchesStep
<1>1. LeaseInductive => StatusMatchesStep
  BY DEF LeaseInductive, Fits, StatusMatchesStep
<1> QED BY <1>1, LeaseInvariant, PTL

(* A verdict is recorded for the version whose artifact was examined       *)
(* (supervisor.py, _verify).                                               *)
THEOREM VerdictsAreOfTheExamined ==
  ASSUME LeaseHonoured
  PROVE  Spec => []VerdictOnExaminedArtifact
<1>1. LeaseInductive => VerdictOnExaminedArtifact
  BY DEF LeaseInductive, Knows, VerdictOnExaminedArtifact, At
<1> QED BY <1>1, LeaseInvariant, PTL

(* Only a human takes a run out of recovery_required (supervisor.py,       *)
(* _resolve_recovery): no driver, command or late result does.             *)
THEOREM HumansResolveRecovery ==
  ASSUME LeaseHonoured
  PROVE  Spec => RecoveryNeedsDecision
<1>1. ASSUME TypeOK, TypeOK', Inductive, LeaseInductive, [Next]_vars,
             NEW r \in Run, run[r].status = "recovery_required", run'[r] # run[r]
      PROVE  stepLog'[run[r].step].outcome \in {"retried", "aborted"}
  <2>0. /\ run[r] \in RunState /\ run \in [Run -> RunState]
        /\ run[r].step \in Step /\ run[r].reason = "interrupted"
        /\ \A t \in Thread : ~At(t, "idle") => thr[t].run \in Run
        /\ stepLog \in [Step -> StepRecord]
    BY <1>1 DEF TypeOK, RunState, LeaseInductive, Fits, Inductive, DriversHaveRuns
  <2>1. ASSUME NEW t \in Thread, Drive(t), ~Release(t)
        PROVE  FALSE
    <3>0. ~At(t, "idle") /\ thr[t].run \in Run /\ Knows(thr[t], run[thr[t].run])
      BY <1>1, <2>0, <2>1, DrivingKeepsRun DEF LeaseInductive
    <3> DEFINE q == thr[t].run
    <3>1. q = r
      <4>1. \A p \in Run \ {q} : run'[p] = run[p]
        BY <1>1, <2>0, <2>1, <3>0, DriversFit, SupervisorAssumption DEF LeaseInductive
      <4> QED BY <1>1, <4>1
    <3>2. CASE MarkRecoveryRequired(t)
      <4>1. run'[r] = [run[r] EXCEPT !.status = "recovery_required", !.reason = "interrupted"]
        BY <2>0, <3>1, <3>2 DEF MarkRecoveryRequired
      <4>2. run[r] \in [DOMAIN run[r] -> {run[r][f] : f \in DOMAIN run[r]}]
        BY <2>0 DEF RunState
      <4> QED BY <1>1, <2>0, <4>1, <4>2
    <3>3. CASE PromoteCandidate(t) \/ RecordConflict(t) \/ CommitRollback(t)
      BY <2>0, <3>0, <3>1, <3>3, SupervisorAssumption DEF PromoteCandidate, RecordConflict,
         CommitRollback, At, Knows, Writing, SupervisorAssumption
    <3>4. CASE PauseAtBoundary(t) \/ RequestHuman(t)
               \/ \E node \in ExternalNode : BeginExternalStep(t, node)
      BY <1>1, <2>0, <3>1, <3>4, SupervisorAssumption DEF PauseAtBoundary, RequestHuman,
         BeginExternalStep, MayBegin, SupervisorAssumption
    <3>5. CASE CompleteExecute(t) \/ (\E passed \in BOOLEAN : CompleteVerify(t, passed))
               \/ FailExternalStep(t)
      <4>1. thr[t].pc \in {"executing", "verifying"} /\ run[q].step = thr[t].step
        BY <3>5 DEF CompleteExecute, CompleteVerify, FailExternalStep, CommitStep, OwnsStep, At
      <4> QED BY <1>1, <3>0, <3>1, <4>1 DEF Knows
    <3>6. CASE UNCHANGED run
      BY <1>1, <3>6
    <3> QED BY <2>1, <3>2, <3>3, <3>4, <3>5, <3>6 DEF Drive, Restore, Dispatch,
         PromotionConflict, ReadRollbackTarget, ReadRollbackFrom, Raise
  <2>2. ASSUME NEW q \in Run, Operate(q)
        PROVE  \E decision \in {"retry", "abort"} : ResolveRecovery(r, decision)
    <3>1. q = r
      <4>1. RestingRunsHaveNoStep /\ Fits(run[q])
        BY <1>1 DEF Inductive, LeaseInductive
      <4>2. \A p \in Run \ {q} : run'[p] = run[p]
        BY <1>1, <2>2, <4>1, CommandsFit
      <4> QED BY <1>1, <4>2
    <3> QED
      BY <1>1, <2>0, <2>2, <3>1, SupervisorAssumption DEF Operate, Steer, CreateRun, Created, Pause,
         Resume, Approve, Revise, Reject, DecideRollback, Awaiting, AskRollback,
         RequestRollback, Cancel, SupervisorAssumption
  <2>3. PICK decision \in {"retry", "abort"} : ResolveRecovery(r, decision)
    BY <1>1, <2>1, <2>2 DEF Next, Acquire, Heartbeat, LeaseLapse, Crash, Abort, Release, vars
  <2> QED BY <2>0, <2>3 DEF ResolveRecovery, StepRecord
<1>2. TypeOK /\ TypeOK' /\ Inductive /\ LeaseInductive /\ [Next]_vars =>
        [\A r \in Run :
           run[r].status = "recovery_required" /\ run'[r] # run[r] =>
             stepLog'[run[r].step].outcome \in {"retried", "aborted"}]_vars
  BY <1>1
<1> QED BY <1>2, LeaseInvariant, PTL DEF Spec, RecoveryNeedsDecision

(* A pause asked for during a call comes before any other call, also when  *)
(* the call was interrupted in between (supervisor.py, drive and pause).   *)
THEOREM PausesComeFirst ==
  ASSUME LeaseHonoured
  PROVE  Spec => PauseBeforeNextCall
<1>1. ASSUME TypeOK, TypeOK', Inductive, LeaseInductive, [Next]_vars,
             NEW r \in Run, run[r].pause, run[r].step # run'[r].step
      PROVE  run'[r].step = None
  <2>0. /\ run[r] \in RunState /\ run \in [Run -> RunState]
        /\ \A t \in Thread : ~At(t, "idle") => thr[t].run \in Run
    BY <1>1 DEF TypeOK, Inductive, DriversHaveRuns
  <2>1. ASSUME NEW t \in Thread, Drive(t), ~Release(t)
        PROVE  run'[r].step = None
    <3>0. ~At(t, "idle") /\ thr[t].run \in Run /\ Knows(thr[t], run[thr[t].run])
      BY <1>1, <2>0, <2>1, DrivingKeepsRun DEF LeaseInductive
    <3>1. thr[t].run = r
      <4>1. \A p \in Run \ {thr[t].run} : run'[p] = run[p]
        BY <1>1, <2>0, <2>1, <3>0, DriversFit, SupervisorAssumption DEF LeaseInductive
      <4> QED BY <1>1, <4>1
    <3>2. ASSUME NEW node \in ExternalNode, BeginExternalStep(t, node)
          PROVE  FALSE
      BY <1>1, <3>0, <3>1, <3>2 DEF BeginExternalStep, MayBegin, At, Knows
    <3>3. ASSUME NEW s \in RunState, NEW outcome, CommitStep(t, s, outcome)
          PROVE  run'[r].step = None
      BY <2>0, <3>1, <3>3, AtBoundaryType DEF CommitStep
    <3>4. CASE ResultCommitted(t)
      BY <1>1, <3>0, <3>3, <3>4, ResultsCommit, SupervisorAssumption
    <3>5. CASE ~ResultCommitted(t) /\ ~(\E node \in ExternalNode : BeginExternalStep(t, node))
      BY <1>1, <2>0, <2>1, <3>1, <3>5 DEF Drive, ResultCommitted, Restore, MarkRecoveryRequired, Dispatch,
         PauseAtBoundary, RequestHuman, PromoteCandidate, PromotionConflict, RecordConflict,
         ReadRollbackTarget, ReadRollbackFrom, CommitRollback, Raise, RunState
    <3> QED BY <3>2, <3>4, <3>5
  <2>2. ASSUME NEW q \in Run, Operate(q)
        PROVE  run'[r].step = None
    <3>1. CASE \E decision \in {"retry", "abort"} : ResolveRecovery(q, decision)
      <4> DEFINE closed == [run[q] EXCEPT !.step = None, !.owner = None, !.reason = "none"]
      <4>1. run[q] \in RunState
        BY <1>1 DEF TypeOK
      <4>2. closed \in RunState /\ closed.step = None
        BY <4>1 DEF RunState, Reason
      <4>3. PICK x \in {[closed EXCEPT !.status = "running"],
                        [closed EXCEPT !.status = "failed", !.node = "done"]} :
              run' = [run EXCEPT ![q] = x]
        BY <3>1 DEF ResolveRecovery
      <4> HIDE DEF closed
      <4>4. x.step = None
        BY <4>2 DEF RunState
      <4> QED BY <1>1, <2>0, <4>3, <4>4
    <3>2. CASE CreateRun(q)
      BY <1>1, <2>0, <3>2 DEF CreateRun, Absent
    <3>3. CASE Pause(q) \/ Resume(q) \/ RequestRollback(q) \/ Cancel(q)
      BY <1>1, <2>0, <3>3 DEF Pause, Resume, RequestRollback, Cancel, RunState
    <3>4. CASE Approve(q) \/ Revise(q) \/ Reject(q)
               \/ \E target \in Nameable(ChannelOf[q]) \cup {None} : DecideRollback(q, target)
      <4>1. run[q] \in RunState
        BY <1>1 DEF TypeOK
      <4>2. CASE Approve(q)
        BY <1>1, <2>0, <4>1, <4>2 DEF Approve, RunState
      <4>3. CASE Revise(q)
        BY <1>1, <2>0, <4>1, <4>3 DEF Revise, RunState
      <4>4. CASE Reject(q)
        BY <1>1, <2>0, <4>1, <4>4 DEF Reject, RunState
      <4>5. CASE \E target \in Nameable(ChannelOf[q]) \cup {None} : DecideRollback(q, target)
        BY <1>1, <2>0, <4>1, <4>5 DEF DecideRollback, RunState
      <4> QED BY <3>4, <4>2, <4>3, <4>4, <4>5
    <3>5. CASE \E target \in Nameable(ChannelOf[q]) : AskRollback(q, target)
      BY <1>1, <3>5 DEF AskRollback
    <3> QED BY <2>2, <3>1, <3>2, <3>3, <3>4, <3>5 DEF Operate, Steer
  <2> QED BY <1>1, <2>1, <2>2 DEF Next, Acquire, Heartbeat, LeaseLapse, Crash, Abort, Release,
         vars
<1>2. TypeOK /\ TypeOK' /\ Inductive /\ LeaseInductive /\ [Next]_vars =>
        [\A r \in Run :
           run[r].pause /\ run[r].step # run'[r].step => run'[r].step = None]_vars
  BY <1>1
<1> QED BY <1>2, LeaseInvariant, PTL DEF Spec, PauseBeforeNextCall

------------------------------------------------------------------------------
(* What an approval is given on.  A run that waits for one, or is about    *)
(* to, has a candidate that passed verification; and what drivers, asked   *)
(* rollbacks, versions and channels refer to is there.                     *)
Unapproved(s) == s.node = "hitl" /\ s.reason \in {"none", "approval_required"}

Passed(v) == v \in Version /\ ver[v].validation = "passed"

Settled ==
  /\ \A r \in Run : /\ Awaiting(r) => run[r].node = "hitl"
                    /\ Unapproved(run[r]) => Passed(run[r].candidate)
                    /\ asking[r] # None => Created(r)
  /\ \A t \in Thread : ~At(t, "idle") => Created(thr[t].run)
  /\ \A v \in Version : ver[v].run \in Run => Created(ver[v].run)
  /\ \A c \in Channel : active[c] # None => Exists(active[c])

(* How a run's state s is followed by n: within an iteration a run that is *)
(* past its calls keeps its candidate.                                     *)
Goes(s, n) ==
  /\ n.status = "absent" => s.status = "absent"
  /\ n.status = "awaiting_human" => n.node = "hitl"
  /\ n.iteration >= s.iteration
  /\ s.node \notin ExternalNode /\ n.iteration = s.iteration =>
       n.candidate = s.candidate /\ n.node \notin ExternalNode

LEMMA GoesNowhere ==
  ASSUME NEW s \in RunState, s.status = "awaiting_human" => s.node = "hitl"
  PROVE  Goes(s, s)
<1>1. s.iteration \in Nat
  BY DEF RunState
<1> QED BY <1>1 DEF Goes

(* A driver's step.                                                        *)
LEMMA DriversGo ==
  ASSUME SupervisorAssumption, TypeOK, NEW t \in Thread, Drive(t) \/ Abort(t),
         thr[t].run \in Run, Fits(run[thr[t].run]), Knows(thr[t], run[thr[t].run]),
         Awaiting(thr[t].run) => run[thr[t].run].node = "hitl"
  PROVE  /\ Goes(run[thr[t].run], run'[thr[t].run])
         /\ Unapproved(run'[thr[t].run]) =>
              run'[thr[t].run].candidate = run[thr[t].run].candidate
              /\ (Unapproved(run[thr[t].run]) \/ CompleteVerify(t, TRUE))
<1> DEFINE r == thr[t].run
           Goal == /\ Goes(run[r], run'[r])
                   /\ Unapproved(run'[r]) =>
                        run'[r].candidate = run[r].candidate
                        /\ (Unapproved(run[r]) \/ CompleteVerify(t, TRUE))
<1>0. /\ run[r] \in RunState /\ run \in [Run -> RunState]
      /\ run[r].iteration \in Nat
      /\ run[r].status = "awaiting_human" => run[r].node = "hitl"
  BY DEF TypeOK, RunState, Awaiting
<1>1. CASE UNCHANGED run
  BY <1>0, <1>1, GoesNowhere
<1>2. ASSUME run'[r].status \notin {"absent", "awaiting_human"}, ~Unapproved(run'[r]) \/ Unapproved(run[r]),
             run'[r].iteration = run[r].iteration, run'[r].candidate = run[r].candidate,
             run'[r].node \in {run[r].node, "done"}
      PROVE  Goal
  <2>1. run'[r].iteration >= run[r].iteration
    BY <1>0, <1>2
  <2>2. run[r].node \notin ExternalNode => run'[r].node \notin ExternalNode
    BY <1>2 DEF ExternalNode
  <2> QED BY <1>2, <2>1, <2>2 DEF Goes
<1>3. CASE MarkRecoveryRequired(t)
  <2>1. run'[r] = [run[r] EXCEPT !.status = "recovery_required", !.reason = "interrupted"]
    BY <1>0, <1>3 DEF MarkRecoveryRequired
  <2> QED BY <1>0, <1>2, <2>1 DEF RunState, Unapproved
<1>4. CASE PauseAtBoundary(t)
  <2>1. run'[r] = [run[r] EXCEPT !.status = "paused", !.pause = FALSE]
    BY <1>0, <1>4 DEF PauseAtBoundary
  <2> QED BY <1>0, <1>2, <2>1 DEF RunState, Unapproved
<1>5. ASSUME NEW node \in ExternalNode, BeginExternalStep(t, node)
      PROVE  Goal
  <2>1. PICK s : run'[r] = [run[r] EXCEPT !.step = s, !.owner = WorkerOf[t]]
    BY <1>0, <1>5 DEF BeginExternalStep
  <2>2. run[r].status = "running"
    BY <1>5 DEF BeginExternalStep, MayBegin
  <2> QED BY <1>0, <1>2, <2>1, <2>2 DEF RunState, Unapproved
<1>6. CASE ResultCommitted(t)
  <2>1. PICK s \in RunState :
          /\ \E outcome : CommitStep(t, s, outcome)
          /\ s.candidate # run[r].candidate => CompleteExecute(t)
          /\ s.node = "verify" => CompleteExecute(t)
          /\ s.iteration >= run[r].iteration
          /\ s.node = "hitl" => s.reason = "exhausted" \/ CompleteVerify(t, TRUE)
    BY <1>6, ResultsCommit
  <2>2. /\ run'[r] = AtBoundary(s) /\ run[r].step = thr[t].step
    BY <1>0, <2>1 DEF CommitStep, OwnsStep
  <2>3. thr[t].pc \in {"executing", "verifying"}
    BY <1>6 DEF ResultCommitted, CompleteExecute, CompleteVerify, FailExternalStep, At
  <2>4. run[r].node \in ExternalNode
    BY <2>2, <2>3 DEF Knows, Fits
  <2>5. /\ run'[r].status \in {"running", "paused"} /\ run'[r].iteration = s.iteration
        /\ run'[r].node = s.node /\ run'[r].candidate = s.candidate /\ run'[r].reason = s.reason
    <3>1. AtBoundary(s).iteration = s.iteration /\ AtBoundary(s).reason = s.reason
      BY DEF AtBoundary, RunState
    <3> QED BY <2>2, <3>1, AtBoundaryType
  <2>6. Goes(run[r], run'[r])
    BY <2>1, <2>4, <2>5 DEF Goes
  <2>7. Unapproved(run'[r]) => CompleteVerify(t, TRUE)
    BY <2>1, <2>5 DEF Unapproved
  <2>8. CompleteVerify(t, TRUE) => ~CompleteExecute(t)
    BY DEF CompleteVerify, CompleteExecute, At
  <2> QED BY <2>1, <2>5, <2>6, <2>7, <2>8
<1>7. CASE RequestHuman(t)
  <2>1. /\ run[r].node = "hitl" /\ run'[r].node = "hitl"
        /\ run'[r].iteration = run[r].iteration /\ run'[r].candidate = run[r].candidate
        /\ run'[r].status = "awaiting_human"
        /\ run'[r].reason = IF run[r].reason = "none" THEN "approval_required" ELSE run[r].reason
    BY <1>0, <1>7 DEF RequestHuman, RunState
  <2>2. run'[r].iteration >= run[r].iteration
    BY <1>0, <2>1
  <2>3. Unapproved(run'[r]) => Unapproved(run[r])
    BY <2>1 DEF Unapproved
  <2> QED BY <2>1, <2>2, <2>3 DEF Goes, ExternalNode
<1>8. CASE PromoteCandidate(t)
  <2>1. run'[r] = [run[r] EXCEPT !.status = "succeeded", !.node = "done",
                                 !.base = thr[t].held, !.reason = "none"]
    BY <1>0, <1>8, Routes DEF PromoteCandidate
  <2> QED BY <1>0, <1>2, <2>1 DEF RunState, Unapproved
<1>9. CASE RecordConflict(t)
  <2>1. run'[r] = [run[r] EXCEPT !.status = "awaiting_human", !.node = "hitl",
                                 !.reason = "promotion_conflict"]
    BY <1>0, <1>9, Routes DEF RecordConflict
  <2>2. /\ run'[r].status = "awaiting_human" /\ run'[r].node = "hitl"
        /\ run'[r].reason = "promotion_conflict"
        /\ run'[r].iteration = run[r].iteration /\ run'[r].candidate = run[r].candidate
    BY <1>0, <2>1 DEF RunState
  <2> QED BY <1>0, <2>2 DEF Goes, Unapproved, ExternalNode
<1>10. CASE CommitRollback(t)
  <2>1. run'[r] = [run[r] EXCEPT !.status = "rolled_back", !.node = "done",
                     !.base = thr[t].held, !.target = thr[t].held, !.reason = "none"]
    BY <1>0, <1>10, Routes DEF CommitRollback
  <2> QED BY <1>0, <1>2, <2>1 DEF RunState, Unapproved
<1> QED
  BY <1>1, <1>3, <1>4, <1>5, <1>6, <1>7, <1>8, <1>9, <1>10 DEF Drive, ResultCommitted, Restore,
     Dispatch, PromotionConflict, ReadRollbackTarget, ReadRollbackFrom, Raise, Release, Abort

(* A command.                                                              *)
LEMMA CommandsGo ==
  ASSUME TypeOK, NEW r \in Run, Operate(r), Fits(run[r]),
         Awaiting(r) => run[r].node = "hitl"
  PROVE  /\ Goes(run[r], run'[r]) \/ CreateRun(r)
         /\ Unapproved(run'[r]) =>
              Unapproved(run[r]) /\ run'[r].candidate = run[r].candidate
<1> DEFINE Goal == /\ Goes(run[r], run'[r]) \/ CreateRun(r)
                   /\ Unapproved(run'[r]) =>
                        Unapproved(run[r]) /\ run'[r].candidate = run[r].candidate
<1>0. /\ run[r] \in RunState /\ run \in [Run -> RunState]
      /\ run[r].iteration \in Nat
      /\ run[r].status = "awaiting_human" => run[r].node = "hitl"
  BY DEF TypeOK, RunState, Awaiting
<1>1. CASE UNCHANGED run
  BY <1>0, <1>1, GoesNowhere
<1>2. ASSUME run'[r].status \notin {"absent", "awaiting_human"},
             ~Unapproved(run'[r]) \/ Unapproved(run[r]),
             run'[r].iteration = run[r].iteration, run'[r].candidate = run[r].candidate,
             run[r].node \in ExternalNode \/ run'[r].node \notin ExternalNode
      PROVE  Goal
  <2>1. run'[r].iteration >= run[r].iteration
    BY <1>0, <1>2
  <2> QED BY <1>2, <2>1 DEF Goes
<1>3. CASE CreateRun(r)
  <2>1. run'[r].node = "execute"
    BY <1>0, <1>3 DEF CreateRun, Absent
  <2> QED BY <1>3, <2>1 DEF Unapproved
<1>4. CASE Pause(r)
  <2>1. /\ run'[r].status \in {"running", "paused"} /\ run'[r].node = run[r].node
        /\ run'[r].reason = run[r].reason /\ run'[r].candidate = run[r].candidate
        /\ run'[r].iteration = run[r].iteration
    <3>1. CASE run[r].step # None
      BY <1>0, <1>4, <3>1 DEF Pause, RunState
    <3>2. CASE run[r].step = None
      BY <1>0, <1>4, <3>2 DEF Pause, RunState
    <3> QED BY <3>1, <3>2
  <2> QED BY <1>2, <2>1 DEF Unapproved
<1>5. CASE Resume(r)
  <2>1. /\ run'[r].status = "running" /\ run'[r].node = run[r].node
        /\ run'[r].reason = run[r].reason /\ run'[r].candidate = run[r].candidate
        /\ run'[r].iteration = run[r].iteration
    BY <1>0, <1>5 DEF Resume, RunState
  <2> QED BY <1>2, <2>1 DEF Unapproved
<1>6. CASE Approve(r)
  <2>1. /\ run'[r].status = "running" /\ run'[r].node = "promote"
        /\ run'[r].candidate = run[r].candidate /\ run'[r].iteration = run[r].iteration
    BY <1>0, <1>6, Routes DEF Approve, RunState
  <2> QED BY <1>2, <2>1 DEF Unapproved, ExternalNode
<1>7. CASE Revise(r)
  <2>1. /\ run'[r].status = "running" /\ run'[r].node = "execute"
        /\ run'[r].iteration = run[r].iteration + 1
    BY <1>0, <1>7, Routes DEF Revise, RunState
  <2>2. run'[r].iteration >= run[r].iteration /\ run'[r].iteration # run[r].iteration
    BY <1>0, <2>1
  <2> QED BY <2>1, <2>2 DEF Goes, Unapproved
<1>8. CASE Reject(r)
  <2>1. /\ run'[r].status = "failed" /\ run'[r].node = "done"
        /\ run'[r].candidate = run[r].candidate /\ run'[r].iteration = run[r].iteration
    BY <1>0, <1>8 DEF Reject, RunState
  <2> QED BY <1>2, <2>1 DEF Unapproved, ExternalNode
<1>9. CASE \E target \in Nameable(ChannelOf[r]) \cup {None} : DecideRollback(r, target)
  <2>1. /\ run'[r].status = "running" /\ run'[r].node = "rollback"
        /\ run'[r].candidate = run[r].candidate /\ run'[r].iteration = run[r].iteration
    BY <1>0, <1>9, Routes DEF DecideRollback, RunState
  <2> QED BY <1>2, <2>1 DEF Unapproved, ExternalNode
<1>10. ASSUME NEW decision \in {"retry", "abort"}, ResolveRecovery(r, decision)
       PROVE  Goal
  <2> DEFINE closed == [run[r] EXCEPT !.step = None, !.owner = None, !.reason = "none"]
  <2>1. PICK x \in {[closed EXCEPT !.status = "running"],
                    [closed EXCEPT !.status = "failed", !.node = "done"]} :
          run' = [run EXCEPT ![r] = x]
    BY <1>10 DEF ResolveRecovery
  <2>2. /\ closed.candidate = run[r].candidate /\ closed.iteration = run[r].iteration
        /\ closed.node = run[r].node /\ closed \in RunState
    BY <1>0 DEF RunState, Reason
  <2> HIDE DEF closed
  <2>3. /\ x.candidate = run[r].candidate /\ x.iteration = run[r].iteration
        /\ x.node \in {run[r].node, "done"} /\ x.status \in {"running", "failed"}
    BY <2>2 DEF RunState
  <2>4. run[r].node \in ExternalNode
    BY <1>10 DEF ResolveRecovery, Fits
  <2>5. run'[r] = x
    BY <1>0, <2>1
  <2>6. ~Unapproved(run'[r])
    BY <2>3, <2>4, <2>5 DEF Unapproved, ExternalNode
  <2> QED BY <1>2, <2>3, <2>4, <2>5, <2>6
<1>11. CASE RequestRollback(r)
  <2>1. CASE run[r].step # None
    BY <1>1, <1>11, <2>1 DEF RequestRollback
  <2>2. CASE run[r].step = None
    <3>1. /\ run'[r].status = "running" /\ run'[r].node = "rollback"
          /\ run'[r].candidate = run[r].candidate /\ run'[r].iteration = run[r].iteration
      BY <1>0, <1>11, <2>2 DEF RequestRollback, RunState
    <3> QED BY <1>2, <3>1 DEF Unapproved, ExternalNode
  <2> QED BY <2>1, <2>2
<1>12. CASE Cancel(r)
  <2>1. /\ run'[r].status = "cancelled" /\ run'[r].node = "done"
        /\ run'[r].candidate = run[r].candidate /\ run'[r].iteration = run[r].iteration
    BY <1>0, <1>12 DEF Cancel, RunState
  <2> QED BY <1>2, <2>1 DEF Unapproved, ExternalNode
<1> QED
  BY <1>1, <1>3, <1>4, <1>5, <1>6, <1>7, <1>8, <1>9, <1>10, <1>11, <1>12 DEF Operate, Steer, AskRollback

(* Any step.                                                               *)
LEMMA RunsGo ==
  ASSUME SupervisorAssumption, TypeOK, TypeOK', Inductive, LeaseInductive, [Next]_vars,
         \A r \in Run : Awaiting(r) => run[r].node = "hitl",
         NEW q \in Run
  PROVE  /\ Goes(run[q], run'[q]) \/ CreateRun(q)
         /\ Unapproved(run'[q]) =>
              /\ run'[q].candidate = run[q].candidate
              /\ \/ Unapproved(run[q])
                 \/ \E t \in Thread : thr[t].run = q /\ CompleteVerify(t, TRUE)
<1>0. /\ run[q] \in RunState /\ Fits(run[q])
      /\ run[q].status = "awaiting_human" => run[q].node = "hitl"
      /\ RestingRunsHaveNoStep
      /\ \A t \in Thread : ~At(t, "idle") => thr[t].run \in Run
  BY DEF TypeOK, Inductive, LeaseInductive, Awaiting, DriversHaveRuns
<1>1. CASE run'[q] = run[q]
  BY <1>0, <1>1, GoesNowhere
<1>2. ASSUME NEW t \in Thread, Drive(t) \/ Abort(t), ~Release(t), run'[q] # run[q]
      PROVE  /\ thr[t].run = q /\ Knows(thr[t], run[q])
             /\ Goes(run[q], run'[q])
             /\ Unapproved(run'[q]) =>
                  run'[q].candidate = run[q].candidate
                  /\ (Unapproved(run[q]) \/ CompleteVerify(t, TRUE))
  <2>1. ~At(t, "idle")
    BY <1>2, DrivingKeepsRun
  <2>2. /\ thr[t].run \in Run /\ Fits(run[thr[t].run]) /\ Knows(thr[t], run[thr[t].run])
        /\ Awaiting(thr[t].run) => run[thr[t].run].node = "hitl"
    BY <1>0, <2>1 DEF LeaseInductive
  <2>3. thr[t].run = q
    BY <1>2, <2>2, DriversFit
  <2> QED BY <1>2, <2>2, <2>3, DriversGo
<1>3. ASSUME NEW r \in Run, Operate(r), run'[q] # run[q]
      PROVE  r = q
  <2>1. Fits(run[r])
    BY DEF LeaseInductive
  <2> QED BY <1>0, <1>3, <2>1, CommandsFit
<1>4. CASE \E r \in Run : Operate(r)
  BY <1>0, <1>1, <1>3, <1>4, CommandsGo
<1>5. CASE \E t \in Thread : (Drive(t) \/ Abort(t)) /\ ~Release(t)
  BY <1>1, <1>2, <1>5
<1>6. CASE UNCHANGED run
  BY <1>1, <1>6
<1> QED
  BY <1>4, <1>5, <1>6 DEF Next, Release, Acquire, Heartbeat, LeaseLapse, Crash, vars

(* What becomes of the versions: ...                                       *)
LEMMA PointerKeepsVersions ==
  ASSUME RegistryTypeOK, NEW c, NEW v, NEW demoted \in VersionStatus, NEW row,
         MovePointer(c, v, demoted, row)
  PROVE  VersionsKept
<1> SUFFICES ASSUME NEW w \in Version
             PROVE  /\ ver'[w].run = ver[w].run
                    /\ ver'[w].validation = ver[w].validation
                    /\ ver[w].status # "free" => ver'[w].status # "free"
  BY DEF VersionsKept
<1>1. ver[w] \in VersionState
  BY DEF RegistryTypeOK
<1>2. ver'[w] \in {[ver[w] EXCEPT !.status = "active"],
                   [ver[w] EXCEPT !.status = demoted], ver[w]}
  BY DEF MovePointer
<1>3. demoted # "free"
  BY DEF VersionStatus
<1> QED BY <1>1, <1>2, <1>3 DEF VersionState

(* ... a result adds one or gives one its verdict, ...                     *)
LEMMA ResultsVersions ==
  ASSUME SupervisorAssumption, TypeOK, Inductive, NEW t \in Thread
  PROVE  /\ CompleteExecute(t) =>
              \E v \in Version : /\ ~Exists(v) /\ ver[v].validation = "none"
                                 /\ Exists(v)' /\ ver'[v].validation = "none"
                                 /\ ver'[v].run = thr[t].run
                                 /\ \A w \in Version \ {v} : ver'[w] = ver[w]
         /\ \A passed \in BOOLEAN : CompleteVerify(t, passed) =>
              \E v \in Version : /\ v = run[thr[t].run].candidate
                                 /\ Exists(v) /\ Exists(v)' /\ ver'[v].run = ver[v].run
                                 /\ ver'[v].validation = (IF passed THEN "passed" ELSE "failed")
                                 /\ \A w \in Version \ {v} : ver'[w] = ver[w]
<1>0. ver \in [Version -> VersionState]
  BY DEF TypeOK, RegistryTypeOK
<1>1. ASSUME CompleteExecute(t)
      PROVE  \E v \in Version : /\ ~Exists(v) /\ ver[v].validation = "none"
                                /\ Exists(v)' /\ ver'[v].validation = "none"
                                /\ ver'[v].run = thr[t].run
                                /\ \A w \in Version \ {v} : ver'[w] = ver[w]
  <2>1. PICK v \in Version : ~Exists(v) /\ InsertVersion(v, thr[t].run, run[thr[t].run].base)
    BY <1>1 DEF CompleteExecute, FreeVersion
  <2>2. ver[v].validation = "none"
    BY <2>1 DEF Inductive, UnverifiedAtVerify
  <2>3. /\ ver'[v] = [status |-> "candidate", run |-> thr[t].run, validation |-> "none",
                       madeOn |-> run[thr[t].run].base]
        /\ \A w \in Version \ {v} : ver'[w] = ver[w]
    BY <1>0, <2>1 DEF InsertVersion
  <2> QED BY <2>1, <2>2, <2>3 DEF Exists
<1>2. ASSUME NEW passed \in BOOLEAN, CompleteVerify(t, passed)
      PROVE  \E v \in Version : /\ v = run[thr[t].run].candidate
                                /\ Exists(v) /\ Exists(v)' /\ ver'[v].run = ver[v].run
                                /\ ver'[v].validation = (IF passed THEN "passed" ELSE "failed")
                                /\ \A w \in Version \ {v} : ver'[w] = ver[w]
  <2>1. PICK r \in Run : r = thr[t].run
    BY <1>2 DEF CompleteVerify, Inductive, DriversHaveRuns, At
  <2>2. run[r].step = thr[t].step /\ thr[t].step \in Step
        /\ stepLog[thr[t].step].node = "verify"
    BY <1>2, <2>1 DEF CompleteVerify, CommitStep, OwnsStep, Inductive, VerifiersWait
  <2>3. AtVerify(r)
    BY <2>2 DEF AtVerify, SupervisorAssumption
  <2>4. PICK v \in Version : v = run[r].candidate /\ Exists(v)
    BY <2>3 DEF Inductive, UnverifiedAtVerify, CandidatesAreOwn, Exists
  <2>5. UpdateVersion(v, passed)
    BY <1>2, <2>1, <2>4 DEF CompleteVerify
  <2>6. \A w \in Version \ {v} : ver'[w] = ver[w]
    BY <1>0, <2>5 DEF UpdateVersion
  <2>7. /\ ver'[v].run = ver[v].run
        /\ ver'[v].validation = (IF passed THEN "passed" ELSE "failed")
        /\ ver'[v].status \in {"validated", "rejected"}
    BY <1>0, <2>5 DEF UpdateVersion, VersionState
  <2> QED BY <2>1, <2>4, <2>6, <2>7 DEF Exists
<1> QED BY <1>1, <1>2

(* ... and no other step does.                                             *)
LEMMA VersionsGo ==
  ASSUME SupervisorAssumption, RegistryAssumption, TypeOK, Inductive, [Next]_vars
  PROVE  \/ VersionsKept
         \/ \E t \in Thread : CompleteExecute(t) \/ \E passed \in BOOLEAN : CompleteVerify(t, passed)
<1>0. RegistryTypeOK /\ "superseded" \in VersionStatus /\ "rolled_back" \in VersionStatus
  BY DEF TypeOK, VersionStatus
<1>1. UNCHANGED ver => VersionsKept
  BY DEF VersionsKept
<1>2. CASE Quiet \/ (\E r \in Run : Approve(r))
           \/ \E r \in Run, decision \in {"retry", "abort"} : ResolveRecovery(r, decision)
  BY <1>1, <1>2 DEF Quiet, Approve, ResolveRecovery, registry
<1>3. ASSUME NEW t \in Thread, Dispatch(t) \/ FailExternalStep(t)
      PROVE  VersionsKept
  BY <1>1, <1>3 DEF Dispatch, FailExternalStep, registry
<1>4. ASSUME NEW t \in Thread, NEW node \in ExternalNode, BeginExternalStep(t, node)
      PROVE  VersionsKept
  BY <1>1, <1>4 DEF BeginExternalStep, registry
<1>5. ASSUME NEW t \in Thread, PromoteCandidate(t) \/ CommitRollback(t)
      PROVE  VersionsKept
  BY <1>0, <1>5, PointerKeepsVersions DEF PromoteCandidate, Promote, CommitRollback, Rollback
<1> QED BY <1>2, <1>3, <1>4, <1>5, Steps

(* A channel's version exists.                                             *)
LEMMA ActiveExists ==
  ASSUME RegistryTypeOK, [RegistryNext]_registry,
         \A c \in Channel : active[c] # None => Exists(active[c])
  PROVE  \A c \in Channel : active'[c] # None => Exists(active[c])'
<1>1. UNCHANGED registry => \A c \in Channel : active'[c] # None => Exists(active[c])'
  BY DEF registry, Exists
<1>2. ASSUME NEW d, NEW v, Exists(v), NEW demoted \in VersionStatus, NEW row,
             MovePointer(d, v, demoted, row), NEW c \in Channel, active'[c] # None
      PROVE  Exists(active[c])'
  <2>1. VersionsKept
    BY <1>2, PointerKeepsVersions
  <2>2. active'[c] \in {active[c], v}
    BY <1>2 DEF MovePointer, RegistryTypeOK
  <2> QED BY <1>2, <2>1, <2>2 DEF VersionsKept, Exists
<1>3. ASSUME NEW v \in Version, NEW r, NEW base, InsertVersion(v, r, base),
             NEW c \in Channel, active'[c] # None
      PROVE  Exists(active[c])'
  <2>1. /\ active' = active /\ ver'[v].status = "candidate"
        /\ \A w \in Version \ {v} : ver'[w] = ver[w]
    BY <1>3 DEF InsertVersion, RegistryTypeOK
  <2> QED BY <1>3, <2>1 DEF Exists
<1>4. ASSUME NEW v \in Version, NEW passed \in BOOLEAN, UpdateVersion(v, passed),
             NEW c \in Channel, active'[c] # None
      PROVE  Exists(active[c])'
  <2>1. /\ active' = active /\ ver'[v].status \in {"validated", "rejected"}
        /\ \A w \in Version \ {v} : ver'[w] = ver[w]
    BY <1>4 DEF UpdateVersion, RegistryTypeOK, VersionState
  <2> QED BY <1>4, <2>1 DEF Exists
<1>5. "superseded" \in VersionStatus /\ "rolled_back" \in VersionStatus
  BY DEF VersionStatus
<1> QED
  BY <1>1, <1>2, <1>3, <1>4, <1>5 DEF RegistryNext, Promote, Rollback, RollbackAccepted

LEMMA SettledSteps ==
  ASSUME SupervisorAssumption, RegistryAssumption, TypeOK, TypeOK', Inductive, LeaseInductive,
         Settled, [RegistryNext]_registry, [Next]_vars
  PROVE  Settled'
<1>0. /\ RegistryTypeOK /\ run \in [Run -> RunState] /\ thr \in [Thread -> Driver]
      /\ asking \in [Run -> Version \cup {None}] /\ ver \in [Version -> VersionState]
      /\ \A t \in Thread : ~At(t, "idle") => thr[t].run \in Run
  BY DEF TypeOK, RegistryTypeOK, Inductive, DriversHaveRuns
<1>1. \A q \in Run :
        /\ Goes(run[q], run'[q]) \/ CreateRun(q)
        /\ Unapproved(run'[q]) =>
             /\ run'[q].candidate = run[q].candidate
             /\ \/ Unapproved(run[q])
                \/ \E t \in Thread : thr[t].run = q /\ CompleteVerify(t, TRUE)
  BY RunsGo DEF Settled
<1>2. \A q \in Run : CreateRun(q) => run'[q].status = "running"
  BY <1>0 DEF CreateRun, Absent
<1>3. \A q \in Run : Created(q) => Created(q)'
  BY <1>1, <1>2 DEF Created, Goes
<1>4. \A q \in Run : Awaiting(q)' => run'[q].node = "hitl"
  BY <1>1, <1>2 DEF Awaiting, Goes
<1>5. ASSUME NEW q \in Run, Unapproved(run'[q])
      PROVE  Passed(run[q].candidate)'
  <2>1. run'[q].candidate = run[q].candidate
    BY <1>1, <1>5
  <2>2. CASE Unapproved(run[q])
    <3>1. Passed(run[q].candidate)
      BY <2>2 DEF Settled
    <3>2. VerdictsKept
      BY VerdictsStay
    <3> QED BY <2>1, <3>1, <3>2 DEF Passed, VerdictsKept
  <2>3. ASSUME NEW t \in Thread, thr[t].run = q, CompleteVerify(t, TRUE)
        PROVE  Passed(run[q].candidate)'
    <3>1. PICK v \in Version : v = run[thr[t].run].candidate /\ ver'[v].validation = "passed"
      BY <2>3, ResultsVersions
    <3>2. run'[q].candidate = v
      BY <2>1, <2>3, <3>1
    <3> QED BY <3>1, <3>2 DEF Passed
  <2> QED BY <1>1, <1>5, <2>2, <2>3
<1>6. ASSUME NEW q \in Run, asking'[q] # None
      PROVE  Created(q)'
  <2>1. asking[q] # None \/ Created(q)
    <3>1. CASE \E r \in Run : \E target \in Nameable(ChannelOf[r]) : AskRollback(r, target)
      BY <1>0, <1>6, <3>1 DEF AskRollback
    <3>2. CASE \E r \in Run : RequestRollback(r)
      BY <1>0, <1>6, <3>2 DEF RequestRollback
    <3>3. ASSUME NEW r \in Run, Operate(r), ~RequestRollback(r),
                 ~(\E target \in Nameable(ChannelOf[r]) : AskRollback(r, target))
          PROVE  UNCHANGED asking
      BY <3>3 DEF Operate, Steer, CreateRun, Pause, Resume, Approve, Revise, Reject, ResolveRecovery,
         DecideRollback, Cancel
    <3>4. ASSUME NEW t \in Thread, Drive(t) \/ Abort(t)
          PROVE  UNCHANGED asking
      BY <3>4 DEF Drive, Restore, MarkRecoveryRequired, Dispatch, PauseAtBoundary,
         BeginExternalStep, CompleteExecute, CompleteVerify, FailExternalStep, CommitStep,
         RequestHuman, PromoteCandidate, PromotionConflict, RecordConflict, ReadRollbackTarget,
         ReadRollbackFrom, CommitRollback, Raise, Release, Abort
    <3>5. CASE UNCHANGED asking
      BY <1>6, <3>5
    <3> QED
      BY <3>1, <3>2, <3>3, <3>4, <3>5 DEF Next, Acquire, Heartbeat, LeaseLapse, Crash, vars
  <2> QED BY <1>3, <2>1 DEF Settled
<1>7. ASSUME NEW t \in Thread, ~At(t, "idle")'
      PROVE  Created(thr[t].run)'
  <2>1. \/ ~At(t, "idle") /\ thr'[t].run = thr[t].run
        \/ \E r \in Run : thr'[t].run = r /\ Created(r)
    <3>1. ASSUME NEW u \in Thread, Drive(u) \/ Abort(u), ~Release(u)
          PROVE  ~At(t, "idle") /\ thr'[t].run = thr[t].run
      BY <1>7, <3>1, DrivingKeepsRun DEF KeepsRun, At
    <3>2. CASE \E u \in Thread : Release(u)
      BY <1>0, <1>7, <3>2 DEF Release, Idle, At
    <3>3. CASE \E u \in Thread, r \in Run : Acquire(u, r)
      BY <1>0, <1>7, <3>3 DEF Acquire, Idle, At
    <3>4. CASE \E w \in Worker : Crash(w)
      BY <1>0, <1>7, <3>4 DEF Crash, Idle, At
    <3>5. ASSUME NEW r \in Run, Operate(r)
          PROVE  UNCHANGED thr
      BY <3>5 DEF Operate, Steer, CreateRun, Pause, Resume, Approve, Revise, Reject, ResolveRecovery,
         DecideRollback, AskRollback, RequestRollback, Cancel
    <3>6. CASE UNCHANGED thr
      BY <1>7, <3>6 DEF At
    <3> QED
      BY <3>1, <3>2, <3>3, <3>4, <3>5, <3>6 DEF Next, Heartbeat, LeaseLapse, vars
  <2> QED BY <1>0, <1>3, <2>1 DEF Settled, Created
<1>8. ASSUME NEW v \in Version, ver'[v].run \in Run
      PROVE  Created(ver[v].run)'
  <2>1. \/ ver'[v].run = ver[v].run
        \/ \E t \in Thread : CompleteExecute(t) /\ ver'[v].run = thr[t].run
    <3>1. CASE VersionsKept
      BY <3>1 DEF VersionsKept
    <3>2. ASSUME NEW t \in Thread, CompleteExecute(t)
          PROVE  ver'[v].run \in {ver[v].run, thr[t].run}
      BY <3>2, ResultsVersions
    <3>3. ASSUME NEW t \in Thread, NEW passed \in BOOLEAN, CompleteVerify(t, passed)
          PROVE  ver'[v].run = ver[v].run
      BY <3>3, ResultsVersions
    <3> QED BY <3>1, <3>2, <3>3, VersionsGo
  <2>2. CASE ver'[v].run = ver[v].run
    BY <1>3, <1>8, <2>2 DEF Settled, Created
  <2>3. ASSUME NEW t \in Thread, CompleteExecute(t), ver'[v].run = thr[t].run
        PROVE  Created(ver[v].run)'
    <3>1. thr[t].run \in Run /\ Created(thr[t].run)
      BY <1>0, <2>3 DEF CompleteExecute, Settled, At
    <3> QED BY <1>3, <2>3, <3>1 DEF Created
  <2> QED BY <2>1, <2>2, <2>3
<1>9. \A c \in Channel : active'[c] # None => Exists(active[c])'
  BY <1>0, ActiveExists DEF Settled
<1> QED BY <1>4, <1>5, <1>6, <1>7, <1>8, <1>9 DEF Settled

LEMMA SettledInitially ==
  ASSUME RegistryAssumption, LeaseHonoured, Init
  PROVE  Settled
BY DEF Init, RegistryInit, LeaseHonoured, Settled, Awaiting, Unapproved, At, Idle, Absent

LEMMA SettledInvariant ==
  ASSUME LeaseHonoured
  PROVE  Spec => []Settled
<1>1. Init => Settled
  BY LeaseHonoured, SettledInitially, RegistryAssumption
<1>2. TypeOK /\ TypeOK' /\ Inductive /\ LeaseInductive /\ Settled
        /\ [RegistryNext]_registry /\ [Next]_vars => Settled'
  BY SettledSteps, SupervisorAssumption, RegistryAssumption
<1> QED BY <1>1, <1>2, LeaseInvariant, Implements, PTL DEF Spec, RegistrySpec

------------------------------------------------------------------------------
(* The life of a run, RunLifecycle.tla.                                    *)

(* A driver on its way to write what it does at a boundary has read that   *)
(* the run is running; operators may have paused or cancelled it since.    *)
OnTheWay == Writing \cup {"pause"}
MayBeDriven == {"running", "paused", "cancelled"}

LateDrivers ==
  \A t \in Thread : thr[t].pc \in OnTheWay => run[thr[t].run].status \in MayBeDriven

(* How a driver gets on its way.                                           *)
LEMMA OnTheWayFrom ==
  ASSUME TypeOK, TypeOK', NEW t \in Thread, Drive(t) \/ Abort(t), thr'[t].pc \in OnTheWay
  PROVE  /\ UNCHANGED run /\ thr'[t].run = thr[t].run
         /\ thr[t].pc \in OnTheWay \/ run[thr[t].run].status = "running"
<1>0. thr[t] \in Driver /\ thr \in [Thread -> Driver] /\ thr'[t] \in Driver
  BY DEF TypeOK
<1>1. ASSUME thr'[t].pc \in {"release", "idle", "loop", "recover", "executing", "verifying"}
      PROVE  FALSE
  BY <1>1 DEF OnTheWay, Writing
<1>2. Leave(t) => thr'[t].pc = "release"
  BY <1>0 DEF Leave, Idle
<1>3. \A pc \in Pc : Goto(t, pc) => thr'[t].pc = pc /\ thr'[t].run = thr[t].run
  BY <1>0 DEF Goto, Driver
<1>4. CASE MarkRecoveryRequired(t) \/ PauseAtBoundary(t) \/ RequestHuman(t)
           \/ PromoteCandidate(t) \/ RecordConflict(t) \/ CommitRollback(t) \/ Raise(t) \/ Abort(t)
  BY <1>1, <1>2, <1>4 DEF MarkRecoveryRequired, PauseAtBoundary, RequestHuman, PromoteCandidate,
     RecordConflict, CommitRollback, Raise, Abort
<1>5. CASE Restore(t)
  BY <1>1, <1>3, <1>5 DEF Restore, Pc
<1>6. CASE Release(t)
  BY <1>0, <1>1, <1>6 DEF Release, Idle
<1>7. CASE \E node \in ExternalNode : BeginExternalStep(t, node)
  <2>1. thr'[t].pc \in {"executing", "verifying"}
    BY <1>0, <1>7 DEF BeginExternalStep, Driver
  <2> QED BY <1>1, <2>1
<1>8. CASE ResultCommitted(t)
  <2>1. \E s, outcome : CommitStep(t, s, outcome)
    BY <1>8 DEF ResultCommitted, CompleteExecute, CompleteVerify, FailExternalStep
  <2>2. thr'[t].pc \in {"release", "loop"}
    BY <1>0, <1>2, <2>1 DEF CommitStep, Idle
  <2> QED BY <1>1, <2>2
<1>9. CASE Dispatch(t)
  <2>1. ~Leave(t)
    BY <1>1, <1>2
  <2>2. thr'[t].run = thr[t].run
    BY <1>0, <1>3, <1>9, <2>1 DEF Dispatch, Pc, Driver
  <2> QED BY <1>9, <2>1, <2>2 DEF Dispatch, Stops
<1>10. CASE PromotionConflict(t) \/ ReadRollbackTarget(t) \/ ReadRollbackFrom(t)
  <2>1. UNCHANGED run /\ thr[t].pc \in OnTheWay
    BY <1>10 DEF PromotionConflict, ReadRollbackTarget, ReadRollbackFrom, At, OnTheWay, Writing
  <2>2. thr'[t].run = thr[t].run
    BY <1>0, <1>3, <1>10 DEF PromotionConflict, ReadRollbackTarget, ReadRollbackFrom, Pc, Driver
  <2> QED BY <2>1, <2>2
<1> QED BY <1>4, <1>5, <1>6, <1>7, <1>8, <1>9, <1>10 DEF Drive, ResultCommitted

(* What commands do to a run that may be driven.                           *)
LEMMA CommandsLeaveDriven ==
  ASSUME TypeOK, NEW r \in Run, Operate(r), run[r].status \in MayBeDriven
  PROVE  run'[r].status \in MayBeDriven
<1>0. run[r] \in RunState /\ run \in [Run -> RunState]
  BY DEF TypeOK
<1>1. CASE Pause(r)
  BY <1>0, <1>1 DEF Pause, RunState, MayBeDriven
<1>2. CASE Resume(r)
  BY <1>0, <1>2 DEF Resume, RunState, MayBeDriven
<1>3. CASE RequestRollback(r)
  BY <1>0, <1>3 DEF RequestRollback, RunState, MayBeDriven
<1>4. CASE Cancel(r)
  BY <1>0, <1>4 DEF Cancel, RunState, MayBeDriven
<1>5. CASE \E target \in Nameable(ChannelOf[r]) : AskRollback(r, target)
  BY <1>5 DEF AskRollback
<1>6. ~CreateRun(r) /\ ~Awaiting(r) /\ \A decision : ~ResolveRecovery(r, decision)
  BY DEF CreateRun, Created, Awaiting, ResolveRecovery, MayBeDriven
<1> QED
  BY <1>1, <1>2, <1>3, <1>4, <1>5, <1>6 DEF Operate, Steer, Approve, Revise, Reject, DecideRollback

LEMMA LateSteps ==
  ASSUME SupervisorAssumption, TypeOK, TypeOK', Inductive, LeaseInductive, LateDrivers,
         [Next]_vars
  PROVE  LateDrivers'
<1> SUFFICES ASSUME NEW u \in Thread, thr'[u].pc \in OnTheWay
             PROVE  run'[thr'[u].run].status \in MayBeDriven
  BY DEF LateDrivers
<1>0. /\ thr \in [Thread -> Driver] /\ run \in [Run -> RunState] /\ RestingRunsHaveNoStep
      /\ \A t \in Thread : ~At(t, "idle") => thr[t].run \in Run
      /\ \A r \in Run : Fits(run[r])
      /\ thr'[u].pc \notin {"idle", "restore"}
  BY DEF TypeOK, Inductive, DriversHaveRuns, LeaseInductive, OnTheWay, Writing
<1>1. ASSUME UNCHANGED run, thr'[u] = thr[u]
      PROVE  run'[thr'[u].run].status \in MayBeDriven
  BY <1>1 DEF LateDrivers
<1>2. ASSUME NEW t \in Thread, Drive(t) \/ Abort(t), ~Release(t)
      PROVE  run'[thr'[u].run].status \in MayBeDriven
  <2>1. KeepsRun(t) /\ ~At(t, "idle")
    BY <1>2, DrivingKeepsRun
  <2>2. CASE t = u
    <3>1. /\ UNCHANGED run /\ thr'[t].run = thr[t].run
          /\ thr[t].pc \in OnTheWay \/ run[thr[t].run].status = "running"
      BY <1>2, <2>2, OnTheWayFrom
    <3> QED BY <2>2, <3>1 DEF LateDrivers, MayBeDriven
  <2>3. CASE t # u
    <3>1. thr'[u] = thr[u]
      BY <2>1, <2>3 DEF KeepsRun
    <3>2. ~At(u, "idle") /\ thr[u].run \in Run /\ thr[t].run \in Run
      BY <1>0, <2>1, <3>1 DEF At
    <3>3. thr[u].run # thr[t].run
      BY <2>1, <2>3 DEF LeaseInductive, OneDriver
    <3>4. run'[thr[u].run] = run[thr[u].run]
      BY <1>0, <1>2, <2>1, <3>2, <3>3, DriversFit DEF LeaseInductive
    <3> QED BY <3>1, <3>4 DEF LateDrivers
  <2> QED BY <2>2, <2>3
<1>3. ASSUME NEW r \in Run, Operate(r)
      PROVE  run'[thr'[u].run].status \in MayBeDriven
  <2>1. UNCHANGED thr /\ \A q \in Run \ {r} : run'[q] = run[q]
    BY <1>0, <1>3, CommandsFit
  <2>2. thr[u].run \in Run /\ run[thr[u].run].status \in MayBeDriven
    BY <1>0, <2>1 DEF LateDrivers, At
  <2> QED BY <1>3, <2>1, <2>2, CommandsLeaveDriven
<1>4. CASE \E t \in Thread : Release(t)
  BY <1>0, <1>1, <1>4 DEF Release, Idle
<1>5. CASE \E t \in Thread, r \in Run : Acquire(t, r)
  BY <1>0, <1>1, <1>5 DEF Acquire, Idle
<1>6. CASE \E w \in Worker : Crash(w)
  BY <1>0, <1>1, <1>6 DEF Crash, Idle
<1>7. CASE (\E t \in Thread : Heartbeat(t)) \/ (\E r \in Run : LeaseLapse(r)) \/ UNCHANGED vars
  BY <1>1, <1>7 DEF Heartbeat, LeaseLapse, vars
<1> QED BY <1>2, <1>3, <1>4, <1>5, <1>6, <1>7 DEF Next

LEMMA LateInvariant ==
  ASSUME LeaseHonoured
  PROVE  Spec => []LateDrivers
<1>1. Init => LateDrivers
  BY DEF Init, LateDrivers, OnTheWay, Writing, Idle
<1>2. TypeOK /\ TypeOK' /\ Inductive /\ LeaseInductive /\ LateDrivers /\ [Next]_vars
        => LateDrivers'
  BY LateSteps, SupervisorAssumption
<1> QED BY <1>1, <1>2, LeaseInvariant, PTL DEF Spec

(* What the variables of RunLifecycle stand for.                           *)
Lives ==
  <<[r \in Run |-> run[r].status], [r \in Run |-> run[r].step], [r \in Run |-> run[r].pause],
    [s \in Step |-> stepLog[s].outcome], active>>

(* How a run's state s is followed by n where no call begins or ends and   *)
(* nothing is released.                                                    *)
BetweenCalls(s, n) ==
  \/ n.status = s.status /\ n.pause = s.pause
  \/ s.status = "absent" /\ n.status = "running" /\ ~n.pause
  \/ /\ s.status = "running" /\ s.step # None
     /\ \/ n.status = "running" /\ n.pause
        \/ n.status = "recovery_required" /\ n.pause = s.pause
  \/ /\ s.status # "absent" /\ s.step = None
     /\ \/ s.status \in MayBeDriven /\ n.status = "paused" /\ ~n.pause
        \/ s.status \in MayBeDriven /\ n.status = "awaiting_human" /\ n.pause = s.pause
        \/ s.status = "awaiting_human" /\ n.status \in {"running", "failed"} /\ n.pause = s.pause
        \/ n.status = "running" /\ ~n.pause
        \/ s.status \notin Terminal /\ n.status = "cancelled" /\ ~n.pause

(* Only run r changes.                                                     *)
LEMMA OneLife ==
  ASSUME run \in [Run -> RunState], run' \in [Run -> RunState], NEW r \in Run,
         \A q \in Run \ {r} : run'[q] = run[q]
  PROVE  /\ [q \in Run |-> run'[q].status] =
              [[q \in Run |-> run[q].status] EXCEPT ![r] = run'[r].status]
         /\ [q \in Run |-> run'[q].step] =
              [[q \in Run |-> run[q].step] EXCEPT ![r] = run'[r].step]
         /\ [q \in Run |-> run'[q].pause] =
              [[q \in Run |-> run[q].pause] EXCEPT ![r] = run'[r].pause]
OBVIOUS

LEMMA SameLife ==
  ASSUME NEW r \in Run, \A q \in Run \ {r} : run'[q] = run[q]
  PROVE  /\ run'[r].step = run[r].step =>
              [q \in Run |-> run'[q].step] = [q \in Run |-> run[q].step]
         /\ run'[r].pause = run[r].pause =>
              [q \in Run |-> run'[q].pause] = [q \in Run |-> run[q].pause]
<1>1. ASSUME run'[r].step = run[r].step
      PROVE  \A q \in Run : run'[q].step = run[q].step
  BY <1>1
<1>2. ASSUME run'[r].pause = run[r].pause
      PROVE  \A q \in Run : run'[q].pause = run[q].pause
  BY <1>2
<1> QED BY <1>1, <1>2

LEMMA NoStepNoChange ==
  ASSUME UNCHANGED <<run, stepLog, active>>
  PROVE  UNCHANGED Lives
BY DEF Lives

LEMMA LifeBetweenCalls ==
  ASSUME TypeOK, TypeOK', NEW r \in Run, \A q \in Run \ {r} : run'[q] = run[q],
         BetweenCalls(run[r], run'[r]), run'[r].step = run[r].step,
         UNCHANGED <<stepLog, active>>
  PROVE  [Life!Next]_Lives
<1> DEFINE st == [q \in Run |-> run[q].status]
           cl == [q \in Run |-> run[q].step]
           ws == [q \in Run |-> run[q].pause]
<1>0. run[r] \in RunState /\ run'[r] \in RunState
  BY DEF TypeOK
<1>1. /\ st' = [st EXCEPT ![r] = run'[r].status]
      /\ cl' = [cl EXCEPT ![r] = run'[r].step]
      /\ ws' = [ws EXCEPT ![r] = run'[r].pause]
  BY OneLife DEF TypeOK
<1>2. st[r] = run[r].status /\ cl[r] = run[r].step /\ ws[r] = run[r].pause
  OBVIOUS
<1>3. /\ run'[r].status = run[r].status => st' = st
      /\ run'[r].pause = run[r].pause => ws' = ws
      /\ cl' = cl
  BY <1>1, <1>2
<1>4. run[r].pause \in BOOLEAN /\ run'[r].pause \in BOOLEAN
  BY <1>0 DEF RunState
<1>5. UNCHANGED <<[s \in Step |-> stepLog[s].outcome], active>>
  OBVIOUS
<1>6. CASE run'[r].status = run[r].status /\ run'[r].pause = run[r].pause
  BY <1>3, <1>5, <1>6 DEF Lives
<1>7. CASE run[r].status = "absent" /\ run'[r].status = "running" /\ ~run'[r].pause
  <2>1. Life!Create(r)
    BY <1>1, <1>2, <1>3, <1>4, <1>5, <1>7 DEF Life!Create, Life!Becomes, Life!Forgets
  <2> QED BY <2>1 DEF Life!Next
<1>8. CASE run[r].status = "running" /\ run[r].step # None /\ run'[r].status = "running"
           /\ run'[r].pause
  <2>1. Life!WantPause(r)
    BY <1>1, <1>2, <1>3, <1>4, <1>5, <1>8 DEF Life!WantPause
  <2> QED BY <2>1 DEF Life!Next
<1>9. CASE run[r].status = "running" /\ run[r].step # None
           /\ run'[r].status = "recovery_required" /\ run'[r].pause = run[r].pause
  <2>1. Life!Interrupt(r)
    BY <1>1, <1>2, <1>3, <1>5, <1>9 DEF Life!Interrupt, Life!Becomes
  <2> QED BY <2>1 DEF Life!Next
<1>10. CASE run[r].status \in MayBeDriven /\ run[r].step = None /\ run'[r].status = "paused"
            /\ ~run'[r].pause
  <2>1. Life!Pause(r)
    BY <1>1, <1>2, <1>3, <1>4, <1>5, <1>10
    DEF Life!Pause, Life!Driven, Life!Between, Life!Becomes, Life!Forgets, MayBeDriven
  <2> QED BY <2>1 DEF Life!Next
<1>11. CASE run[r].status \in MayBeDriven /\ run[r].step = None
            /\ run'[r].status = "awaiting_human" /\ run'[r].pause = run[r].pause
  <2>1. Life!AskHuman(r)
    BY <1>1, <1>2, <1>3, <1>5, <1>11
    DEF Life!AskHuman, Life!Driven, Life!Between, Life!Becomes, MayBeDriven
  <2> QED BY <2>1 DEF Life!Next
<1>12. CASE run[r].status = "awaiting_human" /\ run[r].step = None
            /\ run'[r].status \in {"running", "failed"} /\ run'[r].pause = run[r].pause
  <2>1. Life!Decide(r)
    BY <1>1, <1>2, <1>3, <1>5, <1>12 DEF Life!Decide, Life!Between, Life!Becomes
  <2> QED BY <2>1 DEF Life!Next
<1>13. CASE run[r].status # "absent" /\ run[r].step = None /\ run'[r].status = "running"
            /\ ~run'[r].pause
  <2>1. Life!Reopen(r)
    BY <1>1, <1>2, <1>3, <1>4, <1>5, <1>13
    DEF Life!Reopen, Life!Between, Life!Becomes, Life!Forgets
  <2> QED BY <2>1 DEF Life!Next
<1>14. CASE run[r].status \notin Terminal \cup {"absent"} /\ run[r].step = None
            /\ run'[r].status = "cancelled" /\ ~run'[r].pause
  <2>1. Life!Cancel(r)
    BY <1>1, <1>2, <1>3, <1>4, <1>5, <1>14
    DEF Life!Cancel, Life!Between, Life!Becomes, Life!Forgets, Life!Ended, Terminal
  <2> QED BY <2>1 DEF Life!Next
<1> HIDE DEF st, cl, ws
<1> QED
  BY <1>6, <1>7, <1>8, <1>9, <1>10, <1>11, <1>12, <1>13, <1>14 DEF BetweenCalls

(* A call that ends.                                                       *)
LEMMA LifeCloses ==
  ASSUME SupervisorAssumption, TypeOK, TypeOK', NEW r \in Run, NEW how \in Outcome,
         \A q \in Run \ {r} : run'[q] = run[q],
         run[r].step # None, run'[r].step = None, stepLog[run[r].step].outcome = "started",
         stepLog'[run[r].step].outcome = how,
         \A s \in Step : s # run[r].step => stepLog'[s].outcome = stepLog[s].outcome,
         UNCHANGED active
  PROVE  /\ Life!Close(r, how)
         /\ Life!Becomes(r, run'[r].status)
         /\ ~run'[r].pause => Life!Forgets(r)
         /\ run'[r].pause = run[r].pause =>
              UNCHANGED [q \in Run |-> run[q].pause]
<1> DEFINE st == [q \in Run |-> run[q].status]
           cl == [q \in Run |-> run[q].step]
           ws == [q \in Run |-> run[q].pause]
           oc == [s \in Step |-> stepLog[s].outcome]
<1>0. run[r] \in RunState /\ run'[r] \in RunState /\ run[r].step \in Step
      /\ run[r].pause \in BOOLEAN /\ run'[r].pause \in BOOLEAN
  BY DEF TypeOK, RunState
<1>1. /\ st' = [st EXCEPT ![r] = run'[r].status]
      /\ cl' = [cl EXCEPT ![r] = run'[r].step]
      /\ ws' = [ws EXCEPT ![r] = run'[r].pause]
  BY OneLife DEF TypeOK
<1>2. st[r] = run[r].status /\ cl[r] = run[r].step /\ ws[r] = run[r].pause
  OBVIOUS
<1>3. oc' = [oc EXCEPT ![run[r].step] = how] /\ oc[run[r].step] = "started"
  BY <1>0
<1>4. Life!Close(r, how)
  BY <1>1, <1>2, <1>3 DEF Life!Close
<1>5. Life!Becomes(r, run'[r].status)
  BY <1>1 DEF Life!Becomes
<1>6. ~run'[r].pause => Life!Forgets(r)
  BY <1>0, <1>1 DEF Life!Forgets
<1>7. run'[r].pause = run[r].pause => ws' = ws
  BY <1>1, <1>2
<1> QED BY <1>4, <1>5, <1>6, <1>7

LEMMA LifeSteps ==
  ASSUME NEW r \in Run,
         Life!Begin(r) \/ Life!Answer(r) \/ Life!Resolve(r) \/ Life!Release(r)
  PROVE  [Life!Next]_Lives
BY DEF Life!Next

LEMMA LifeAnswers ==
  ASSUME NEW r \in Run, NEW how \in {"completed", "failed"}, run[r].status = "running",
         Life!Close(r, how), Life!Becomes(r, run'[r].status), Life!Forgets(r),
         run'[r].status = IF run[r].pause THEN "paused" ELSE "running"
  PROVE  [Life!Next]_Lives
<1>1. /\ [q \in Run |-> run[q].status][r] = run[r].status
      /\ [q \in Run |-> run[q].pause][r] = run[r].pause
  OBVIOUS
<1>2. Life!Close(r, "completed") \/ Life!Close(r, "failed")
  BY DEF Life!Close
<1> DEFINE wish == [q \in Run |-> run[q].pause]
           next == IF wish[r] THEN "paused" ELSE "running"
<1>3. Life!Becomes(r, next)
  <2>1. run'[r].status = next
    BY <1>1
  <2> HIDE DEF next
  <2> QED BY <2>1 DEF Life!Becomes
<1>4. Life!Answer(r)
  BY <1>1, <1>2, <1>3 DEF Life!Answer, Life!Close, Life!Becomes, Life!Forgets
<1> QED BY <1>4, LifeSteps

(* The result of a call is an answer, and keeps a wish for a pause.        *)
LEMMA AnswersCommit ==
  ASSUME SupervisorAssumption, TypeOK, NEW t \in Thread, thr[t].run \in Run, ResultCommitted(t)
  PROVE  /\ \E s \in RunState, outcome \in {"completed", "failed"} :
              CommitStep(t, s, outcome) /\ s.pause = run[thr[t].run].pause
         /\ UNCHANGED active /\ thr[t].pc \in {"executing", "verifying"}
<1> DEFINE r == thr[t].run
<1>0. run[r] \in RunState /\ run \in [Run -> RunState]
  BY DEF TypeOK
<1>1. ASSUME NEW node \in ExternalNode
      PROVE  AfterFailure(r, node) \in RunState /\ AfterFailure(r, node).pause = run[r].pause
  <2>1. AfterFailure(r, node) \in RunState
    BY <1>0, AfterFailureType
  <2>2. AfterFailure(r, node).pause = run[r].pause
    BY <1>0, <2>1 DEF AfterFailure, RunState
  <2> QED BY <2>1, <2>2
<1>2. CASE CompleteExecute(t)
  <2> DEFINE v == CHOOSE i \in FreeVersion : TRUE
             s == [run[r] EXCEPT !.node = RouteOf(r).execute.completed,
                                 !.candidate = v, !.reason = "none"]
  <2>1. v \in Version /\ CommitStep(t, s, "completed") /\ At(t, "executing") /\ UNCHANGED active
    BY <1>2 DEF CompleteExecute, FreeVersion, InsertVersion
  <2> HIDE DEF v
  <2>2. s \in RunState /\ s.pause = run[r].pause
    BY <1>0, <2>1, Routes DEF RunState, NodeName, Reason
  <2> QED BY <2>1, <2>2 DEF At
<1>3. ASSUME NEW passed \in BOOLEAN, CompleteVerify(t, passed)
      PROVE  /\ \E s \in RunState : CommitStep(t, s, "completed") /\ s.pause = run[r].pause
             /\ At(t, "verifying") /\ UNCHANGED active
  <2> DEFINE next == RouteOf(r).verify.passed
             good == [run[r] EXCEPT !.node = next,
                        !.reason = IF next = "hitl" THEN "approval_required" ELSE "none"]
             s == IF passed THEN good ELSE AfterFailure(r, "verify")
  <2>1. next \in {"hitl", "promote"}
    BY Routes
  <2>2. CommitStep(t, s, "completed") /\ At(t, "verifying") /\ UNCHANGED active
    BY <1>3 DEF CompleteVerify, UpdateVersion
  <2> HIDE DEF next
  <2>3. good \in RunState /\ good.pause = run[r].pause
    BY <1>0, <2>1 DEF RunState, NodeName, Reason
  <2>4. /\ AfterFailure(r, "verify") \in RunState
        /\ AfterFailure(r, "verify").pause = run[r].pause
    BY <1>1 DEF ExternalNode
  <2> HIDE DEF good
  <2>5. s \in RunState /\ s.pause = run[r].pause
    BY <2>3, <2>4
  <2> QED BY <2>2, <2>5
<1>4. CASE FailExternalStep(t)
  BY <1>1, <1>4 DEF FailExternalStep, ExternalNode, registry, At
<1> QED BY <1>2, <1>3, <1>4 DEF ResultCommitted, At

(* A driver's step is a step of its run's life or none.                    *)
LEMMA DriversLive ==
  ASSUME SupervisorAssumption, RegistryAssumption, TypeOK, TypeOK', Inductive, LeaseInductive,
         LateDrivers, NEW t \in Thread, Drive(t) \/ Abort(t), ~Release(t),
         NEW r \in Run, thr[t].run = r
  PROVE  [Life!Next]_Lives
<1>0. /\ run[r] \in RunState /\ run'[r] \in RunState
      /\ run \in [Run -> RunState] /\ run' \in [Run -> RunState]
      /\ Fits(run[r]) /\ Knows(thr[t], run[r]) /\ None \notin Step
  <2>1. ~At(t, "idle")
    BY DrivingKeepsRun
  <2> QED BY <2>1 DEF Inductive, LeaseInductive, TypeOK, SupervisorAssumption
<1>1. \A q \in Run \ {r} : run'[q] = run[q]
  BY <1>0, DriversFit
<1>2. CASE UNCHANGED <<run, stepLog, active>>
  BY <1>2, NoStepNoChange
<1>3. ASSUME BetweenCalls(run[r], run'[r]), run'[r].step = run[r].step,
             UNCHANGED <<stepLog, active>>
      PROVE  [Life!Next]_Lives
  BY <1>0, <1>1, <1>3, LifeBetweenCalls
<1>4. CASE MarkRecoveryRequired(t)
  <2>1. /\ run'[r].status = "recovery_required" /\ run'[r].pause = run[r].pause
        /\ run'[r].step = run[r].step /\ run[r].step # None
        /\ UNCHANGED <<stepLog, active>>
    BY <1>0, <1>4 DEF MarkRecoveryRequired, RunState, registry
  <2>2. run[r].status \in {"running", "recovery_required"}
    BY <1>0, <2>1 DEF Fits, RunState, RunStatus, Terminal
  <2> QED BY <1>3, <2>1, <2>2 DEF BetweenCalls
<1>5. CASE PauseAtBoundary(t)
  <2>1. /\ run'[r].status = "paused" /\ run'[r].pause = FALSE
        /\ run'[r].step = run[r].step /\ run[r].step = None
        /\ UNCHANGED <<stepLog, active>>
    BY <1>0, <1>5 DEF PauseAtBoundary, RunState, registry
  <2>2. run[r].status \in MayBeDriven
    BY <1>5 DEF PauseAtBoundary, LateDrivers, OnTheWay, At
  <2> QED BY <1>3, <2>1, <2>2 DEF BetweenCalls, MayBeDriven
<1>6. CASE RequestHuman(t)
  <2>1. /\ run'[r].status = "awaiting_human" /\ run'[r].pause = run[r].pause
        /\ run'[r].step = run[r].step /\ run[r].status = "running" /\ run[r].node = "hitl"
        /\ UNCHANGED <<stepLog, active>>
    BY <1>0, <1>6 DEF RequestHuman, RunState, registry
  <2>2. run[r].step = None
    BY <1>0, <2>1 DEF Fits, ExternalNode
  <2> QED BY <1>3, <2>1, <2>2 DEF BetweenCalls, MayBeDriven
<1>7. CASE RecordConflict(t)
  <2>1. /\ run'[r].status = "awaiting_human" /\ run'[r].pause = run[r].pause
        /\ run'[r].step = run[r].step /\ UNCHANGED <<stepLog, active>>
    BY <1>0, <1>7 DEF RecordConflict, RunState, registry
  <2>2. run[r].status \in MayBeDriven /\ run[r].step = None
    BY <1>0, <1>7 DEF RecordConflict, LateDrivers, OnTheWay, Writing, At, Knows
  <2> QED BY <1>3, <2>1, <2>2 DEF BetweenCalls, MayBeDriven
<1>8. ASSUME NEW node \in ExternalNode, BeginExternalStep(t, node)
      PROVE  [Life!Next]_Lives
  <2> DEFINE s == CHOOSE i \in UnusedStep : TRUE
  <2>1. s \in Step /\ stepLog[s].outcome = "unused"
    BY <1>8 DEF BeginExternalStep, UnusedStep
  <2>2. /\ run' = [run EXCEPT ![r].step = s, ![r].owner = WorkerOf[t]]
        /\ stepLog' = [stepLog EXCEPT ![s] = [run |-> r, node |-> node, outcome |-> "started"]]
        /\ run[r].status = "running" /\ run[r].step = None /\ thr[t].pc = node
        /\ UNCHANGED active
    BY <1>8 DEF BeginExternalStep, MayBegin, At, registry
  <2> HIDE DEF s
  <2>3. run'[r].status = run[r].status /\ run'[r].pause = run[r].pause /\ run'[r].step = s
    BY <1>0, <2>2 DEF RunState
  <2>4. run[r].pause = FALSE
    BY <1>0, <1>8, <2>2 DEF Knows, RunState
  <2> DEFINE st == [q \in Run |-> run[q].status]
             cl == [q \in Run |-> run[q].step]
             ws == [q \in Run |-> run[q].pause]
             oc == [i \in Step |-> stepLog[i].outcome]
  <2>5. /\ st' = [st EXCEPT ![r] = run'[r].status]
        /\ cl' = [cl EXCEPT ![r] = run'[r].step]
        /\ ws' = [ws EXCEPT ![r] = run'[r].pause]
    BY <1>0, <1>1, OneLife
  <2>6. st[r] = run[r].status /\ cl[r] = run[r].step /\ ws[r] = run[r].pause
    BY <1>0
  <2>7. st' = st /\ ws' = ws /\ cl' = [cl EXCEPT ![r] = s]
    BY <2>3, <2>5, <2>6
  <2>8. oc' = [oc EXCEPT ![s] = "started"] /\ oc[s] = "unused"
    BY <2>1, <2>2 DEF TypeOK
  <2>9. Life!Begin(r)
    BY <2>1, <2>2, <2>4, <2>6, <2>7, <2>8 DEF Life!Begin
  <2> QED BY <2>9, LifeSteps
<1>9. CASE ResultCommitted(t)
  <2>1. PICK s \in RunState, outcome \in {"completed", "failed"} :
          CommitStep(t, s, outcome) /\ s.pause = run[r].pause
    BY <1>0, <1>9, AnswersCommit
  <2>2. UNCHANGED active /\ thr[t].pc \in {"executing", "verifying"}
    BY <1>0, <1>9, AnswersCommit
  <2>3. /\ run'[r] = AtBoundary(s) /\ run[r].step = thr[t].step
        /\ stepLog' = [stepLog EXCEPT ![thr[t].step].outcome = outcome]
    BY <1>0, <2>1 DEF CommitStep, OwnsStep
  <2>4. run[r].step # None /\ run[r].step \in Step /\ run[r].status = "running"
    BY <1>0, <2>2, <2>3 DEF Knows, RunState
  <2>5. stepLog[run[r].step].outcome = "started"
    BY <1>0, <2>4 DEF Inductive, PendingIsOpen
  <2>6. /\ stepLog'[run[r].step].outcome = outcome
        /\ \A i \in Step : i # run[r].step => stepLog'[i].outcome = stepLog[i].outcome
    BY <2>3, <2>4 DEF TypeOK, StepRecord
  <2>7. /\ run'[r].step = None /\ run'[r].pause = FALSE
        /\ run'[r].status = IF run[r].pause THEN "paused" ELSE "running"
    BY <2>1, <2>3 DEF AtBoundary, RunState
  <2>8. /\ Life!Close(r, outcome) /\ Life!Becomes(r, run'[r].status) /\ Life!Forgets(r)
    <3>1. outcome \in Outcome
      BY <2>1 DEF Outcome
    <3>2. run'[r].step = None /\ ~run'[r].pause
      BY <2>7
    <3> QED BY <1>1, <2>2, <2>4, <2>5, <2>6, <3>1, <3>2, LifeCloses
  <2> QED BY <2>1, <2>4, <2>7, <2>8, LifeAnswers
<1>10. CASE PromoteCandidate(t) \/ CommitRollback(t)
  <2>1. run[r].status \in MayBeDriven /\ run[r].step = None
    BY <1>0, <1>10 DEF PromoteCandidate, CommitRollback, LateDrivers, OnTheWay, Writing, At, Knows
  <2>2. thr[t].held \in Version /\ active' = [active EXCEPT ![ChannelOf[r]] = thr[t].held]
        /\ UNCHANGED stepLog
    BY <1>10 DEF PromoteCandidate, CommitRollback, Promote, Rollback, RollbackAccepted, Exists,
       MovePointer, TypeOK, Driver
  <2>3. /\ run'[r].status \in {"succeeded", "rolled_back"}
        /\ run'[r].step = run[r].step /\ run'[r].pause = run[r].pause
    <3>1. CASE PromoteCandidate(t)
      BY <1>0, <3>1 DEF PromoteCandidate, RunState
    <3>2. CASE CommitRollback(t)
      <4>1. run' = [run EXCEPT ![r].status = "rolled_back",
                               ![r].node = RouteOf(r).rollback.rolled_back,
                               ![r].base = thr[t].held, ![r].target = thr[t].held,
                               ![r].reason = "none"]
        BY <3>2 DEF CommitRollback
      <4>2. run'[r] = [run[r] EXCEPT !.status = "rolled_back",
                                     !.node = RouteOf(r).rollback.rolled_back,
                                     !.base = thr[t].held, !.target = thr[t].held,
                                     !.reason = "none"]
        BY <1>0, <4>1
      <4> QED BY <1>0, <4>2 DEF RunState
    <3> QED BY <1>10, <3>1, <3>2
  <2> DEFINE st == [q \in Run |-> run[q].status]
             cl == [q \in Run |-> run[q].step]
             ws == [q \in Run |-> run[q].pause]
             oc == [i \in Step |-> stepLog[i].outcome]
  <2>4. /\ st' = [st EXCEPT ![r] = run'[r].status]
        /\ cl' = [cl EXCEPT ![r] = run'[r].step]
        /\ ws' = [ws EXCEPT ![r] = run'[r].pause]
    BY <1>0, <1>1, OneLife
  <2>5. st[r] = run[r].status /\ cl[r] = run[r].step /\ ws[r] = run[r].pause
    BY <1>0
  <2>6. cl' = cl /\ ws' = ws /\ oc' = oc
    <3>1. cl' = cl /\ ws' = ws
      BY <1>1, <2>3, SameLife
    <3>2. oc' = oc
      BY <2>2
    <3> QED BY <3>1, <3>2
  <2>7. Life!Release(r)
    BY <2>1, <2>2, <2>3, <2>4, <2>5, <2>6
    DEF Life!Release, Life!Driven, Life!Between, Life!Becomes, MayBeDriven
  <2> QED BY <2>7, LifeSteps
<1>11. CASE Restore(t) \/ Dispatch(t) \/ PromotionConflict(t) \/ ReadRollbackTarget(t)
            \/ ReadRollbackFrom(t) \/ Raise(t) \/ Abort(t)
  BY <1>2, <1>11 DEF Restore, Dispatch, PromotionConflict, ReadRollbackTarget, ReadRollbackFrom,
     Raise, Abort, registry
<1> QED
  BY <1>4, <1>5, <1>6, <1>7, <1>8, <1>9, <1>10, <1>11 DEF Drive, ResultCommitted

(* So is a command.                                                        *)
LEMMA CommandsLive ==
  ASSUME SupervisorAssumption, TypeOK, TypeOK', Inductive, LeaseInductive,
         NEW r \in Run, Operate(r)
  PROVE  [Life!Next]_Lives
<1>0. /\ run[r] \in RunState /\ run \in [Run -> RunState] /\ Fits(run[r])
      /\ RestingRunsHaveNoStep
  BY DEF TypeOK, LeaseInductive, Inductive
<1>1. \A q \in Run \ {r} : run'[q] = run[q]
  BY <1>0, CommandsFit
<1>2. CASE UNCHANGED <<run, stepLog, active>>
  BY <1>2, NoStepNoChange
<1>3. ASSUME BetweenCalls(run[r], run'[r]), run'[r].step = run[r].step,
             UNCHANGED <<stepLog, active>>
      PROVE  [Life!Next]_Lives
  BY <1>1, <1>3, LifeBetweenCalls
<1>4. CASE CreateRun(r)
  <2>1. /\ run[r].status = "absent" /\ run'[r].status = "running" /\ run'[r].pause = FALSE
        /\ run'[r].step = None /\ UNCHANGED <<stepLog, active>>
    BY <1>0, <1>4 DEF CreateRun, Created, Absent, registry
  <2>2. run[r].step = None
    BY <1>0, <2>1 DEF RestingRunsHaveNoStep
  <2> QED BY <1>3, <2>1, <2>2 DEF BetweenCalls
<1>5. CASE Pause(r)
  <2>1. CASE run[r].step # None
    <3>1. /\ run[r].status = "running" /\ run'[r].status = "running" /\ run'[r].pause = TRUE
          /\ run'[r].step = run[r].step /\ UNCHANGED <<stepLog, active>>
      BY <1>0, <1>5, <2>1 DEF Pause, RunState, registry
    <3> QED BY <1>3, <2>1, <3>1 DEF BetweenCalls
  <2>2. CASE run[r].step = None
    <3>1. /\ run[r].status = "running" /\ run'[r].status = "paused" /\ run'[r].pause = FALSE
          /\ run'[r].step = run[r].step /\ UNCHANGED <<stepLog, active>>
      BY <1>0, <1>5, <2>2 DEF Pause, RunState, registry
    <3> QED BY <1>3, <2>2, <3>1 DEF BetweenCalls, MayBeDriven
  <2> QED BY <2>1, <2>2
<1>6. CASE Resume(r)
  <2>1. /\ run[r].status = "paused" /\ run'[r].status = "running" /\ run'[r].pause = FALSE
        /\ run'[r].step = run[r].step /\ UNCHANGED <<stepLog, active>>
    BY <1>0, <1>6 DEF Resume, RunState, registry
  <2>2. run[r].step = None
    BY <1>0, <2>1 DEF Fits
  <2> QED BY <1>3, <2>1, <2>2 DEF BetweenCalls
<1>7. CASE Approve(r) \/ Revise(r) \/ Reject(r)
           \/ \E target \in Nameable(ChannelOf[r]) \cup {None} : DecideRollback(r, target)
  <2>1. /\ run[r].status = "awaiting_human" /\ run'[r].status \in {"running", "failed"}
        /\ run'[r].pause = run[r].pause /\ run'[r].step = run[r].step
        /\ UNCHANGED <<stepLog, active>>
    <3>1. CASE Approve(r)
      BY <1>0, <3>1 DEF Approve, Awaiting, RunState, registry
    <3>2. CASE Revise(r)
      BY <1>0, <3>2 DEF Revise, Awaiting, RunState, registry
    <3>3. CASE Reject(r)
      BY <1>0, <3>3 DEF Reject, Awaiting, RunState, registry
    <3>4. CASE \E target \in Nameable(ChannelOf[r]) \cup {None} : DecideRollback(r, target)
      BY <1>0, <3>4 DEF DecideRollback, Awaiting, RunState, registry
    <3> QED BY <1>7, <3>1, <3>2, <3>3, <3>4
  <2>2. run[r].step = None
    BY <1>0, <2>1 DEF Fits
  <2> QED BY <1>3, <2>1, <2>2 DEF BetweenCalls
<1>8. ASSUME NEW decision \in {"retry", "abort"}, ResolveRecovery(r, decision)
      PROVE  [Life!Next]_Lives
  <2> DEFINE closed == [run[r] EXCEPT !.step = None, !.owner = None, !.reason = "none"]
             how == IF decision = "retry" THEN "retried" ELSE "aborted"
  <2>1. run[r].status = "recovery_required" /\ run[r].step # None /\ run[r].step \in Step
    BY <1>0, <1>8 DEF ResolveRecovery, Fits, RunState
  <2>2. closed \in RunState /\ closed.step = None /\ closed.pause = run[r].pause
    BY <1>0 DEF RunState, Reason
  <2>3. \/ decision = "retry" /\ run' = [run EXCEPT ![r] = [closed EXCEPT !.status = "running"]]
        \/ /\ decision = "abort"
           /\ run' = [run EXCEPT ![r] = [closed EXCEPT !.status = "failed", !.node = "done"]]
    BY <1>8 DEF ResolveRecovery
  <2> HIDE DEF closed
  <2>4. /\ run'[r].step = None /\ run'[r].pause = run[r].pause
        /\ run'[r].status = IF decision = "retry" THEN "running" ELSE "failed"
    <3>1. CASE decision = "retry"
      <4>1. run'[r] = [closed EXCEPT !.status = "running"]
        BY <1>0, <2>3, <3>1
      <4> QED BY <2>2, <3>1, <4>1 DEF RunState
    <3>2. CASE decision = "abort"
      <4>1. run'[r] = [closed EXCEPT !.status = "failed", !.node = "done"]
        BY <1>0, <2>3, <3>2
      <4> QED BY <2>2, <3>2, <4>1 DEF RunState
    <3> QED BY <3>1, <3>2
  <2>5. /\ stepLog'[run[r].step].outcome = how
        /\ \A i \in Step : i # run[r].step => stepLog'[i].outcome = stepLog[i].outcome
        /\ UNCHANGED active
    BY <1>8, <2>1 DEF ResolveRecovery, TypeOK, StepRecord, registry
  <2>6. stepLog[run[r].step].outcome = "started"
    BY <2>1 DEF Inductive, PendingIsOpen
  <2>7. how \in Outcome
    BY DEF Outcome
  <2>8. /\ Life!Close(r, how) /\ Life!Becomes(r, run'[r].status)
        /\ UNCHANGED [q \in Run |-> run[q].pause]
    BY <1>1, <2>1, <2>4, <2>5, <2>6, <2>7, LifeCloses
  <2>9. [q \in Run |-> run[q].status][r] = run[r].status
    OBVIOUS
  <2>10. CASE decision = "retry"
    <3>1. Life!Close(r, "retried") /\ Life!Becomes(r, "running")
      BY <2>4, <2>8, <2>10 DEF Life!Close, Life!Becomes
    <3>2. Life!Resolve(r)
      BY <2>1, <2>8, <2>9, <3>1 DEF Life!Resolve
    <3> QED BY <3>2, LifeSteps
  <2>11. CASE decision = "abort"
    <3>1. Life!Close(r, "aborted") /\ Life!Becomes(r, "failed")
      BY <2>4, <2>8, <2>11 DEF Life!Close, Life!Becomes
    <3>2. Life!Resolve(r)
      BY <2>1, <2>8, <2>9, <3>1 DEF Life!Resolve
    <3> QED BY <3>2, LifeSteps
  <2> QED BY <2>10, <2>11
<1>9. CASE RequestRollback(r)
  <2>1. CASE UNCHANGED run
    BY <1>2, <1>9, <2>1 DEF RequestRollback, registry
  <2>2. CASE ~(UNCHANGED run)
    <3>1. /\ run[r].step = None /\ run'[r].status = "running" /\ run'[r].pause = FALSE
          /\ run'[r].step = run[r].step /\ UNCHANGED <<stepLog, active>>
      BY <1>0, <1>9, <2>2 DEF RequestRollback, RunState, registry
    <3> QED BY <1>3, <3>1 DEF BetweenCalls
  <2> QED BY <2>1, <2>2
<1>10. CASE Cancel(r)
  <2>1. /\ run[r].status \notin Terminal \cup {"absent"} /\ run[r].step = None
        /\ run'[r].status = "cancelled" /\ run'[r].pause = FALSE
        /\ run'[r].step = run[r].step /\ UNCHANGED <<stepLog, active>>
    BY <1>0, <1>10 DEF Cancel, Created, RunState, registry
  <2> QED BY <1>3, <2>1 DEF BetweenCalls
<1>11. CASE \E target \in Nameable(ChannelOf[r]) : AskRollback(r, target)
  BY <1>2, <1>11 DEF AskRollback, registry
<1> QED
  BY <1>4, <1>5, <1>6, <1>7, <1>8, <1>9, <1>10, <1>11 DEF Operate, Steer

LEMMA StepsLive ==
  ASSUME SupervisorAssumption, RegistryAssumption, TypeOK, TypeOK', Inductive, LeaseInductive,
         LateDrivers, [Next]_vars
  PROVE  [Life!Next]_Lives
<1>1. ASSUME NEW t \in Thread, Drive(t) \/ Abort(t), ~Release(t)
      PROVE  [Life!Next]_Lives
  <2>1. ~At(t, "idle")
    BY <1>1, DrivingKeepsRun
  <2>2. PICK r \in Run : thr[t].run = r
    BY <2>1 DEF Inductive, DriversHaveRuns
  <2> QED BY <1>1, <2>2, DriversLive
<1>2. CASE \E r \in Run : Operate(r)
  BY <1>2, CommandsLive
<1>3. CASE UNCHANGED <<run, stepLog, active>>
  BY <1>3, NoStepNoChange
<1> QED
  BY <1>1, <1>2, <1>3 DEF Next, Release, Acquire, Heartbeat, LeaseLapse, Crash, vars, registry

(* When the lease is honoured the supervisor implements RunLifecycle: its  *)
(* drivers and commands, however they interleave, crash and are taken      *)
(* over, do to a run nothing that the life of a run does not allow: every  *)
(* call is answered once, or interrupted and resolved by a human; no call  *)
(* begins before a pause that was wanted; what is released changes only    *)
(* with the end of a run that has no call open.                            *)
THEOREM LifecycleImplemented ==
  ASSUME LeaseHonoured
  PROVE  Spec => LifecycleSpec
<1>1. Init => Life!Init
  <2> SUFFICES ASSUME Init PROVE Life!Init
    OBVIOUS
  <2>1. /\ run = [r \in Run |-> Absent] /\ active = [c \in Channel |-> None]
        /\ stepLog = [s \in Step |-> [run |-> None, node |-> "none", outcome |-> "unused"]]
    BY DEF Init, RegistryInit
  <2>2. /\ [r \in Run |-> run[r].status] = [r \in Run |-> "absent"]
        /\ [r \in Run |-> run[r].step] = [r \in Run |-> None]
        /\ [r \in Run |-> run[r].pause] = [r \in Run |-> FALSE]
        /\ [s \in Step |-> stepLog[s].outcome] = [s \in Step |-> "unused"]
    BY <2>1 DEF Absent
  <2> QED BY <2>1, <2>2 DEF Life!Init
<1>2. TypeOK /\ TypeOK' /\ Inductive /\ LeaseInductive /\ LateDrivers /\ [Next]_vars
        => [Life!Next]_Life!life
  <2>1. TypeOK /\ TypeOK' /\ Inductive /\ LeaseInductive /\ LateDrivers /\ [Next]_vars
          => [Life!Next]_Lives
    BY StepsLive, SupervisorAssumption, RegistryAssumption
  <2> QED BY <2>1 DEF Lives, Life!life
<1> QED BY <1>1, <1>2, LeaseInvariant, LateInvariant, PTL DEF Spec, LifecycleSpec, Life!Spec

------------------------------------------------------------------------------
(* What a driver finds when it goes on: a run on the course the driver is  *)
(* on, or one that an operator took off it in one of a few ways.           *)
RollingBack == {"rollback_target", "rollback_from", "rollback_commit"}

(* What became of run s of a driver with record d, of worker w.            *)
OnCourse(d, w, s) ==
  /\ d.pc = "pause" => s.step = None
  /\ d.pc \in {"executing", "verifying"} => s.step = d.step /\ s.owner = w
  /\ d.pc \in {"loop"} \cup ExternalNode /\ s.step # None => s.owner = w
  /\ d.pc \in ExternalNode \cup {"hitl"} =>
       s.status \in MayBeDriven /\ s.node \in {d.pc, "rollback", "done"}
  /\ d.pc \in RollingBack => s.node \in {"rollback", "done"}
  /\ d.pc \in {"rollback_from", "rollback_commit"} => d.held # None

(* A target the driver found by itself is a version there is.              *)
FoundTarget(t) ==
  thr[t].pc \in RollingBack /\ thr[t].held # None /\ run[thr[t].run].target = None
    => Exists(thr[t].held)

Courses ==
  /\ \A t \in Thread : ~At(t, "idle") => OnCourse(thr[t], WorkerOf[t], run[thr[t].run])
  /\ \A t \in Thread : FoundTarget(t)
  /\ \A r \in Run : run[r].status = "cancelled" => run[r].node = "done"
  /\ \A c \in Channel : PreviousVersion(c) # None => Exists(PreviousVersion(c))

(* What a command does to the course of a run s, which n follows: nothing; *)
(* or it answers what no driver is in the middle of; or it leaves the open *)
(* call alone and at most takes the run to a rollback or to its end.       *)
Steers(s, n) ==
  \/ n = s
  \/ s.status \notin MayBeDriven /\ n.step = None /\ n.status # "cancelled"
  \/ /\ n.step = s.step /\ n.owner = s.owner /\ n.status \in MayBeDriven
     /\ s.status # "cancelled"
     /\ \/ n.node = s.node /\ n.target = s.target /\ n.status # "cancelled"
        \/ n.node = "done" /\ n.target = s.target
  \/ /\ s.step = None /\ n.step = None /\ n.status = "running"
     /\ n.node = "rollback" /\ n.target # None

LEMMA CommandsSteer ==
  ASSUME TypeOK, RestingRunsHaveNoStep, NEW r \in Run, Operate(r), Fits(run[r])
  PROVE  Steers(run[r], run'[r])
<1>0. run[r] \in RunState /\ run \in [Run -> RunState]
  BY DEF TypeOK
<1>1. CASE CreateRun(r)
  BY <1>0, <1>1 DEF CreateRun, Created, Absent, Steers, MayBeDriven
<1>2. CASE Pause(r)
  BY <1>0, <1>2 DEF Pause, RunState, Steers, MayBeDriven
<1>3. CASE Resume(r)
  BY <1>0, <1>3 DEF Resume, RunState, Steers, MayBeDriven
<1>4. CASE Approve(r) \/ Revise(r) \/ Reject(r)
           \/ \E target \in Nameable(ChannelOf[r]) \cup {None} : DecideRollback(r, target)
  <2>1. run[r].status = "awaiting_human" /\ run[r].step = None
    BY <1>4 DEF Approve, Revise, Reject, DecideRollback, Awaiting, Fits
  <2>2. run'[r].step = None /\ run'[r].status # "cancelled"
    <3>1. CASE Approve(r)
      BY <1>0, <2>1, <3>1 DEF Approve, RunState
    <3>2. CASE Revise(r)
      BY <1>0, <2>1, <3>2 DEF Revise, RunState
    <3>3. CASE Reject(r)
      BY <1>0, <2>1, <3>3 DEF Reject, RunState
    <3>4. CASE \E target \in Nameable(ChannelOf[r]) \cup {None} : DecideRollback(r, target)
      BY <1>0, <2>1, <3>4 DEF DecideRollback, RunState
    <3> QED BY <1>4, <3>1, <3>2, <3>3, <3>4
  <2> QED BY <2>1, <2>2 DEF Steers, MayBeDriven
<1>5. ASSUME NEW decision \in {"retry", "abort"}, ResolveRecovery(r, decision)
      PROVE  Steers(run[r], run'[r])
  <2> DEFINE closed == [run[r] EXCEPT !.step = None, !.owner = None, !.reason = "none"]
  <2>1. closed \in RunState /\ closed.step = None
    BY <1>0 DEF RunState, Reason
  <2>2. /\ run[r].status = "recovery_required"
        /\ run' \in {[run EXCEPT ![r] = [closed EXCEPT !.status = "running"]],
                     [run EXCEPT ![r] = [closed EXCEPT !.status = "failed", !.node = "done"]]}
    BY <1>5 DEF ResolveRecovery
  <2> HIDE DEF closed
  <2>3. run'[r] \in {[closed EXCEPT !.status = "running"],
                     [closed EXCEPT !.status = "failed", !.node = "done"]}
    BY <1>0, <2>2
  <2>4. run'[r].step = None /\ run'[r].status # "cancelled"
    BY <2>1, <2>3 DEF RunState
  <2> QED BY <2>2, <2>4 DEF Steers, MayBeDriven
<1>6. CASE RequestRollback(r)
  <2>1. CASE run[r].step = None
    <3>1. /\ run'[r].step = None /\ run'[r].status = "running" /\ run'[r].node = "rollback"
          /\ run'[r].target # None
      BY <1>0, <1>6, <2>1 DEF RequestRollback, RunState
    <3> QED BY <2>1, <3>1 DEF Steers
  <2>2. CASE run[r].step # None
    BY <1>6, <2>2 DEF RequestRollback, Steers
  <2> QED BY <2>1, <2>2
<1>7. CASE Cancel(r)
  <2>1. /\ run'[r].step = run[r].step /\ run'[r].owner = run[r].owner
        /\ run'[r].status = "cancelled" /\ run'[r].node = "done"
        /\ run'[r].target = run[r].target /\ run[r].status # "cancelled"
    BY <1>0, <1>7 DEF Cancel, RunState, Terminal
  <2> QED BY <2>1 DEF Steers, MayBeDriven
<1>8. CASE \E target \in Nameable(ChannelOf[r]) : AskRollback(r, target)
  BY <1>8 DEF AskRollback, Steers
<1> QED BY <1>1, <1>2, <1>3, <1>4, <1>5, <1>6, <1>7, <1>8 DEF Operate, Steer

(* No command takes a run where a driver that has begun does not expect it.*)
LEMMA SteeredOnCourse ==
  ASSUME NEW d \in Driver, NEW w, NEW s \in RunState, NEW n \in RunState, Steers(s, n),
         Knows(d, s), OnCourse(d, w, s), d.pc \in OnTheWay => s.status \in MayBeDriven,
         None \notin Step
  PROVE  /\ OnCourse(d, w, n)
         /\ d.pc \in RollingBack /\ n.target = None => s.target = None
<1>0. /\ d.pc \in RollingBack \cup {"pause"} => d.pc \in OnTheWay
      /\ d.pc \in {"rollback_from", "rollback_commit"} => d.pc \in RollingBack
  BY DEF OnTheWay, Writing, RollingBack
<1>1. CASE n = s
  BY <1>1
<1>2. CASE s.status \notin MayBeDriven /\ n.step = None
  <2>1. d.pc \notin {"executing", "verifying"}
    BY <1>2 DEF Knows, OnCourse, MayBeDriven
  <2> QED BY <1>0, <1>2, <2>1 DEF OnCourse
<1>3. CASE /\ n.step = s.step /\ n.owner = s.owner /\ n.status \in MayBeDriven
           /\ n.node \in {s.node, "done"} /\ n.target = s.target
  BY <1>3 DEF OnCourse
<1>4. CASE /\ s.step = None /\ n.step = None /\ n.status = "running"
           /\ n.node = "rollback" /\ n.target # None
  <2>1. d.pc \notin {"executing", "verifying"}
    BY <1>4 DEF Knows, OnCourse
  <2>2. n.status \in MayBeDriven
    BY <1>4 DEF MayBeDriven
  <2> QED BY <1>4, <2>1, <2>2 DEF OnCourse
<1> QED BY <1>1, <1>2, <1>3, <1>4 DEF Steers

(* A driver's own step keeps it on course, and cancels nothing.            *)
LEMMA DriversStayOnCourse ==
  ASSUME SupervisorAssumption, TypeOK, TypeOK', NEW t \in Thread, Drive(t) \/ Abort(t),
         ~Release(t), thr[t].run \in Run, Fits(run[thr[t].run]),
         OnCourse(thr[t], WorkerOf[t], run[thr[t].run])
  PROVE  /\ OnCourse(thr'[t], WorkerOf[t], run'[thr[t].run])
         /\ run'[thr[t].run].status = "cancelled" => UNCHANGED run
<1> DEFINE r == thr[t].run
           w == WorkerOf[t]
           Goal == /\ OnCourse(thr'[t], w, run'[r])
                   /\ run'[r].status = "cancelled" => UNCHANGED run
<1>0. /\ run[r] \in RunState /\ run \in [Run -> RunState]
      /\ thr[t] \in Driver /\ thr \in [Thread -> Driver] /\ thr' \in [Thread -> Driver]
      /\ None \notin Step
  BY DEF TypeOK, SupervisorAssumption
<1>p. ASSUME thr'[t].pc \in {"recover", "release", "conflict", "promote"}
      PROVE  \A s : OnCourse(thr'[t], w, s)
  BY <1>p DEF OnCourse, ExternalNode, RollingBack
<1>l. ASSUME Leave(t) PROVE \A s : OnCourse(thr'[t], w, s)
  <2>1. thr'[t].pc = "release"
    BY <1>0, <1>l DEF Leave, Idle
  <2> QED BY <1>p, <2>1
<1>g. ASSUME NEW pc \in Pc, Goto(t, pc)
      PROVE  thr'[t].pc = pc /\ thr'[t].held = thr[t].held
  BY <1>0, <1>g DEF Goto, Driver
<1>1. CASE Restore(t)
  <2>1. CASE Orphaned(t, r)
    <3>1. thr'[t].pc = "recover"
      BY <1>g, <1>1, <2>1 DEF Restore, Pc
    <3> QED BY <1>1, <1>p, <3>1 DEF Restore
  <2>2. CASE ~Orphaned(t, r)
    <3>1. thr'[t].pc = "loop" /\ UNCHANGED run
      BY <1>g, <1>1, <2>2 DEF Restore, Pc
    <3> QED BY <2>2, <3>1 DEF OnCourse, Orphaned, ExternalNode, RollingBack
  <2> QED BY <2>1, <2>2
<1>2. CASE Dispatch(t)
  <2>0. UNCHANGED run /\ thr[t].pc = "loop" /\ (run[r].step # None => run[r].owner = w)
    BY <1>2 DEF Dispatch, At, OnCourse
  <2>1. CASE Leave(t)
    BY <1>l, <2>0, <2>1
  <2>2. CASE PausesFirst(run[r]) /\ Goto(t, "pause")
    <3>1. thr'[t].pc = "pause" /\ run[r].step = None
      BY <1>g, <2>2 DEF Pc, PausesFirst
    <3> QED BY <2>0, <3>1 DEF OnCourse, ExternalNode, RollingBack
  <2>3. ASSUME run[r].status = "running", run[r].node \in {"execute", "hitl"},
               Goto(t, run[r].node)
        PROVE  OnCourse(thr'[t], w, run[r])
    <3>1. thr'[t].pc = run[r].node
      BY <1>g, <2>3 DEF Pc
    <3> QED BY <2>0, <2>3, <3>1 DEF OnCourse, ExternalNode, RollingBack, MayBeDriven
  <2>4. ASSUME run[r].status = "running", run[r].node \in {"verify", "promote"},
               thr' = [thr EXCEPT ![t].pc = run[r].node, ![t].held = run[r].candidate]
        PROVE  OnCourse(thr'[t], w, run[r])
    <3>1. thr'[t].pc = run[r].node
      BY <1>0, <2>4 DEF Driver
    <3> QED BY <2>0, <2>4, <3>1 DEF OnCourse, ExternalNode, RollingBack, MayBeDriven
  <2>5. ASSUME run[r].node = "rollback",
               thr' = [thr EXCEPT ![t].pc = "rollback_target", ![t].held = run[r].target]
        PROVE  OnCourse(thr'[t], w, run[r])
    <3>1. thr'[t].pc = "rollback_target" /\ thr'[t].held = run[r].target
      BY <1>0, <2>5 DEF Driver
    <3> QED BY <2>5, <3>1 DEF OnCourse, ExternalNode, RollingBack
  <2> QED BY <1>2, <2>0, <2>1, <2>2, <2>3, <2>4, <2>5 DEF Dispatch, Stops
<1>3. ASSUME NEW node \in ExternalNode, BeginExternalStep(t, node)
      PROVE  Goal
  <2> DEFINE s == CHOOSE i \in UnusedStep : TRUE
  <2>1. /\ run' = [run EXCEPT ![r].step = s, ![r].owner = w]
        /\ thr' = [thr EXCEPT ![t].step = s,
                     ![t].pc = IF node = "execute" THEN "executing" ELSE "verifying"]
        /\ run[r].status = "running"
    BY <1>3 DEF BeginExternalStep, MayBegin
  <2> HIDE DEF s
  <2>2. /\ run'[r].step = s /\ run'[r].owner = w /\ run'[r].status = "running"
        /\ thr'[t].step = s /\ thr'[t].pc \in {"executing", "verifying"}
    BY <1>0, <2>1 DEF RunState, Driver
  <2> QED BY <2>2 DEF OnCourse, ExternalNode, RollingBack
<1>4. ASSUME NEW s \in RunState, NEW outcome, CommitStep(t, s, outcome)
      PROVE  Goal
  <2>1. /\ run'[r] = AtBoundary(s) /\ run'[r].status \in {"running", "paused"}
        /\ run'[r].step = None
    BY <1>0, <1>4, AtBoundaryType DEF CommitStep
  <2>2. CASE Leave(t)
    BY <1>l, <2>1, <2>2
  <2>3. CASE thr' = [thr EXCEPT ![t] = [Idle EXCEPT !.pc = "loop", !.run = r]]
    <3>1. thr'[t].pc = "loop"
      BY <1>0, <2>3 DEF Idle
    <3> QED BY <2>1, <3>1 DEF OnCourse, ExternalNode, RollingBack
  <2> QED BY <1>4, <2>2, <2>3 DEF CommitStep
<1>5. ASSUME ResultCommitted(t) PROVE Goal
  <2>1. PICK s \in RunState : \E outcome : CommitStep(t, s, outcome)
    BY <1>5, ResultsCommit
  <2> QED BY <1>4, <2>1
<1>6. CASE MarkRecoveryRequired(t) \/ PauseAtBoundary(t) \/ RequestHuman(t) \/ RecordConflict(t)
  <2>1. run'[r].status \in {"recovery_required", "paused", "awaiting_human"} /\ Leave(t)
    BY <1>0, <1>6 DEF MarkRecoveryRequired, PauseAtBoundary, RequestHuman, RecordConflict, RunState
  <2> QED BY <1>l, <2>1
<1>7. CASE PromoteCandidate(t)
  <2>1. run'[r].status = "succeeded" /\ Leave(t)
    BY <1>0, <1>7 DEF PromoteCandidate, RunState
  <2> QED BY <1>l, <2>1
<1>8. CASE CommitRollback(t)
  <2>1. run'[r].status = "rolled_back" /\ Leave(t)
    BY <1>0, <1>8 DEF CommitRollback, RunState
  <2> QED BY <1>l, <2>1
<1>9. CASE PromotionConflict(t)
  <2>1. thr'[t].pc = "conflict"
    BY <1>g, <1>9 DEF PromotionConflict, Pc
  <2> QED BY <1>9, <1>p, <2>1 DEF PromotionConflict
<1>10. CASE ReadRollbackTarget(t) \/ ReadRollbackFrom(t)
  <2>1. /\ thr'[t].pc \in {"rollback_from", "rollback_commit"} /\ thr'[t].held # None
        /\ run[r].node \in {"rollback", "done"} /\ UNCHANGED run
    BY <1>0, <1>10 DEF ReadRollbackTarget, ReadRollbackFrom, At, Driver, OnCourse, RollingBack
  <2> QED BY <2>1 DEF OnCourse, ExternalNode, RollingBack
<1>11. CASE Raise(t) \/ Abort(t)
  BY <1>l, <1>11 DEF Raise, Abort
<1> QED
  BY <1>1, <1>2, <1>3, <1>5, <1>6, <1>7, <1>8, <1>9, <1>10, <1>11 DEF Drive, ResultCommitted

(* Versions stay, ...                                                      *)
LEMMA ExistingStay ==
  ASSUME SupervisorAssumption, RegistryAssumption, TypeOK, Inductive, [Next]_vars,
         NEW v, Exists(v)
  PROVE  Exists(v)'
<1>1. CASE VersionsKept
  BY <1>1 DEF VersionsKept, Exists
<1>2. ASSUME NEW t \in Thread, CompleteExecute(t) \/ \E passed \in BOOLEAN : CompleteVerify(t, passed)
      PROVE  Exists(v)'
  <2>1. PICK x \in Version : Exists(x)' /\ \A y \in Version \ {x} : ver'[y] = ver[y]
    BY <1>2, ResultsVersions
  <2> QED BY <2>1 DEF Exists
<1> QED BY <1>1, <1>2, VersionsGo

(* ... and what a channel can go back to is one.                           *)
LEMMA PreviousStay ==
  ASSUME SupervisorAssumption, RegistryAssumption, TypeOK, Inductive, Settled, Courses,
         [RegistryNext]_registry, [Next]_vars, NEW c \in Channel, PreviousVersion(c)' # None
  PROVE  Exists(PreviousVersion(c))'
<1>0. RegistryTypeOK
  BY DEF TypeOK
<1>1. CASE UNCHANGED history
  <2>1. PreviousVersion(c)' = PreviousVersion(c)
    BY <1>1 DEF PreviousVersion
  <2>2. Exists(PreviousVersion(c))
    BY <2>1 DEF Courses
  <2>3. PICK v : v = PreviousVersion(c)
    OBVIOUS
  <2>4. Exists(v)'
    BY <2>2, <2>3, ExistingStay
  <2> QED BY <2>1, <2>3, <2>4 DEF Exists
<1>2. ASSUME NEW d, NEW v, NEW demoted, NEW row, MovePointer(d, v, demoted, row),
             row.previous = active[d]
      PROVE  Exists(PreviousVersion(c))'
  <2>1. history[c] \in Seq(Row) /\ history' = [history EXCEPT ![d] = Append(@, row)]
    BY <1>0, <1>2 DEF MovePointer, RegistryTypeOK
  <2>2. CASE c = d
    <3>1. history'[c] = Append(history[c], row)
      BY <1>0, <2>1, <2>2 DEF RegistryTypeOK
    <3>2. history'[c] # <<>> /\ history'[c][Len(history'[c])] = row
      BY <2>1, <3>1
    <3>3. PreviousVersion(c)' = active[c]
      BY <1>2, <2>2, <3>2 DEF PreviousVersion
    <3>4. Exists(active[c])
      BY <3>3 DEF Settled
    <3>5. PICK x : x = active[c]
      OBVIOUS
    <3>6. Exists(x)'
      BY <3>4, <3>5, ExistingStay
    <3> QED BY <3>3, <3>5, <3>6 DEF Exists
  <2>3. CASE c # d
    <3>1. history'[c] = history[c]
      BY <1>0, <2>1, <2>3 DEF RegistryTypeOK
    <3>2. PreviousVersion(c)' = PreviousVersion(c)
      BY <3>1 DEF PreviousVersion
    <3>3. PICK x : x = PreviousVersion(c) /\ Exists(x)
      BY <3>2 DEF Courses
    <3>4. Exists(x)'
      BY <3>3, ExistingStay
    <3> QED BY <3>2, <3>3, <3>4 DEF Exists
  <2> QED BY <2>2, <2>3
<1> QED
  BY <1>1, <1>2 DEF RegistryNext, registry, InsertVersion, UpdateVersion, Promote, PromotionRow,
     Rollback

(* So does a target that a driver has found.                               *)
LEMMA FoundTargetsStay ==
  ASSUME SupervisorAssumption, RegistryAssumption, TypeOK, TypeOK', Inductive, Courses,
         [Next]_vars, NEW t \in Thread, Drive(t) \/ Abort(t), ~Release(t),
         thr[t].run \in Run, FoundTarget(t)
  PROVE  FoundTarget(t)'
<1> DEFINE r == thr[t].run
<1>0. /\ thr[t] \in Driver /\ thr \in [Thread -> Driver] /\ ChannelOf[r] \in Channel
      /\ thr'[t].run = r
  BY DrivingKeepsRun DEF KeepsRun, TypeOK, RegistryAssumption
<1>1. ASSUME thr'[t].pc \notin RollingBack
      PROVE  FoundTarget(t)'
  BY <1>1 DEF FoundTarget
<1>2. CASE Dispatch(t) /\ run[r].target # None
  BY <1>0, <1>2 DEF Dispatch, FoundTarget
<1>3. CASE Dispatch(t) /\ run[r].target = None
  <2>1. Leave(t) => thr'[t].pc = "release"
    BY <1>0 DEF Leave, Idle
  <2>2. \A pc \in Pc : Goto(t, pc) => thr'[t].pc = pc
    BY <1>0 DEF Goto, Driver
  <2>3. thr'[t].pc \notin RollingBack \/ thr'[t].held = None
    BY <1>0, <1>3, <2>1, <2>2 DEF Dispatch, Pc, Driver, RollingBack
  <2> QED BY <1>1, <2>3 DEF FoundTarget
<1>4. CASE ReadRollbackTarget(t)
  <2>1. PICK v : v = RollbackTarget(t)
    OBVIOUS
  <2>2. thr'[t].held = v /\ UNCHANGED run /\ At(t, "rollback_target") /\ v # None
    BY <1>0, <1>4, <2>1 DEF ReadRollbackTarget, Driver
  <2>3. ASSUME run[r].target = None
        PROVE  Exists(v)
    BY <1>0, <2>1, <2>2, <2>3 DEF RollbackTarget, Courses, FoundTarget, RollingBack, At
  <2>4. Exists(v) => Exists(v)'
    BY ExistingStay
  <2> QED BY <1>0, <2>2, <2>3, <2>4 DEF FoundTarget, Exists
<1>5. CASE ReadRollbackFrom(t)
  <2>1. /\ thr'[t].held = thr[t].held /\ thr[t].pc = "rollback_from" /\ UNCHANGED run
    BY <1>0, <1>5 DEF ReadRollbackFrom, At, Driver
  <2>2. PICK v : v = thr[t].held
    OBVIOUS
  <2>3. Exists(v) => Exists(v)'
    BY ExistingStay
  <2> QED BY <1>0, <2>1, <2>2, <2>3 DEF FoundTarget, RollingBack, Exists
<1>6. CASE thr'[t].pc \in OnTheWay /\ ~Dispatch(t) /\ ~ReadRollbackTarget(t) /\ ~ReadRollbackFrom(t)
  <2>1. Leave(t) => thr'[t].pc = "release"
    BY <1>0 DEF Leave, Idle
  <2>2. \A pc \in Pc : Goto(t, pc) => thr'[t].pc = pc
    BY <1>0 DEF Goto, Driver
  <2>3. CASE PromotionConflict(t)
    BY <1>1, <2>2, <2>3 DEF PromotionConflict, Pc, RollingBack
  <2>4. CASE Restore(t)
    BY <1>1, <2>2, <2>4 DEF Restore, Pc, RollingBack
  <2>5. CASE \E node \in ExternalNode : BeginExternalStep(t, node)
    <3>1. thr'[t].pc \in {"executing", "verifying"}
      BY <1>0, <2>5 DEF BeginExternalStep, Driver
    <3> QED BY <1>1, <3>1 DEF RollingBack
  <2>6. CASE ResultCommitted(t)
    <3>1. PICK s, outcome : CommitStep(t, s, outcome)
      BY <2>6 DEF ResultCommitted, CompleteExecute, CompleteVerify, FailExternalStep
    <3>2. Leave(t) \/ thr' = [thr EXCEPT ![t] = [Idle EXCEPT !.pc = "loop", !.run = thr[t].run]]
      BY <3>1 DEF CommitStep
    <3>3. thr'[t].pc \in {"release", "loop"}
      BY <1>0, <2>1, <3>2 DEF Idle
    <3> QED BY <1>1, <3>3 DEF RollingBack
  <2>7. CASE MarkRecoveryRequired(t) \/ PauseAtBoundary(t) \/ RequestHuman(t)
             \/ PromoteCandidate(t) \/ RecordConflict(t) \/ CommitRollback(t) \/ Raise(t)
             \/ Abort(t)
    BY <1>1, <2>1, <2>7 DEF MarkRecoveryRequired, PauseAtBoundary, RequestHuman,
       PromoteCandidate, RecordConflict, CommitRollback, Raise, Abort, RollingBack
  <2> QED BY <1>6, <2>3, <2>4, <2>5, <2>6, <2>7 DEF Drive, ResultCommitted
<1>7. thr'[t].pc \notin OnTheWay => thr'[t].pc \notin RollingBack
  BY DEF OnTheWay, Writing, RollingBack
<1> QED BY <1>1, <1>2, <1>3, <1>4, <1>5, <1>6, <1>7

LEMMA CoursesSteps ==
  ASSUME SupervisorAssumption, RegistryAssumption, TypeOK, TypeOK', Inductive, LeaseInductive,
         Settled, LateDrivers, Courses, [RegistryNext]_registry, [Next]_vars
  PROVE  Courses'
<1>0. /\ thr \in [Thread -> Driver] /\ run \in [Run -> RunState] /\ run' \in [Run -> RunState]
      /\ RestingRunsHaveNoStep /\ None \notin Step
      /\ \A t \in Thread : ~At(t, "idle") => thr[t].run \in Run /\ Knows(thr[t], run[thr[t].run])
      /\ \A r \in Run : Fits(run[r])
  BY DEF TypeOK, Inductive, DriversHaveRuns, LeaseInductive, SupervisorAssumption
<1> DEFINE Stays == /\ \A u \in Thread : thr'[u].pc # "idle" =>
                         /\ OnCourse(thr'[u], WorkerOf[u], run'[thr'[u].run])
                         /\ FoundTarget(u)'
                    /\ \A r \in Run : run'[r].status = "cancelled" => run'[r].node = "done"
<1>1. ASSUME NEW t \in Thread, thr'[t].held = thr[t].held, Exists(thr[t].held)
      PROVE  Exists(thr[t].held)'
  <2>1. PICK v : v = thr[t].held
    OBVIOUS
  <2>2. Exists(v)'
    BY <1>1, <2>1, ExistingStay
  <2> QED BY <1>1, <2>1, <2>2 DEF Exists
<1>2. ASSUME NEW t \in Thread, Drive(t) \/ Abort(t), ~Release(t)
      PROVE  Stays
  <2>1. KeepsRun(t) /\ ~At(t, "idle")
    BY <1>2, DrivingKeepsRun
  <2>2. /\ thr[t].run \in Run /\ Fits(run[thr[t].run]) /\ Knows(thr[t], run[thr[t].run])
        /\ OnCourse(thr[t], WorkerOf[t], run[thr[t].run])
        /\ FoundTarget(t)
    BY <1>0, <2>1 DEF Courses
  <2>3. \A q \in Run \ {thr[t].run} : run'[q] = run[q]
    BY <1>2, <2>2, DriversFit
  <2>4. /\ OnCourse(thr'[t], WorkerOf[t], run'[thr[t].run])
        /\ run'[thr[t].run].status = "cancelled" => UNCHANGED run
    BY <1>2, <2>2, DriversStayOnCourse
  <2>5. FoundTarget(t)'
    BY <1>2, <2>2, FoundTargetsStay
  <2>6. ASSUME NEW u \in Thread, thr'[u].pc # "idle"
        PROVE  /\ OnCourse(thr'[u], WorkerOf[u], run'[thr'[u].run])
               /\ FoundTarget(u)'
    <3>1. CASE u = t
      BY <2>1, <2>4, <2>5, <3>1 DEF KeepsRun
    <3>2. CASE u # t
      <4>1. thr'[u] = thr[u] /\ ~At(u, "idle")
        BY <2>1, <2>6, <3>2 DEF KeepsRun, At
      <4>2. thr[u].run \in Run \ {thr[t].run}
        BY <1>0, <2>1, <3>2, <4>1 DEF LeaseInductive, OneDriver
      <4>3. run'[thr[u].run] = run[thr[u].run]
        BY <2>3, <4>2
      <4>4. /\ OnCourse(thr[u], WorkerOf[u], run[thr[u].run])
            /\ FoundTarget(u)
        BY <4>1 DEF Courses
      <4> QED BY <1>1, <4>1, <4>3, <4>4 DEF FoundTarget
    <3> QED BY <3>1, <3>2
  <2>7. \A r \in Run : run'[r].status = "cancelled" => run'[r].node = "done"
    BY <2>2, <2>3, <2>4 DEF Courses
  <2> QED BY <2>6, <2>7
<1>3. ASSUME NEW r \in Run, Operate(r)
      PROVE  Stays
  <2>1. UNCHANGED thr /\ (\A q \in Run \ {r} : run'[q] = run[q]) /\ Steers(run[r], run'[r])
    BY <1>0, <1>3, CommandsFit, CommandsSteer
  <2>2. ASSUME NEW u \in Thread, thr'[u].pc # "idle"
        PROVE  /\ OnCourse(thr'[u], WorkerOf[u], run'[thr'[u].run])
               /\ FoundTarget(u)'
    <3>1. /\ thr'[u] = thr[u] /\ thr[u] \in Driver /\ thr[u].run \in Run
          /\ Knows(thr[u], run[thr[u].run])
          /\ OnCourse(thr[u], WorkerOf[u], run[thr[u].run])
          /\ FoundTarget(u)
          /\ thr[u].pc \in OnTheWay => run[thr[u].run].status \in MayBeDriven
      BY <1>0, <2>1, <2>2 DEF Courses, LateDrivers, At
    <3>2. /\ OnCourse(thr[u], WorkerOf[u], run'[thr[u].run])
          /\ thr[u].pc \in RollingBack
               /\ run'[thr[u].run].target = None => run[thr[u].run].target = None
      <4>1. CASE thr[u].run = r
        BY <1>0, <2>1, <3>1, <4>1, SteeredOnCourse
      <4>2. CASE thr[u].run # r
        BY <2>1, <3>1, <4>2
      <4> QED BY <4>1, <4>2
    <3> QED BY <1>1, <3>1, <3>2 DEF FoundTarget
  <2>3. \A q \in Run : run'[q].status = "cancelled" => run'[q].node = "done"
    BY <2>1 DEF Courses, Steers
  <2> QED BY <2>2, <2>3
<1>4. ASSUME UNCHANGED <<run, ver>>,
             \A t \in Thread : \/ thr'[t] = thr[t] \/ thr'[t].pc = "idle"
                               \/ thr'[t].pc = "restore"
      PROVE  Stays
  <2>1. \A d, s, w : d.pc = "restore" => OnCourse(d, w, s)
    BY DEF OnCourse, ExternalNode, RollingBack
  <2>2. \A t \in Thread : thr'[t].pc = "restore" => FoundTarget(t)'
    BY DEF FoundTarget, RollingBack
  <2>3. ASSUME NEW t \in Thread, thr'[t] = thr[t], thr'[t].pc # "idle"
        PROVE  /\ OnCourse(thr'[t], WorkerOf[t], run'[thr'[t].run])
               /\ FoundTarget(t)'
    <3>1. /\ OnCourse(thr[t], WorkerOf[t], run[thr[t].run])
          /\ FoundTarget(t)
      BY <2>3 DEF Courses, At
    <3> QED BY <1>4, <2>3, <3>1 DEF FoundTarget, Exists
  <2>4. \A r \in Run : run'[r].status = "cancelled" => run'[r].node = "done"
    BY <1>4 DEF Courses
  <2> QED BY <1>4, <2>1, <2>2, <2>3, <2>4
<1>5. ASSUME \E t \in Thread : Release(t) PROVE Stays
  BY <1>0, <1>4, <1>5 DEF Release, Idle, registry
<1>6. ASSUME \E t \in Thread, r \in Run : Acquire(t, r) PROVE Stays
  BY <1>0, <1>4, <1>6 DEF Acquire, Idle, registry
<1>7. ASSUME (\E t \in Thread : Heartbeat(t)) \/ (\E r \in Run : LeaseLapse(r)) \/ UNCHANGED vars PROVE Stays
  BY <1>4, <1>7 DEF Heartbeat, LeaseLapse, vars, registry
<1>8. ASSUME \E w \in Worker : Crash(w) PROVE Stays
  BY <1>0, <1>4, <1>8 DEF Crash, Idle, registry
<1>9. Stays
  BY <1>2, <1>3, <1>5, <1>6, <1>7, <1>8 DEF Next
<1>10. \A c \in Channel : PreviousVersion(c)' # None => Exists(PreviousVersion(c))'
  BY PreviousStay
<1>11. \A t \in Thread : thr'[t].pc = "idle" => FoundTarget(t)'
  BY DEF FoundTarget, RollingBack
<1> QED BY <1>9, <1>10, <1>11 DEF Courses, At

LEMMA CoursesInvariant ==
  ASSUME LeaseHonoured
  PROVE  Spec => []Courses
<1>1. Init => Courses
  BY DEF Init, RegistryInit, Courses, PreviousVersion, FoundTarget, RollingBack, At, Idle, Absent
<1>2. TypeOK /\ TypeOK' /\ Inductive /\ LeaseInductive /\ Settled /\ LateDrivers /\ Courses
        /\ [RegistryNext]_registry /\ [Next]_vars => Courses'
  BY CoursesSteps, SupervisorAssumption, RegistryAssumption
<1> QED
  BY <1>1, <1>2, LeaseInvariant, SettledInvariant, LateInvariant, Implements, PTL
  DEF Spec, RegistrySpec

(* The result of a call is always taken: a driver that waits for a call    *)
(* still has its step when the call returns, so no work is ever done and   *)
(* then thrown away by _assert_pending_owner (supervisor.py).              *)
THEOREM ResultsAreAccepted ==
  ASSUME LeaseHonoured
  PROVE  Spec => []AnswersAreTaken
<1>1. Courses => AnswersAreTaken
  BY DEF Courses, OnCourse, AnswersAreTaken, OwnsStep, At
<1> QED BY <1>1, CoursesInvariant, PTL

(* A run that has ended is left alone by every driver and every decision:  *)
(* it goes on only by a rollback that was asked for (supervisor.py, drive  *)
(* and request_rollback).                                                  *)
THEOREM EndedRunsAreLeftAlone ==
  ASSUME LeaseHonoured
  PROVE  Spec => EndedRunsStayOrRollBack
<1>1. ASSUME TypeOK, TypeOK', Inductive, LeaseInductive, LateDrivers, [Next]_vars,
             NEW r \in Run, run[r].status \in {"succeeded", "failed", "rolled_back"},
             run'[r].status # run[r].status
      PROVE  /\ run'[r].status = "running" /\ run'[r].node = "rollback"
             /\ run'[r].target = asking[r] /\ asking[r] # None
  <2>0. /\ run[r] \in RunState /\ run \in [Run -> RunState] /\ RestingRunsHaveNoStep
        /\ \A t \in Thread : ~At(t, "idle") => thr[t].run \in Run
        /\ Fits(run[r]) /\ run[r].step = None
    BY <1>1 DEF TypeOK, LeaseInductive, Fits, Terminal, Inductive, DriversHaveRuns
  <2>1. ASSUME NEW t \in Thread, Drive(t) \/ Abort(t), ~Release(t)
        PROVE  FALSE
    <3>0. /\ ~At(t, "idle") /\ thr[t].run \in Run /\ Knows(thr[t], run[thr[t].run])
          /\ Fits(run[thr[t].run])
      BY <1>1, <2>0, <2>1, DrivingKeepsRun DEF LeaseInductive
    <3>1. thr[t].run = r
      <4>1. \A p \in Run \ {thr[t].run} : run'[p] = run[p]
        BY <1>1, <2>1, <3>0, DriversFit, SupervisorAssumption
      <4> QED BY <1>1, <4>1
    <3>2. thr[t].pc \notin OnTheWay
      BY <1>1, <3>1 DEF LateDrivers, MayBeDriven
    <3>3. CASE PauseAtBoundary(t) \/ PromoteCandidate(t) \/ RecordConflict(t) \/ CommitRollback(t)
      BY <3>2, <3>3 DEF PauseAtBoundary, PromoteCandidate, RecordConflict, CommitRollback, At,
         OnTheWay, Writing
    <3>4. CASE \/ MarkRecoveryRequired(t) \/ RequestHuman(t)
               \/ \E node \in ExternalNode : BeginExternalStep(t, node)
      BY <1>1, <2>0, <3>1, <3>4 DEF MarkRecoveryRequired, RequestHuman, BeginExternalStep, MayBegin
    <3>5. CASE ResultCommitted(t)
      <4>1. thr[t].pc \in {"executing", "verifying"} /\ run[r].step = thr[t].step
        BY <3>1, <3>5 DEF ResultCommitted, CompleteExecute, CompleteVerify, FailExternalStep,
           CommitStep, OwnsStep, At
      <4> QED BY <1>1, <3>0, <3>1, <4>1 DEF Knows
    <3>6. CASE UNCHANGED run
      BY <1>1, <3>6
    <3> QED BY <2>1, <3>3, <3>4, <3>5, <3>6 DEF Drive, ResultCommitted, Restore, Dispatch,
         PromotionConflict, ReadRollbackTarget, ReadRollbackFrom, Raise, Abort
  <2>2. ASSUME NEW q \in Run, Operate(q)
        PROVE  RequestRollback(r)
    <3>1. q = r
      <4>1. Fits(run[q])
        BY <1>1 DEF LeaseInductive
      <4>2. \A p \in Run \ {q} : run'[p] = run[p]
        BY <1>1, <2>0, <2>2, <4>1, CommandsFit
      <4> QED BY <1>1, <4>2
    <3> QED
      BY <1>1, <2>2, <3>1 DEF Operate, Steer, CreateRun, Created, Pause, Resume, Approve, Revise,
         Reject, DecideRollback, Awaiting, ResolveRecovery, AskRollback, Cancel, Terminal
  <2>3. RequestRollback(r)
    BY <1>1, <2>1, <2>2 DEF Next, Acquire, Heartbeat, LeaseLapse, Crash, Release, vars
  <2> QED BY <2>0, <2>3 DEF RequestRollback, RunState
<1>2. TypeOK /\ TypeOK' /\ Inductive /\ LeaseInductive /\ LateDrivers /\ [Next]_vars =>
        [\A r \in Run :
           run[r].status \in {"succeeded", "failed", "rolled_back"}
             /\ run'[r].status # run[r].status =>
           /\ run'[r].status = "running" /\ run'[r].node = "rollback"
           /\ run'[r].target = asking[r] /\ asking[r] # None]_vars
  BY <1>1
<1> QED BY <1>2, LeaseInvariant, LateInvariant, PTL DEF Spec, EndedRunsStayOrRollBack

(* drive() raises only when an operator came in between, when the          *)
(* interrupted call it was about to report has been resolved, when its own *)
(* supervisor left a call open, or on a run no drive() can take further    *)
(* (supervisor.py, drive and the guards of its transactions).              *)
THEOREM DrivesRaiseForAReason ==
  ASSUME LeaseHonoured
  PROVE  Spec => []RaisesHaveCauses
<1>1. ASSUME TypeOK, Inductive, LeaseInductive, LateDrivers, Courses,
             NEW t \in Thread, Refused(t)
      PROVE  Disturbed(t) \/ At(t, "recover") \/ LeftBehind(t) \/ Wedged(thr[t].run)
  <2> DEFINE r == thr[t].run
             s == run[r]
             d == thr[t]
  <2>1. ~At(t, "idle")
    BY <1>1 DEF Refused, At, ExternalNode
  <2>2. /\ r \in Run /\ OnCourse(d, WorkerOf[t], s) /\ FoundTarget(t)
        /\ s.status = "cancelled" => s.node = "done"
    BY <1>1, <2>1 DEF Inductive, DriversHaveRuns, Courses
  <2>3. CASE At(t, "recover")
    BY <2>3
  <2>4. ASSUME At(t, "loop"), s.node \in {"verify", "promote"}, s.candidate = None
        PROVE  Wedged(r)
    BY <1>1, <2>2, <2>4 DEF Inductive, UnverifiedAtVerify, AtVerify, Wedged
  <2>5. CASE At(t, "pause") /\ s.step # None
    BY <2>2, <2>5 DEF OnCourse, At
  <2>6. CASE d.pc \in ExternalNode /\ s.step # None
    BY <2>2, <2>6 DEF OnCourse, LeftBehind
  <2>7. CASE d.pc \in ExternalNode \cup {"hitl"} /\ ~(s.status = "running" /\ s.node = d.pc)
    BY <2>2, <2>7 DEF OnCourse, MayBeDriven, Disturbed, Wedged
  <2>8. CASE d.pc \in {"executing", "verifying"} /\ ~OwnsStep(t)
    BY <2>2, <2>8 DEF OnCourse, OwnsStep
  <2>9. CASE At(t, "rollback_target") /\ RollbackTarget(t) = None
    <3>1. d.held = None /\ PreviousVersion(ChannelOf[r]) = None
      BY <2>9 DEF RollbackTarget
    <3> QED BY <2>2, <2>9, <3>1 DEF OnCourse, RollingBack, At, Disturbed, Wedged, ExternalNode
  <2>10. CASE At(t, "rollback_commit") /\ ~RollbackAccepted(ChannelOf[r], d.held)
    <3>1. s.node \in {"rollback", "done"} /\ (s.target = None => Exists(d.held))
      BY <2>2, <2>10 DEF OnCourse, RollingBack, At, FoundTarget
    <3>2. active[ChannelOf[r]] = None \/ ~Exists(d.held)
      BY <2>10 DEF RollbackAccepted
    <3> QED BY <2>10, <3>1, <3>2 DEF Disturbed, Wedged, At
  <2>11. s.node = "done" => Wedged(r)
    BY DEF Wedged
  <2> QED
    BY <1>1, <2>3, <2>4, <2>5, <2>6, <2>7, <2>8, <2>9, <2>10, <2>11
    DEF Refused, MayBegin, At
<1>2. TypeOK /\ Inductive /\ LeaseInductive /\ LateDrivers /\ Courses => RaisesHaveCauses
  BY <1>1 DEF RaisesHaveCauses
<1> QED BY <1>2, LeaseInvariant, LateInvariant, CoursesInvariant, PTL

==============================================================================
