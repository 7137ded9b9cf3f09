-------------------------- MODULE SupervisorProofs --------------------------
(***************************************************************************)
(* What the supervisor guarantees for every number of runs, threads,       *)
(* workers, steps and versions and under every fault: type correctness,    *)
(* the life of a step, and the release gate; and that it implements the    *)
(* release registry, whose theorems it inherits.                           *)
(***************************************************************************)
EXTENDS SupervisorProperties, ReleaseRegistryProofs

(* Where the graph's edges lead (graph.py).                                *)
LEMMA Routes ==
  ASSUME NEW r \in Run
  PROVE  /\ RouteOf(r).execute.completed = "verify"
         /\ RouteOf(r).verify.passed =
              IF RequireApproval[r] THEN "hitl" ELSE "promote"
         /\ \A node \in ExternalNode :
              RouteOf(r)[node].retry = "execute" /\ RouteOf(r)[node].exhausted = "hitl"
         /\ RouteOf(r).hitl.approve = "promote"
         /\ RouteOf(r).hitl.revise = "execute"
         /\ RouteOf(r).hitl.rollback = "rollback"
         /\ RouteOf(r).promote.promoted = "done"
         /\ RouteOf(r).promote.conflict = "hitl"
         /\ RouteOf(r).rollback.rolled_back = "done"
  BY DEF RouteOf, Graph, ExternalNode

(* The state a failed call or verification leads to differs in the node,   *)
(* the iteration and the reason only.                                      *)
LEMMA AfterFailureType ==
  ASSUME SupervisorAssumption, run \in [Run -> RunState],
         NEW r \in Run, NEW node \in ExternalNode
  PROVE  /\ AfterFailure(r, node) \in RunState
         /\ AfterFailure(r, node).node \in {"execute", "hitl"}
         /\ AfterFailure(r, node).candidate = run[r].candidate
<1> DEFINE s == run[r]
           i == s.iteration + 1
<1>1. s \in RunState /\ i \in Nat
  BY DEF RunState
<1>2. RouteOf(r)[node].retry = "execute" /\ RouteOf(r)[node].exhausted = "hitl"
  BY Routes
<1>3. AfterFailure(r, node) \in
        {[s EXCEPT !.node = "execute", !.iteration = i, !.reason = "none"],
         [s EXCEPT !.node = "hitl", !.reason = "exhausted"]}
  BY <1>2 DEF AfterFailure
<1> HIDE DEF s, i
<1>4. /\ [s EXCEPT !.node = "execute", !.iteration = i, !.reason = "none"] \in RunState
      /\ [s EXCEPT !.node = "hitl", !.reason = "exhausted"] \in RunState
  BY <1>1, ZenonT(40) DEF RunState, NodeName, Reason
<1>5. AfterFailure(r, node).node \in {"execute", "hitl"}
      /\ AfterFailure(r, node).candidate = s.candidate
  BY <1>1, <1>3, ZenonT(40) DEF RunState
<1> QED BY <1>3, <1>4, <1>5 DEF s

(* A step ends with the run running or paused and no step open.            *)
LEMMA AtBoundaryType ==
  ASSUME NEW s \in RunState
  PROVE  /\ AtBoundary(s) \in RunState
         /\ AtBoundary(s).status \in {"running", "paused"}
         /\ AtBoundary(s).node = s.node
         /\ AtBoundary(s).candidate = s.candidate
         /\ AtBoundary(s).step = None /\ AtBoundary(s).owner = None
<1>1. PICK status \in {"running", "paused"} :
        AtBoundary(s) = [s EXCEPT !.status = status, !.pause = FALSE,
                                  !.step = None, !.owner = None]
  <2>1. CASE s.pause BY <2>1, Zenon DEF AtBoundary
  <2>2. CASE ~s.pause BY <2>2, Zenon DEF AtBoundary
  <2> QED BY <2>1, <2>2
<1> QED BY <1>1 DEF RunState, RunStatus

------------------------------------------------------------------------------
(* Most steps are quiet: they write neither the registry nor the journal's *)
(* step events nor an approval, leave every pending step and candidate     *)
(* alone, and bring no driver to the two places whose memory matters later.*)
QuietRun(r, s) ==
  /\ r \in Run /\ s \in RunState
  /\ run' = [run EXCEPT ![r] = s]
  /\ s.step = run[r].step /\ s.candidate = run[r].candidate
  /\ s.status # "absent" /\ (s.status = "paused" => s.step = None)
  /\ s.node = "verify" => run[r].node = "verify"
  /\ s.node = "promote" => run[r].node = "promote" \/ s.candidate \in approved' \cup {None}

RunsKept == UNCHANGED run \/ \E r \in Run, s \in RunState : QuietRun(r, s)

QuietDriver(d) ==
  d \in Driver /\ d.pc \notin {"verifying", "promote"} /\ (d.pc # "idle" => d.run \in Run)

QuietDrivers ==
  /\ thr' \in [Thread -> Driver]
  /\ \A t \in Thread : thr'[t] = thr[t] \/ QuietDriver(thr'[t])

Quiet ==
  /\ UNCHANGED <<registry, stepLog, approved>>
  /\ RunsKept
  /\ QuietDrivers

(* The three ways a thread's record changes.                               *)
LEMMA LeaveIsQuiet ==
  ASSUME TypeOK, DriversHaveRuns, NEW t \in Thread, ~At(t, "idle"), Leave(t)
  PROVE  QuietDrivers
<1> DEFINE d == [Idle EXCEPT !.pc = "release", !.run = thr[t].run]
<1>1. thr[t].run \in Run
  BY DEF DriversHaveRuns
<1>2. d \in Driver /\ d.pc = "release" /\ d.run \in Run
  BY <1>1 DEF Driver, Pc, Idle
<1>3. thr' = [thr EXCEPT ![t] = d]
  BY DEF Leave
<1> HIDE DEF d
<1> QED BY <1>2, <1>3 DEF TypeOK, QuietDrivers, QuietDriver

(* A driver ends, by its release or its death; ...                         *)
LEMMA IdleIsQuiet == QuietDriver(Idle)
  BY DEF QuietDriver, Idle, Driver, Pc

(* ... it goes on, with what it has just read; ...                         *)
LEMMA GotoIsQuiet ==
  ASSUME TypeOK, DriversHaveRuns, NEW t \in Thread, ~At(t, "idle"),
         NEW pc \in Pc \ {"idle", "verifying", "promote"},
         NEW held \in Version \cup {None}, NEW from \in Version \cup {None},
         thr' = [thr EXCEPT ![t] = [thr[t] EXCEPT !.pc = pc, !.held = held, !.from = from]]
  PROVE  QuietDrivers
<1> DEFINE d == [thr[t] EXCEPT !.pc = pc, !.held = held, !.from = from]
<1>1. thr[t].run \in Run /\ thr[t] \in Driver
  BY DEF DriversHaveRuns, TypeOK
<1>2. d \in Driver /\ d.pc = pc /\ d.run = thr[t].run
  BY <1>1, ZenonT(40) DEF Driver, Pc
<1> HIDE DEF d
<1> QED BY <1>1, <1>2 DEF TypeOK, QuietDrivers, QuietDriver, d

(* ... or no driver is concerned.                                          *)
LEMMA StayIsQuiet == ASSUME TypeOK, UNCHANGED thr PROVE QuietDrivers
  BY DEF TypeOK, QuietDrivers

(* The variables no property of this module is about.                      *)
RestOK ==
  /\ lease \in [Run -> Lease]
  /\ asking \in [Run -> Version \cup {None}]
  /\ crashed \subseteq Worker

(* Quiet steps keep the types.                                             *)
LEMMA QuietTypeOK ==
  ASSUME TypeOK, Quiet, RestOK'
  PROVE  TypeOK'
<1>1. RegistryTypeOK'
  BY DEF TypeOK, RegistryTypeOK, Quiet, registry
<1>2. run' \in [Run -> RunState]
  BY DEF TypeOK, Quiet, RunsKept, QuietRun
<1>3. stepLog' \in [Step -> StepRecord] /\ approved' \subseteq Version
  BY DEF TypeOK, Quiet
<1> QED BY <1>1, <1>2, <1>3 DEF TypeOK, RestOK, Quiet, QuietDrivers

(* A driver that writes nothing, and one that writes its run and stops.    *)
LEMMA ReadOnlyIsQuiet ==
  ASSUME TypeOK, QuietDrivers, UNCHANGED run, UNCHANGED registry,
         UNCHANGED <<stepLog, approved>>, UNCHANGED <<asking, crashed>>,
         lease' \in [Run -> Lease]
  PROVE  Quiet /\ RestOK'
  BY DEF Quiet, RunsKept, RestOK, TypeOK

(* A step that writes one run's state quietly.                             *)
LEMMA WriteIsQuiet ==
  ASSUME TypeOK, QuietDrivers, NEW r, NEW s, QuietRun(r, s),
         UNCHANGED registry, UNCHANGED <<stepLog, approved>>,
         UNCHANGED <<lease, crashed>>, asking' \in [Run -> Version \cup {None}]
  PROVE  Quiet /\ RestOK'
  BY DEF Quiet, RunsKept, RestOK, TypeOK, QuietRun

(* previous_channel_version returns a version or None.                     *)
LEMMA PreviousVersionType ==
  ASSUME RegistryTypeOK, NEW c \in Channel
  PROVE  PreviousVersion(c) \in Version \cup {None}
<1>1. history[c] \in Seq(Row)
  BY DEF RegistryTypeOK
<1>2. CASE history[c] = <<>>
  BY <1>2 DEF PreviousVersion
<1>3. CASE history[c] # <<>>
  <2>1. history[c][Len(history[c])] \in Row
    BY <1>1, <1>3
  <2> QED BY <1>3, <2>1 DEF PreviousVersion, Row
<1> QED BY <1>2, <1>3

(* What the drivers do quietly.                                            *)
LEMMA QuietDriving ==
  ASSUME RegistryAssumption, TypeOK, DriversHaveRuns, NEW t \in Thread,
         \/ Restore(t) \/ MarkRecoveryRequired(t) \/ PauseAtBoundary(t)
         \/ RequestHuman(t) \/ PromotionConflict(t) \/ RecordConflict(t)
         \/ ReadRollbackTarget(t) \/ ReadRollbackFrom(t)
         \/ Raise(t) \/ Abort(t)
  PROVE  Quiet /\ RestOK'
<1> DEFINE r == thr[t].run
<1>1. ~At(t, "idle")
  BY DEF Restore, MarkRecoveryRequired, PauseAtBoundary, RequestHuman,
         PromotionConflict, RecordConflict, ReadRollbackTarget, ReadRollbackFrom,
         Raise, Refused, Abort, At, ExternalNode
<1>2. /\ r \in Run /\ run[r] \in RunState /\ thr[t] \in Driver
      /\ lease \in [Run -> Lease] /\ asking \in [Run -> Version \cup {None}]
      /\ thr[t].held \in Version \cup {None} /\ thr[t].from \in Version \cup {None}
  BY <1>1 DEF DriversHaveRuns, TypeOK, Driver
<1>3. CASE Restore(t)
  <2>1. PICK pc \in {"recover", "loop"} :
          thr' = [thr EXCEPT ![t] = [thr[t] EXCEPT !.pc = pc, !.held = thr[t].held,
                                                   !.from = thr[t].from]]
    <3>1. PICK pc \in {"recover", "loop"} : thr' = [thr EXCEPT ![t].pc = pc]
      BY <1>3, Zenon DEF Restore, Goto
    <3> QED BY <1>2, <3>1 DEF Driver, TypeOK
  <2>2. QuietDrivers
    BY <1>1, <1>2, <2>1, GotoIsQuiet DEF Pc
  <2> QED BY <1>2, <1>3, <2>2, ReadOnlyIsQuiet DEF Restore
<1>4. CASE MarkRecoveryRequired(t)
  <2> DEFINE s == [run[r] EXCEPT !.status = "recovery_required", !.reason = "interrupted"]
  <2>1. s \in RunState /\ run' = [run EXCEPT ![r] = s]
    BY <1>2, <1>4, ZenonT(40) DEF RunState, RunStatus, Reason, MarkRecoveryRequired
  <2>2. QuietRun(r, s)
    BY <1>2, <2>1 DEF QuietRun, RunState
  <2> HIDE DEF s
  <2> QED BY <1>1, <1>2, <1>4, <2>2, LeaveIsQuiet, WriteIsQuiet DEF MarkRecoveryRequired
<1>5. CASE PauseAtBoundary(t)
  <2> DEFINE s == [run[r] EXCEPT !.status = "paused", !.pause = FALSE]
  <2>1. run' = [run EXCEPT ![r] = s] /\ run[r].step = None
    BY <1>5 DEF PauseAtBoundary
  <2>2. s \in RunState
    BY <1>2 DEF RunState, RunStatus
  <2>3. QuietRun(r, s)
    BY <1>2, <2>1, <2>2 DEF QuietRun, RunState
  <2> HIDE DEF s
  <2> QED BY <1>1, <1>2, <1>5, <2>3, LeaveIsQuiet, WriteIsQuiet DEF PauseAtBoundary
<1>6. CASE RequestHuman(t)
  <2>1. PICK reason \in Reason :
          run' = [run EXCEPT ![r].status = "awaiting_human", ![r].reason = reason]
    <3>1. run[r].reason \in Reason /\ "approval_required" \in Reason
      BY <1>2 DEF RunState, Reason
    <3>2. CASE run[r].reason = "none" BY <1>6, <3>1, <3>2 DEF RequestHuman
    <3>3. CASE run[r].reason # "none" BY <1>6, <3>1, <3>3 DEF RequestHuman
    <3> QED BY <3>2, <3>3
  <2> DEFINE s == [run[r] EXCEPT !.status = "awaiting_human", !.reason = reason]
  <2>2. s \in RunState /\ run' = [run EXCEPT ![r] = s]
    BY <1>2, <2>1, ZenonT(40) DEF RunState, RunStatus
  <2>3. QuietRun(r, s)
    BY <1>2, <2>2 DEF QuietRun, RunState
  <2> HIDE DEF s
  <2> QED BY <1>1, <1>2, <1>6, <2>3, LeaveIsQuiet, WriteIsQuiet DEF RequestHuman
<1>7. CASE PromotionConflict(t)
  <2>1. thr' = [thr EXCEPT ![t] = [thr[t] EXCEPT !.pc = "conflict", !.held = thr[t].held,
                                                 !.from = thr[t].from]]
    BY <1>2, <1>7 DEF PromotionConflict, Goto, Driver, TypeOK
  <2>2. QuietDrivers
    BY <1>1, <1>2, <2>1, GotoIsQuiet DEF Pc
  <2> QED BY <1>2, <1>7, <2>2, ReadOnlyIsQuiet DEF PromotionConflict
<1>8. CASE RecordConflict(t)
  <2> DEFINE s == [run[r] EXCEPT !.status = "awaiting_human", !.node = "hitl",
                                 !.reason = "promotion_conflict"]
  <2>1. RouteOf(r).promote.conflict = "hitl"
    BY <1>2, Routes
  <2>2. s \in RunState
    BY <1>2, ZenonT(40) DEF RunState, RunStatus, NodeName, Reason
  <2>3. run' = [run EXCEPT ![r] = s]
    BY <1>2, <1>8, <2>1 DEF RecordConflict
  <2>4. QuietRun(r, s)
    BY <1>2, <2>2, <2>3 DEF QuietRun, RunState
  <2> HIDE DEF s
  <2> QED BY <1>1, <1>2, <1>8, <2>4, LeaveIsQuiet, WriteIsQuiet DEF RecordConflict
<1>9. CASE ReadRollbackTarget(t)
  <2> DEFINE target == RollbackTarget(t)
  <2>1. target \in Version \cup {None}
    BY <1>2, PreviousVersionType DEF RegistryAssumption, TypeOK, Driver, RollbackTarget
  <2>2. thr' = [thr EXCEPT ![t] = [thr[t] EXCEPT !.pc = "rollback_from",
                                     !.held = target, !.from = thr[t].from]]
    BY <1>2, <1>9 DEF ReadRollbackTarget, Driver, TypeOK
  <2> HIDE DEF target
  <2>3. QuietDrivers
    BY <1>1, <1>2, <2>1, <2>2, GotoIsQuiet DEF Pc
  <2> QED BY <1>2, <1>9, <2>3, ReadOnlyIsQuiet DEF ReadRollbackTarget
<1>10. CASE ReadRollbackFrom(t)
  <2> DEFINE from == active[ChannelOf[r]]
  <2>1. from \in Version \cup {None}
    BY <1>2 DEF RegistryAssumption, TypeOK, RegistryTypeOK
  <2>2. thr' = [thr EXCEPT ![t] = [thr[t] EXCEPT !.pc = "rollback_commit",
                                     !.held = thr[t].held, !.from = from]]
    BY <1>2, <1>10 DEF ReadRollbackFrom, Driver, TypeOK
  <2> HIDE DEF from
  <2>3. QuietDrivers
    BY <1>1, <1>2, <2>1, <2>2, GotoIsQuiet DEF Pc
  <2> QED BY <1>2, <1>10, <2>3, ReadOnlyIsQuiet DEF ReadRollbackFrom
<1>11. CASE Raise(t) \/ Abort(t)
  BY <1>1, <1>2, <1>11, LeaveIsQuiet, ReadOnlyIsQuiet DEF Raise, Abort
<1> QED
  BY <1>3, <1>4, <1>5, <1>6, <1>7, <1>8, <1>9, <1>10, <1>11

(* What leases, crashes and the beginning and end of drive() do.           *)
LEMMA QuietLeasing ==
  ASSUME SupervisorAssumption, TypeOK, DriversHaveRuns,
         \/ \E t \in Thread : Release(t) \/ Heartbeat(t)
         \/ \E t \in Thread, r \in Run : Acquire(t, r)
         \/ \E r \in Run : LeaseLapse(r)
         \/ \E w \in Worker : Crash(w)
  PROVE  Quiet /\ RestOK'
<1>1. /\ lease \in [Run -> Lease] /\ thr \in [Thread -> Driver]
      /\ asking \in [Run -> Version \cup {None}] /\ crashed \subseteq Worker
  BY DEF TypeOK
<1>2. ASSUME NEW t \in Thread, Release(t)
      PROVE  Quiet /\ RestOK'
  <2>1. lease' \in [Run -> Lease]
    <3> DEFINE l == [owner |-> None, expired |-> FALSE]
    <3>1. l \in Lease
      BY DEF Lease
    <3>2. lease' = lease \/ lease' = [lease EXCEPT ![thr[t].run] = l]
      BY <1>2 DEF Release
    <3> HIDE DEF l
    <3> QED BY <1>1, <3>1, <3>2
  <2>2. thr' = [thr EXCEPT ![t] = Idle]
    BY <1>2 DEF Release
  <2>3. QuietDrivers
    BY <1>1, <2>2, IdleIsQuiet DEF QuietDrivers, QuietDriver
  <2> QED BY <1>2, <2>1, <2>3, ReadOnlyIsQuiet DEF Release
<1>3. ASSUME NEW t \in Thread, Heartbeat(t)
      PROVE  Quiet /\ RestOK'
  <2>1. lease' \in [Run -> Lease]
    BY <1>1, <1>3 DEF Heartbeat, Lease
  <2> QED BY <1>3, <2>1, StayIsQuiet, ReadOnlyIsQuiet DEF Heartbeat
<1>4. ASSUME NEW t \in Thread, NEW r \in Run, Acquire(t, r)
      PROVE  Quiet /\ RestOK'
  <2> DEFINE l == [owner |-> WorkerOf[t], expired |-> FALSE]
             d == [Idle EXCEPT !.pc = "restore", !.run = r]
  <2>1. l \in Lease
    BY DEF SupervisorAssumption, Lease
  <2>2. QuietDriver(d)
    BY DEF QuietDriver, Idle, Driver, Pc
  <2>3. lease' = [lease EXCEPT ![r] = l] /\ thr' = [thr EXCEPT ![t] = d]
    BY <1>4 DEF Acquire
  <2> HIDE DEF l, d
  <2>4. lease' \in [Run -> Lease] /\ QuietDrivers
    BY <1>1, <2>1, <2>2, <2>3 DEF QuietDrivers, QuietDriver
  <2> QED BY <1>4, <2>4, ReadOnlyIsQuiet DEF Acquire
<1>5. ASSUME NEW r \in Run, LeaseLapse(r)
      PROVE  Quiet /\ RestOK'
  <2>1. lease' \in [Run -> Lease]
    BY <1>1, <1>5 DEF LeaseLapse, Lease
  <2> QED BY <1>5, <2>1, StayIsQuiet, ReadOnlyIsQuiet DEF LeaseLapse
<1>6. ASSUME NEW w \in Worker, Crash(w)
      PROVE  Quiet /\ RestOK'
  <2>1. QuietDrivers
    BY <1>1, <1>6, IdleIsQuiet DEF Crash, QuietDrivers, QuietDriver
  <2> QED BY <1>1, <1>6, <2>1 DEF Crash, Quiet, RunsKept, RestOK
<1> QED BY <1>2, <1>3, <1>4, <1>5, <1>6

(* What the operators do quietly.                                          *)
LEMMA QuietOperating ==
  ASSUME RegistryAssumption, TypeOK, RestingRunsHaveNoStep, NEW r \in Run,
         \/ CreateRun(r) \/ Pause(r) \/ Resume(r) \/ Revise(r) \/ Reject(r)
         \/ \E target \in Version \cup {None} : DecideRollback(r, target)
         \/ \E target \in Version : AskRollback(r, target)
         \/ RequestRollback(r) \/ Cancel(r)
  PROVE  Quiet /\ RestOK'
<1>1. /\ run[r] \in RunState /\ active[ChannelOf[r]] \in Version \cup {None}
      /\ asking \in [Run -> Version \cup {None}] /\ lease \in [Run -> Lease]
  BY DEF TypeOK, RegistryAssumption, RegistryTypeOK
<1>2. CASE CreateRun(r)
  <2> DEFINE base == active[ChannelOf[r]]
             s == [Absent EXCEPT !.status = "running", !.base = base]
  <2>1. s \in RunState /\ s.step = None /\ s.candidate = None /\ s.status = "running"
        /\ s.node = "execute"
    BY <1>1 DEF Absent, RunState, RunStatus, NodeName, Reason
  <2>2. run' = [run EXCEPT ![r] = s]
    BY <1>2 DEF CreateRun
  <2>3. run[r].step = None /\ run[r].candidate = None
    BY <1>1, <1>2 DEF CreateRun, Created, RestingRunsHaveNoStep
  <2> HIDE DEF s
  <2>4. QuietRun(r, s)
    BY <2>1, <2>2, <2>3 DEF QuietRun
  <2> QED BY <1>1, <1>2, <2>4, StayIsQuiet, WriteIsQuiet DEF CreateRun
<1>3. CASE Pause(r)
  <2>1. CASE run[r].step # None
    <3> DEFINE s == [run[r] EXCEPT !.pause = TRUE]
    <3>1. s \in RunState
      BY <1>1 DEF RunState
    <3>2. run' = [run EXCEPT ![r] = s] /\ run[r].status = "running"
      BY <1>3, <2>1 DEF Pause
    <3>3. QuietRun(r, s)
      BY <1>1, <3>1, <3>2 DEF QuietRun, RunState
    <3> HIDE DEF s
    <3> QED BY <1>1, <1>3, <3>3, StayIsQuiet, WriteIsQuiet DEF Pause
  <2>2. CASE run[r].step = None
    <3> DEFINE s == [run[r] EXCEPT !.status = "paused", !.pause = FALSE]
    <3>1. s \in RunState
      BY <1>1 DEF RunState, RunStatus
    <3>2. run' = [run EXCEPT ![r] = s]
      BY <1>3, <2>2 DEF Pause
    <3>3. QuietRun(r, s)
      BY <1>1, <2>2, <3>1, <3>2 DEF QuietRun, RunState
    <3> HIDE DEF s
    <3> QED BY <1>1, <1>3, <3>3, StayIsQuiet, WriteIsQuiet DEF Pause
  <2> QED BY <2>1, <2>2
<1>4. CASE Resume(r)
  <2> DEFINE s == [run[r] EXCEPT !.status = "running", !.pause = FALSE]
  <2>1. s \in RunState
    BY <1>1 DEF RunState, RunStatus
  <2>2. run' = [run EXCEPT ![r] = s]
    BY <1>4 DEF Resume
  <2>3. QuietRun(r, s)
    BY <1>1, <2>1, <2>2 DEF QuietRun, RunState
  <2> HIDE DEF s
  <2> QED BY <1>1, <1>4, <2>3, StayIsQuiet, WriteIsQuiet DEF Resume
<1>5. CASE Revise(r)
  <2> DEFINE iteration == run[r].iteration + 1
             base == IF run[r].reason = "promotion_conflict"
                     THEN active[ChannelOf[r]] ELSE run[r].base
             s == [run[r] EXCEPT !.status = "running", !.node = "execute",
                     !.iteration = iteration, !.reason = "none", !.base = base]
  <2>1. iteration \in Nat /\ base \in Version \cup {None}
    BY <1>1 DEF RunState
  <2>2. RouteOf(r).hitl.revise = "execute"
    BY Routes
  <2>3. run' = [run EXCEPT ![r] = s]
    BY <1>5, <2>2 DEF Revise
  <2> HIDE DEF iteration, base
  <2>4. s \in RunState
    BY <1>1, <2>1, ZenonT(40) DEF RunState, RunStatus, NodeName, Reason
  <2>5. QuietRun(r, s)
    BY <1>1, <2>3, <2>4 DEF QuietRun, RunState
  <2> HIDE DEF s
  <2> QED BY <1>1, <1>5, <2>5, StayIsQuiet, WriteIsQuiet DEF Revise
<1>6. CASE Reject(r)
  <2> DEFINE s == [run[r] EXCEPT !.status = "failed", !.node = "done", !.reason = "none"]
  <2>1. s \in RunState
    BY <1>1, ZenonT(40) DEF RunState, RunStatus, NodeName, Reason
  <2>2. run' = [run EXCEPT ![r] = s]
    BY <1>6 DEF Reject
  <2>3. QuietRun(r, s)
    BY <1>1, <2>1, <2>2 DEF QuietRun, RunState
  <2> HIDE DEF s
  <2> QED BY <1>1, <1>6, <2>3, StayIsQuiet, WriteIsQuiet DEF Reject
<1>7. ASSUME NEW target \in Version \cup {None}, DecideRollback(r, target)
      PROVE  Quiet /\ RestOK'
  <2> DEFINE s == [run[r] EXCEPT !.status = "running", !.node = "rollback",
                                 !.reason = "none", !.target = target]
  <2>1. s \in RunState
    BY <1>1, ZenonT(40) DEF RunState, RunStatus, NodeName, Reason
  <2>2. RouteOf(r).hitl.rollback = "rollback"
    BY Routes
  <2>3. run' = [run EXCEPT ![r] = s]
    BY <1>7, <2>2 DEF DecideRollback
  <2>4. QuietRun(r, s)
    BY <1>1, <2>1, <2>3 DEF QuietRun, RunState
  <2> HIDE DEF s
  <2> QED BY <1>1, <1>7, <2>4, StayIsQuiet, WriteIsQuiet DEF DecideRollback
<1>8. ASSUME NEW target \in Version, AskRollback(r, target)
      PROVE  Quiet /\ RestOK'
  BY <1>1, <1>8, StayIsQuiet DEF AskRollback, Quiet, RunsKept, RestOK, TypeOK
<1>9. CASE RequestRollback(r)
  <2>1. asking' \in [Run -> Version \cup {None}] /\ asking[r] \in Version \cup {None}
    BY <1>1, <1>9 DEF RequestRollback
  <2>2. CASE run[r].step # None
    BY <1>1, <1>9, <2>1, <2>2, StayIsQuiet DEF RequestRollback, Quiet, RunsKept, RestOK, TypeOK
  <2>3. CASE run[r].step = None
    <3> DEFINE target == asking[r]
               s == [run[r] EXCEPT !.status = "running", !.node = "rollback",
                       !.target = target, !.reason = "none", !.pause = FALSE]
    <3>1. run' = [run EXCEPT ![r] = s]
      BY <1>9, <2>3 DEF RequestRollback
    <3>2. target \in Version \cup {None}
      BY <2>1
    <3> HIDE DEF target
    <3>3. s \in RunState
      BY <1>1, <3>2, ZenonT(40) DEF RunState, RunStatus, NodeName, Reason
    <3>4. QuietRun(r, s)
      BY <1>1, <3>1, <3>3 DEF QuietRun, RunState
    <3> HIDE DEF s
    <3> QED BY <1>1, <1>9, <2>1, <3>4, StayIsQuiet, WriteIsQuiet DEF RequestRollback
  <2> QED BY <2>2, <2>3
<1>10. CASE Cancel(r)
  <2> DEFINE s == [run[r] EXCEPT !.status = "cancelled", !.node = "done",
                                 !.reason = "none", !.pause = FALSE]
  <2>1. s \in RunState
    BY <1>1, ZenonT(40) DEF RunState, RunStatus, NodeName, Reason
  <2>2. run' = [run EXCEPT ![r] = s]
    BY <1>10 DEF Cancel
  <2>3. QuietRun(r, s)
    BY <1>1, <2>1, <2>2 DEF QuietRun, RunState
  <2> HIDE DEF s
  <2> QED BY <1>1, <1>10, <2>3, StayIsQuiet, WriteIsQuiet DEF Cancel
<1> QED
  BY <1>2, <1>3, <1>4, <1>5, <1>6, <1>7, <1>8, <1>9, <1>10

------------------------------------------------------------------------------
(* Of every version its run and its verdict are kept, and that it exists.  *)
VersionsKept ==
  \A v \in Version : /\ ver'[v].run = ver[v].run
                     /\ ver'[v].validation = ver[v].validation
                     /\ ver[v].status # "free" => ver'[v].status # "free"

(* Steps that keep versions, pending steps, candidates and the journal's   *)
(* step events preserve the inductive invariant: the quiet ones, and       *)
(* pointer moves.                                                          *)
LEMMA KeptInductive ==
  ASSUME TypeOK, Inductive, VersionsKept, UNCHANGED stepLog, approved \subseteq approved',
         RunsKept, QuietDrivers, ReleaseGate'
  PROVE  Inductive'
<1>1. \A q \in Run :
        /\ run'[q].step = run[q].step /\ run'[q].candidate = run[q].candidate
        /\ run'[q].status \in {"paused", "absent"} => run'[q].step = None
        /\ run'[q].status = "absent" => run'[q].candidate = None
        /\ run'[q].node = "verify" => run[q].node = "verify"
        /\ run'[q].node = "promote" =>
             run[q].node = "promote" \/ run[q].candidate \in approved' \cup {None}
  BY DEF RunsKept, QuietRun, TypeOK, Inductive, RestingRunsHaveNoStep
<1>2. DriversHaveRuns'
  BY DEF Inductive, DriversHaveRuns, QuietDrivers, QuietDriver, At
<1>3. OpenCallIsPending' /\ PendingIsOpen' /\ RestingRunsHaveNoStep'
  BY <1>1 DEF Inductive, OpenCallIsPending, PendingIsOpen, RestingRunsHaveNoStep
<1>4. VerifiersWait'
  BY DEF Inductive, VerifiersWait, QuietDrivers, QuietDriver, At
<1>5. CandidatesAreOwn'
  BY <1>1 DEF Inductive, CandidatesAreOwn, VersionsKept, Exists
<1>6. UnverifiedAtVerify'
  <2>1. \A q \in Run : AtVerify(q)' => AtVerify(q)
    BY <1>1 DEF AtVerify
  <2>2. \A v \in Version : ~Exists(v)' => ver'[v].validation = "none"
    BY DEF Inductive, UnverifiedAtVerify, VersionsKept, Exists
  <2>3. \A q \in Run : run[q].candidate # None => run[q].candidate \in Version
    BY DEF Inductive, CandidatesAreOwn, Exists
  <2>4. \A q \in Run : AtVerify(q)' =>
          run'[q].candidate # None /\ ver'[run'[q].candidate].validation = "none"
    BY <1>1, <2>1, <2>3 DEF Inductive, UnverifiedAtVerify, VersionsKept
  <2> QED BY <2>2, <2>4 DEF UnverifiedAtVerify
<1>7. PromotableIsGated'
  <2>1. \A r \in Run, v \in Version : Gated(r, v) => Gated(r, v)'
    BY DEF Gated, VersionsKept
  <2>2. ASSUME NEW r \in Run, run'[r].node = "promote", run'[r].candidate # None
        PROVE  Gated(r, run[r].candidate)'
    <3>1. run'[r].candidate = run[r].candidate /\ run[r].candidate \in Version
      BY <1>1, <2>2 DEF Inductive, CandidatesAreOwn, Exists
    <3>2. CASE run[r].node = "promote"
      BY <2>1, <2>2, <3>1, <3>2 DEF Inductive, PromotableIsGated
    <3>3. CASE run[r].candidate \in approved'
      BY <3>1, <3>3 DEF Gated
    <3> QED BY <1>1, <2>2, <3>1, <3>2, <3>3
  <2>3. ASSUME NEW t \in Thread, At(t, "promote")'
        PROVE  /\ Exists(thr[t].held)' /\ ver'[thr'[t].held].run = thr'[t].run
               /\ Gated(thr[t].run, thr[t].held)'
    <3>1. thr'[t] = thr[t] /\ At(t, "promote")
      BY <2>3 DEF QuietDrivers, QuietDriver, At
    <3>2. thr[t].run \in Run
      BY <3>1 DEF Inductive, DriversHaveRuns, At
    <3>3. /\ Exists(thr[t].held) /\ ver[thr[t].held].run = thr[t].run
          /\ Gated(thr[t].run, thr[t].held)
      BY <3>1 DEF Inductive, PromotableIsGated
    <3> QED BY <2>1, <3>1, <3>2, <3>3 DEF VersionsKept, Exists
  <2> QED BY <2>2, <2>3 DEF PromotableIsGated
<1> QED BY <1>2, <1>3, <1>4, <1>5, <1>6, <1>7 DEF Inductive

(* The quiet steps among them.                                             *)
LEMMA QuietInductive ==
  ASSUME TypeOK, Inductive, Quiet
  PROVE  Inductive'
<1>1. VersionsKept /\ approved' = approved /\ history' = history /\ ver' = ver
  BY DEF Quiet, registry, VersionsKept
<1>2. ReleaseGate'
  BY <1>1 DEF Inductive, ReleaseGate
<1> QED BY <1>1, <1>2, KeptInductive DEF Quiet

(* A pointer move changes of the versions their status alone, and the      *)
(* history by its row.                                                     *)
LEMMA MovePointerEffect ==
  ASSUME TypeOK, Inductive, NEW c \in Channel, NEW v \in Version,
         NEW demoted \in VersionStatus, NEW row \in Row,
         MovePointer(c, v, demoted, row), UNCHANGED approved,
         row.action = "promote" => Gated(row.run, row.version)
  PROVE  VersionsKept /\ ReleaseGate'
<1>1. VersionsKept
  <2> SUFFICES ASSUME NEW w \in Version
               PROVE  /\ ver'[w].run = ver[w].run
                      /\ ver'[w].validation = ver[w].validation
                      /\ ver[w].status # "free" => ver'[w].status # "free"
    BY DEF VersionsKept
  <2>1. ver[w] \in VersionState
    BY DEF TypeOK, RegistryTypeOK
  <2>2. ver'[w] \in {[ver[w] EXCEPT !.status = "active"],
                     [ver[w] EXCEPT !.status = demoted], ver[w]}
    BY DEF MovePointer
  <2>3. demoted # "free"
    BY DEF VersionStatus
  <2> QED BY <2>1, <2>2, <2>3 DEF VersionState
<1>2. \A r \in Run, w \in Version : Gated(r, w) => Gated(r, w)'
  BY <1>1 DEF VersionsKept, Gated
<1>3. ASSUME NEW d \in Channel, NEW i \in DOMAIN history'[d],
             history'[d][i].action = "promote"
      PROVE  Gated(history[d][i].run, history[d][i].version)'
  <2>1. /\ history[d] \in Seq(Row) /\ history[c] \in Seq(Row)
        /\ history' = [history EXCEPT ![c] = Append(history[c], row)]
        /\ history \in [Channel -> Seq(Row)]
    BY DEF TypeOK, RegistryTypeOK, MovePointer
  <2>2. \/ i \in DOMAIN history[d] /\ history'[d][i] = history[d][i]
        \/ history'[d][i] = row
    BY <2>1
  <2>3. CASE i \in DOMAIN history[d] /\ history'[d][i] = history[d][i]
    <3>1. history[d][i] \in Row
      BY <2>1, <2>3
    <3>2. Gated(history[d][i].run, history[d][i].version)
      BY <1>3, <2>3 DEF Inductive, ReleaseGate, Gated
    <3>3. history[d][i].run \in Run /\ history[d][i].version \in Version
      BY <3>1 DEF Row
    <3> QED BY <1>2, <2>3, <3>2, <3>3 DEF Gated
  <2>4. CASE history'[d][i] = row
    <3>1. row.run \in Run /\ row.version \in Version
      BY DEF Row
    <3> QED BY <1>2, <1>3, <2>4, <3>1 DEF Gated
  <2> QED BY <2>2, <2>3, <2>4
<1> QED BY <1>1, <1>3 DEF ReleaseGate, Gated

(* _promote: the driver read a gated candidate, the row continues the chain.*)
LEMMA PromoteCandidateKeeps ==
  ASSUME RegistryAssumption, TypeOK, Inductive, NEW t \in Thread, PromoteCandidate(t)
  PROVE  TypeOK' /\ Inductive'
<1> DEFINE r == thr[t].run
           v == thr[t].held
           base == run[r].base
           row == PromotionRow(ChannelOf[r], v, base, r)
           s == [run[r] EXCEPT !.status = "succeeded", !.node = "done",
                               !.base = v, !.reason = "none"]
<1>1. /\ At(t, "promote") /\ Leave(t) /\ Promote(r, v, base)
      /\ UNCHANGED <<lease, stepLog, approved, asking, crashed>>
  BY DEF PromoteCandidate
<1>2. /\ r \in Run /\ run[r] \in RunState /\ base \in Version \cup {None}
      /\ RegistryTypeOK
  BY <1>1 DEF Inductive, DriversHaveRuns, At, TypeOK, RunState
<1>3. /\ ChannelOf[r] \in Channel /\ v \in Version /\ row \in Row
      /\ MovePointer(ChannelOf[r], v, "superseded", row)
  BY <1>1, <1>2, PromotionMovesPointer
<1>4. RegistryTypeOK'
  BY <1>1, <1>2, PromoteTypeOK
<1>5. VersionsKept /\ ReleaseGate'
  <2>1. row.run = r /\ row.version = v
    BY DEF PromotionRow
  <2>2. Gated(r, v)
    BY <1>1 DEF Inductive, PromotableIsGated
  <2>3. "superseded" \in VersionStatus
    BY DEF VersionStatus
  <2>4. UNCHANGED approved
    BY <1>1
  <2> HIDE DEF row
  <2> QED BY <1>3, <2>1, <2>2, <2>3, <2>4, MovePointerEffect
<1>6. QuietRun(r, s)
  <2>1. s \in RunState
    BY <1>2, <1>3, ZenonT(40) DEF RunState, RunStatus, NodeName, Reason
  <2>2. run' = [run EXCEPT ![r] = s]
    BY <1>2, Routes DEF PromoteCandidate
  <2> QED BY <1>2, <2>1, <2>2 DEF QuietRun, RunState
<1>7. QuietDrivers /\ RunsKept
  <2>1. QuietDrivers
    BY <1>1, LeaveIsQuiet DEF Inductive, At
  <2> HIDE DEF s
  <2> QED BY <1>6, <2>1 DEF RunsKept, QuietRun
<1>8. Inductive'
  BY <1>1, <1>5, <1>7, KeptInductive
<1>9. TypeOK'
  BY <1>1, <1>4, <1>7, SMTT(40) DEF TypeOK, RunsKept, QuietRun, QuietDrivers
<1> QED BY <1>8, <1>9

(* _rollback: no promotion, whatever the target.                           *)
LEMMA CommitRollbackKeeps ==
  ASSUME RegistryAssumption, TypeOK, Inductive, NEW t \in Thread, CommitRollback(t)
  PROVE  TypeOK' /\ Inductive'
<1> DEFINE r == thr[t].run
           v == thr[t].held
           c == ChannelOf[r]
           row == [action |-> "rollback", version |-> v, previous |-> active[c],
                   run |-> r, reported |-> thr[t].from]
           s == [run[r] EXCEPT !.status = "rolled_back", !.node = "done",
                               !.base = v, !.target = v, !.reason = "none"]
<1>1. /\ At(t, "rollback_commit") /\ Leave(t) /\ Rollback(r, v, thr[t].from)
      /\ UNCHANGED <<lease, stepLog, approved, asking, crashed>>
  BY DEF CommitRollback
<1>2. /\ r \in Run /\ run[r] \in RunState /\ RegistryTypeOK
      /\ thr[t].from \in Version \cup {None}
  BY <1>1 DEF Inductive, DriversHaveRuns, At, TypeOK, Driver
<1>3. /\ c \in Channel /\ v \in Version
      /\ MovePointer(c, v, "rolled_back", row)
  BY <1>1, <1>2 DEF Rollback, RollbackAccepted, RegistryAssumption, Exists
<1>4. row \in Row
  BY <1>2, <1>3 DEF Row, RegistryTypeOK
<1>5. RegistryTypeOK'
  BY <1>1, <1>2, RollbackTypeOK
<1>6. VersionsKept /\ ReleaseGate'
  <2>1. row.action # "promote"
    OBVIOUS
  <2>2. "rolled_back" \in VersionStatus
    BY DEF VersionStatus
  <2>3. UNCHANGED approved
    BY <1>1
  <2> HIDE DEF row
  <2> QED BY <1>3, <1>4, <2>1, <2>2, <2>3, MovePointerEffect
<1>7. QuietRun(r, s)
  <2>1. s \in RunState
    BY <1>2, <1>3, ZenonT(40) DEF RunState, RunStatus, NodeName, Reason
  <2>2. run' = [run EXCEPT ![r] = s]
    BY <1>2, Routes DEF CommitRollback
  <2> QED BY <1>2, <2>1, <2>2 DEF QuietRun, RunState
<1>8. QuietDrivers /\ RunsKept
  <2>1. QuietDrivers
    BY <1>1, LeaveIsQuiet DEF Inductive, At
  <2> HIDE DEF s
  <2> QED BY <1>7, <2>1 DEF RunsKept, QuietRun
<1>9. Inductive'
  BY <1>1, <1>6, <1>8, KeptInductive
<1>10. TypeOK'
  BY <1>1, <1>5, <1>8 DEF TypeOK, RunsKept, QuietRun, QuietDrivers
<1> QED BY <1>9, <1>10

(* A human's approval puts the candidate through the gate.                 *)
LEMMA ApproveKeeps ==
  ASSUME TypeOK, Inductive, NEW r \in Run, Approve(r)
  PROVE  TypeOK' /\ Inductive'
<1> DEFINE s == [run[r] EXCEPT !.status = "running", !.node = "promote", !.reason = "none"]
<1>1. run[r] \in RunState /\ UNCHANGED registry
      /\ UNCHANGED <<lease, thr, stepLog, asking, crashed>>
  BY DEF TypeOK, Approve
<1>2. approved' = approved \cup ({run[r].candidate} \ {None})
  BY DEF Approve
<1>3. QuietRun(r, s)
  <2>1. s \in RunState
    BY <1>1, ZenonT(40) DEF RunState, RunStatus, NodeName, Reason
  <2>2. run' = [run EXCEPT ![r] = s]
    BY Routes DEF Approve
  <2> QED BY <1>1, <1>2, <2>1, <2>2 DEF QuietRun, RunState
<1>4. RunsKept
  <2> HIDE DEF s
  <2> QED BY <1>3 DEF RunsKept, QuietRun
<1>5. VersionsKept /\ ReleaseGate' /\ QuietDrivers
  BY <1>1, <1>2, StayIsQuiet DEF registry, VersionsKept, Inductive, ReleaseGate
<1>6. Inductive'
  BY <1>1, <1>2, <1>4, <1>5, KeptInductive
<1>7. approved' \subseteq Version
  BY <1>1, <1>2 DEF TypeOK, RunState
<1> QED BY <1>1, <1>4, <1>6, <1>7 DEF TypeOK, RegistryTypeOK, registry, RunsKept, QuietRun

(* A driver that goes on to promote has read a gated candidate.            *)
LEMMA DispatchKeeps ==
  ASSUME TypeOK, Inductive, NEW t \in Thread, Dispatch(t)
  PROVE  TypeOK' /\ Inductive'
<1> DEFINE r == thr[t].run
<1>1. /\ ~At(t, "idle") /\ UNCHANGED registry
      /\ UNCHANGED <<run, lease, stepLog, approved, asking, crashed>>
  BY DEF Dispatch, At
<1>2. /\ r \in Run /\ run[r] \in RunState /\ thr[t] \in Driver
      /\ thr[t].held \in Version \cup {None} /\ thr[t].from \in Version \cup {None}
      /\ thr \in [Thread -> Driver] /\ DriversHaveRuns
  BY <1>1 DEF Inductive, DriversHaveRuns, TypeOK, Driver
<1>3. ASSUME QuietDrivers
      PROVE  TypeOK' /\ Inductive'
  <2>1. Quiet /\ RestOK'
    BY <1>1, <1>3 DEF Quiet, RunsKept, RestOK, TypeOK
  <2> QED BY <2>1, QuietTypeOK, QuietInductive
<1>4. CASE Leave(t)
  BY <1>1, <1>2, <1>3, <1>4, LeaveIsQuiet
<1>5. ASSUME NEW pc \in {"pause", "execute", "hitl"}, Goto(t, pc)
      PROVE  TypeOK' /\ Inductive'
  <2>1. thr' = [thr EXCEPT ![t] = [thr[t] EXCEPT !.pc = pc, !.held = thr[t].held,
                                                 !.from = thr[t].from]]
    BY <1>2, <1>5 DEF Goto, Driver
  <2> QED BY <1>1, <1>2, <1>3, <2>1, GotoIsQuiet DEF Pc
<1>6. ASSUME NEW pc \in {"verify", "rollback_target"},
             NEW held \in Version \cup {None},
             thr' = [thr EXCEPT ![t].pc = pc, ![t].held = held]
      PROVE  TypeOK' /\ Inductive'
  <2>1. thr' = [thr EXCEPT ![t] = [thr[t] EXCEPT !.pc = pc, !.held = held,
                                                 !.from = thr[t].from]]
    BY <1>2, <1>6 DEF Driver
  <2> QED BY <1>1, <1>2, <1>3, <2>1, GotoIsQuiet DEF Pc
<1>7. ASSUME run[r].node = "promote", run[r].candidate # None,
             thr' = [thr EXCEPT ![t].pc = "promote", ![t].held = run[r].candidate]
      PROVE  TypeOK' /\ Inductive'
  <2> DEFINE v == run[r].candidate
             d == [thr[t] EXCEPT !.pc = "promote", !.held = v]
  <2>1. v \in Version /\ Exists(v) /\ ver[v].run = r /\ Gated(r, v)
    BY <1>2, <1>7 DEF Inductive, CandidatesAreOwn, PromotableIsGated, Exists
  <2>2. d \in Driver /\ d.pc = "promote" /\ d.held = v /\ d.run = r
    BY <1>2, <2>1 DEF Driver, Pc
  <2>3. thr' = [thr EXCEPT ![t] = d]
    BY <1>2, <1>7 DEF Driver
  <2> HIDE DEF d
  <2>4. thr' \in [Thread -> Driver] /\ thr'[t] = d /\ \A u \in Thread \ {t} : thr'[u] = thr[u]
    BY <1>2, <2>2, <2>3
  <2>5. TypeOK'
    BY <1>1, <2>4 DEF TypeOK, RegistryTypeOK, registry
  <2>6. DriversHaveRuns' /\ VerifiersWait'
    BY <1>1, <1>2, <2>2, <2>4 DEF Inductive, DriversHaveRuns, VerifiersWait, At
  <2>7. PromotableIsGated'
    BY <1>1, <1>2, <2>1, <2>2, <2>4, ZenonT(40)
       DEF Inductive, PromotableIsGated, At, Gated, Exists, registry
  <2>8. /\ OpenCallIsPending' /\ PendingIsOpen' /\ RestingRunsHaveNoStep'
        /\ CandidatesAreOwn' /\ UnverifiedAtVerify' /\ ReleaseGate'
    BY <1>1 DEF Inductive, OpenCallIsPending, PendingIsOpen, RestingRunsHaveNoStep,
         CandidatesAreOwn, UnverifiedAtVerify, AtVerify, ReleaseGate, Exists, registry
  <2> QED BY <2>5, <2>6, <2>7, <2>8 DEF Inductive
<1>8. run[r].candidate \in Version \cup {None} /\ run[r].target \in Version \cup {None}
  BY <1>2 DEF RunState
<1>9. \/ Leave(t) \/ Goto(t, "pause")
      \/ run[r].node \in {"execute", "hitl"} /\ Goto(t, run[r].node)
      \/ /\ run[r].node \in {"verify", "promote"} /\ run[r].candidate # None
         /\ thr' = [thr EXCEPT ![t].pc = run[r].node, ![t].held = run[r].candidate]
      \/ /\ run[r].node = "rollback"
         /\ thr' = [thr EXCEPT ![t].pc = "rollback_target", ![t].held = run[r].target]
  BY DEF Dispatch
<1>10. CASE /\ run[r].node = "rollback"
            /\ thr' = [thr EXCEPT ![t].pc = "rollback_target", ![t].held = run[r].target]
  BY <1>6, <1>8, <1>10
<1>11. CASE /\ run[r].node \in {"verify", "promote"} /\ run[r].candidate # None
            /\ thr' = [thr EXCEPT ![t].pc = run[r].node, ![t].held = run[r].candidate]
  BY <1>6, <1>7, <1>8, <1>11
<1>12. CASE run[r].node \in {"execute", "hitl"} /\ Goto(t, run[r].node)
  BY <1>5, <1>12
<1>13. CASE Goto(t, "pause")
  BY <1>5, <1>13
<1> QED BY <1>4, <1>9, <1>10, <1>11, <1>12, <1>13

------------------------------------------------------------------------------
(* The life of a step.  Opening one uses a fresh id.                       *)
LEMMA BeginKeeps ==
  ASSUME SupervisorAssumption, TypeOK, Inductive, NEW t \in Thread,
         NEW node \in ExternalNode, BeginExternalStep(t, node)
  PROVE  TypeOK' /\ Inductive'
<1> DEFINE r == thr[t].run
           k == CHOOSE i \in UnusedStep : TRUE
           w == WorkerOf[t]
           s == [run[r] EXCEPT !.step = k, !.owner = w]
           l == [run |-> r, node |-> node, outcome |-> "started"]
           pc == IF node = "execute" THEN "executing" ELSE "verifying"
           d == [thr[t] EXCEPT !.step = k, !.pc = pc]
<1>1. /\ At(t, node) /\ MayBegin(r, node) /\ UnusedStep # {}
      /\ run' = [run EXCEPT ![r].step = k, ![r].owner = w]
      /\ stepLog' = [stepLog EXCEPT ![k] = l]
      /\ thr' = [thr EXCEPT ![t].step = k, ![t].pc = pc]
      /\ UNCHANGED registry /\ UNCHANGED <<lease, approved, asking, crashed>>
  BY DEF BeginExternalStep
<1>2. /\ k \in Step /\ stepLog[k].outcome = "unused" /\ w \in Worker
  BY <1>1 DEF UnusedStep, SupervisorAssumption
<1>3. /\ r \in Run /\ run[r] \in RunState /\ thr[t] \in Driver
      /\ run[r].status = "running" /\ run[r].node = node /\ run[r].step = None
  BY <1>1 DEF Inductive, DriversHaveRuns, At, ExternalNode, TypeOK, MayBegin
<1>4. pc \in {"executing", "verifying"} /\ (pc = "verifying" => node = "verify")
  BY DEF ExternalNode
<1>5. run' = [run EXCEPT ![r] = s] /\ thr' = [thr EXCEPT ![t] = d]
  BY <1>1
<1> HIDE DEF k, w, pc
<1>6. /\ s \in RunState /\ s.step = k /\ s.status = "running" /\ s.node = node
      /\ s.candidate = run[r].candidate
  BY <1>2, <1>3 DEF RunState
<1>7. l \in StepRecord /\ l.run = r /\ l.node = node /\ l.outcome = "started"
  BY <1>3 DEF StepRecord, Outcome, ExternalNode
<1>8. d \in Driver /\ d.pc = pc /\ d.run = r /\ d.step = k
  BY <1>2, <1>3, <1>4 DEF Driver, Pc
<1> HIDE DEF r, s, d, l
<1>9. /\ run' \in [Run -> RunState] /\ run'[r] = s /\ \A q \in Run \ {r} : run'[q] = run[q]
      /\ thr' \in [Thread -> Driver] /\ thr'[t] = d /\ \A u \in Thread \ {t} : thr'[u] = thr[u]
      /\ stepLog' \in [Step -> StepRecord] /\ stepLog'[k] = l
      /\ \A i \in Step \ {k} : stepLog'[i] = stepLog[i]
  <2>1. run' \in [Run -> RunState] /\ run'[r] = s /\ \A q \in Run \ {r} : run'[q] = run[q]
    BY <1>3, <1>5, <1>6 DEF TypeOK
  <2>2. /\ thr' \in [Thread -> Driver] /\ thr'[t] = d
        /\ \A u \in Thread \ {t} : thr'[u] = thr[u]
    BY <1>5, <1>8 DEF TypeOK
  <2>3. stepLog' = [stepLog EXCEPT ![k] = l]
    BY <1>1
  <2>4. /\ stepLog' \in [Step -> StepRecord] /\ stepLog'[k] = l
        /\ \A i \in Step \ {k} : stepLog'[i] = stepLog[i]
    BY <1>2, <1>7, <2>3 DEF TypeOK
  <2> QED BY <2>1, <2>2, <2>4
<1>10. TypeOK'
  BY <1>1, <1>9 DEF TypeOK, RegistryTypeOK, registry
<1>11. None \notin Step
  BY DEF SupervisorAssumption
<1>12. DriversHaveRuns'
  BY <1>3, <1>8, <1>9 DEF Inductive, DriversHaveRuns, At
<1>13. OpenCallIsPending'
  <2> SUFFICES ASSUME NEW i \in Step, stepLog'[i].outcome = "started"
               PROVE  run'[stepLog'[i].run].step = i
    BY DEF OpenCallIsPending
  <2>1. CASE i = k
    BY <1>3, <1>6, <1>7, <1>9, <2>1
  <2>2. CASE i # k
    <3>1. stepLog[i].run \in Run /\ run[stepLog[i].run].step = i
      BY <1>9, <2>2 DEF Inductive, OpenCallIsPending, PendingIsOpen
    <3>2. stepLog[i].run # r
      BY <1>3, <1>11, <3>1
    <3> QED BY <1>9, <2>2, <3>1, <3>2
  <2> QED BY <2>1, <2>2
<1>14. PendingIsOpen'
  <2>1. \A i \in Step : stepLog'[i].outcome = "started" => stepLog'[i].run \in Run
    BY <1>3, <1>7, <1>9 DEF Inductive, PendingIsOpen
  <2>2. ASSUME NEW q \in Run, run'[q].step # None
        PROVE  stepLog'[run'[q].step].outcome = "started" /\ stepLog'[run'[q].step].run = q
    <3>1. CASE q = r
      BY <1>6, <1>7, <1>9, <3>1
    <3>2. CASE q # r
      <4>1. run'[q] = run[q] /\ run[q].step \in Step
        BY <1>9, <2>2, <3>2 DEF TypeOK, RunState
      <4>2. stepLog[run[q].step].outcome = "started" /\ stepLog[run[q].step].run = q
        BY <2>2, <4>1 DEF Inductive, PendingIsOpen
      <4> QED BY <1>2, <1>9, <4>1, <4>2
    <3> QED BY <3>1, <3>2
  <2> QED BY <2>1, <2>2 DEF PendingIsOpen
<1>18. \A q \in Run : run'[q].node = run[q].node /\ run'[q].candidate = run[q].candidate
  BY <1>3, <1>6, <1>9
<1>19. ver' = ver /\ active' = active /\ history' = history /\ approved' = approved
  BY <1>1 DEF registry
<1>20. RestingRunsHaveNoStep'
  BY <1>6, <1>9 DEF Inductive, RestingRunsHaveNoStep
<1>21. CandidatesAreOwn'
  BY <1>18, <1>19 DEF Inductive, CandidatesAreOwn, Exists
<1>15. VerifiersWait'
  <2> SUFFICES ASSUME NEW u \in Thread, thr'[u].pc = "verifying"
               PROVE  /\ thr'[u].step \in Step /\ stepLog'[thr'[u].step].node = "verify"
                      /\ stepLog'[thr'[u].step].outcome # "unused"
    BY DEF VerifiersWait, At
  <2>1. CASE u = t
    BY <1>2, <1>4, <1>7, <1>8, <1>9, <2>1
  <2>2. CASE u # t
    BY <1>2, <1>9, <2>2 DEF Inductive, VerifiersWait, At
  <2> QED BY <2>1, <2>2
<1>16. UnverifiedAtVerify'
  <2>1. \A q \in Run : AtVerify(q)' => AtVerify(q)
    <3>1. ASSUME NEW q \in Run, q = r, AtVerify(q)'
          PROVE  AtVerify(q)
      BY <1>2, <1>3, <1>6, <1>7, <1>9, <3>1 DEF AtVerify
    <3>2. ASSUME NEW q \in Run, q # r, AtVerify(q)'
          PROVE  AtVerify(q)
      <4>1. run'[q] = run[q] /\ run[q].step \in Step \cup {None}
        BY <1>9, <3>2 DEF TypeOK, RunState
      <4>2. run[q].step # None => run[q].step # k
        BY <1>2 DEF Inductive, PendingIsOpen
      <4> QED BY <1>9, <3>2, <4>1, <4>2 DEF AtVerify
    <3> QED BY <3>1, <3>2
  <2> QED BY <1>1, <1>6, <1>9, <2>1 DEF Inductive, UnverifiedAtVerify, Exists, registry
<1>17. PromotableIsGated' /\ ReleaseGate'
  <2>1. \A u \in Thread : thr'[u].pc = "promote" => thr'[u] = thr[u]
    BY <1>4, <1>8, <1>9
  <2>2. PromotableIsGated'
    BY <1>18, <1>19, <2>1 DEF Inductive, PromotableIsGated, Gated, At, Exists
  <2>3. ReleaseGate'
    BY <1>19 DEF Inductive, ReleaseGate
  <2> QED BY <2>2, <2>3
<1> QED BY <1>10, <1>12, <1>13, <1>14, <1>15, <1>16, <1>17, <1>20, <1>21 DEF Inductive

(* Closing one, by a result or by a human's decision: the run is left      *)
(* without a step, and no other run is concerned.                          *)
Closing(r, s, outcome) ==
  /\ s.step = None /\ s.status # "absent"
  /\ run' = [run EXCEPT ![r] = s]
  /\ stepLog' = [i \in Step |-> IF i = run[r].step
                                THEN [stepLog[i] EXCEPT !.outcome = outcome]
                                ELSE stepLog[i]]

StepsInductive ==
  /\ DriversHaveRuns /\ OpenCallIsPending /\ PendingIsOpen /\ RestingRunsHaveNoStep
  /\ VerifiersWait

Closed(r, s) ==
  /\ run' \in [Run -> RunState] /\ stepLog' \in [Step -> StepRecord]
  /\ StepsInductive'
  /\ \A q \in Run \ {r} : run'[q] = run[q]
  /\ run'[r] = s
  /\ \A q \in Run : AtVerify(q)' => IF q = r THEN s.node = "verify" ELSE AtVerify(q)

(* The conjuncts about steps survive; a run is at verify only if its new   *)
(* node says so.                                                           *)
LEMMA CloseStep ==
  ASSUME SupervisorAssumption, TypeOK, Inductive, NEW r \in Run, NEW s \in RunState,
         NEW outcome \in Outcome \ {"unused", "started"},
         Closing(r, s, outcome), QuietDrivers
  PROVE  Closed(r, s)
<1>0. /\ s.step = None /\ s.status # "absent"
      /\ run' = [run EXCEPT ![r] = s]
      /\ stepLog' = [i \in Step |-> IF i = run[r].step
                                    THEN [stepLog[i] EXCEPT !.outcome = outcome]
                                    ELSE stepLog[i]]
  BY DEF Closing
<1>1. /\ run' \in [Run -> RunState] /\ run'[r] = s
      /\ \A q \in Run \ {r} : run'[q] = run[q]
  BY <1>0 DEF TypeOK
<1>2. \A i \in Step : /\ stepLog'[i] \in StepRecord
                      /\ stepLog'[i].run = stepLog[i].run
                      /\ stepLog'[i].node = stepLog[i].node
                      /\ IF i = run[r].step THEN stepLog'[i].outcome = outcome
                         ELSE stepLog'[i] = stepLog[i]
  BY <1>0 DEF TypeOK, StepRecord
<1>3. \A q \in Run : run[q].step \in Step \cup {None}
  BY DEF TypeOK, RunState
<1>4. \A q \in Run \ {r} : run[q].step # None => run[q].step # run[r].step
  BY <1>3 DEF Inductive, PendingIsOpen
<1>5. DriversHaveRuns'
  BY DEF Inductive, DriversHaveRuns, QuietDrivers, QuietDriver, At
<1>6. OpenCallIsPending'
  <2> SUFFICES ASSUME NEW i \in Step, stepLog'[i].outcome = "started"
               PROVE  run'[stepLog'[i].run].step = i
    BY DEF OpenCallIsPending
  <2>1. i # run[r].step /\ stepLog[i].outcome = "started"
    BY <1>2
  <2>2. stepLog[i].run \in Run /\ run[stepLog[i].run].step = i
    BY <2>1 DEF Inductive, OpenCallIsPending, PendingIsOpen
  <2> QED BY <1>1, <1>2, <2>1, <2>2
<1>7. PendingIsOpen'
  BY <1>0, <1>1, <1>2, <1>3, <1>4 DEF Inductive, PendingIsOpen
<1>8. RestingRunsHaveNoStep'
  BY <1>0, <1>1 DEF Inductive, RestingRunsHaveNoStep
<1>9. VerifiersWait'
  BY <1>2 DEF Inductive, VerifiersWait, QuietDrivers, QuietDriver, At
<1>10. stepLog' \in [Step -> StepRecord]
  BY <1>0, <1>2
<1>11. \A q \in Run \ {r} : AtVerify(q)' => AtVerify(q)
  BY <1>1, <1>2, <1>3 DEF AtVerify
<1>12. AtVerify(r)' => s.node = "verify"
  BY <1>0, <1>1 DEF AtVerify
<1> QED
  BY <1>1, <1>5, <1>6, <1>7, <1>8, <1>9, <1>10, <1>11, <1>12 DEF Closed, StepsInductive

(* A committed result closes the step its driver owns.                     *)
LEMMA CommitStepCloses ==
  ASSUME SupervisorAssumption, TypeOK, Inductive, NEW t \in Thread, ~At(t, "idle"),
         NEW r \in Run, r = thr[t].run, NEW s \in RunState,
         NEW outcome \in {"completed", "failed"}, CommitStep(t, s, outcome)
  PROVE  /\ Closed(r, AtBoundary(s)) /\ QuietDrivers
         /\ AtBoundary(s).node = s.node /\ AtBoundary(s).candidate = s.candidate
         /\ run[r].step = thr[t].step
         /\ UNCHANGED <<lease, approved, asking, crashed>>
<1> DEFINE x == AtBoundary(s)
<1>1. /\ x \in RunState /\ x.status # "absent" /\ x.node = s.node
      /\ x.candidate = s.candidate /\ x.step = None
  BY AtBoundaryType
<1>2. /\ run[r].step = thr[t].step
      /\ run' = [run EXCEPT ![r] = x]
      /\ stepLog' = [stepLog EXCEPT ![thr[t].step].outcome = outcome]
      /\ UNCHANGED <<lease, approved, asking, crashed>>
      /\ Leave(t) \/ thr' = [thr EXCEPT ![t] = [Idle EXCEPT !.pc = "loop", !.run = r]]
  BY DEF CommitStep, OwnsStep
<1>3. stepLog' = [i \in Step |-> IF i = run[r].step
                                  THEN [stepLog[i] EXCEPT !.outcome = outcome]
                                  ELSE stepLog[i]]
  BY <1>2 DEF TypeOK
<1>4. QuietDrivers
  <2> DEFINE d == [Idle EXCEPT !.pc = "loop", !.run = r]
  <2>1. QuietDriver(d)
    BY DEF QuietDriver, Idle, Driver, Pc
  <2>2. CASE Leave(t)
    BY <2>2, LeaveIsQuiet DEF Inductive
  <2>3. CASE thr' = [thr EXCEPT ![t] = d]
    <3> HIDE DEF d
    <3> QED BY <2>1, <2>3 DEF TypeOK, QuietDrivers, QuietDriver
  <2> QED BY <1>2, <2>2, <2>3
<1>5. outcome \in Outcome \ {"unused", "started"}
  BY DEF Outcome
<1>6. Closing(r, x, outcome)
  BY <1>1, <1>2, <1>3 DEF Closing
<1> HIDE DEF x
<1>7. Closed(r, x)
  BY <1>1, <1>4, <1>5, <1>6, CloseStep
<1> QED BY <1>1, <1>2, <1>4, <1>7 DEF x

(* A human's decision about an interrupted step.                           *)
LEMMA ResolveRecoveryKeeps ==
  ASSUME SupervisorAssumption, TypeOK, Inductive, NEW r \in Run,
         NEW decision \in {"retry", "abort"}, ResolveRecovery(r, decision)
  PROVE  TypeOK' /\ Inductive'
<1> DEFINE closed == [run[r] EXCEPT !.step = None, !.owner = None, !.reason = "none"]
           outcome == IF decision = "retry" THEN "retried" ELSE "aborted"
<1>1. /\ UNCHANGED registry /\ UNCHANGED <<lease, thr, approved, asking, crashed>>
      /\ stepLog' = [i \in Step |-> IF i = run[r].step
                                     THEN [stepLog[i] EXCEPT !.outcome = outcome]
                                     ELSE stepLog[i]]
  BY DEF ResolveRecovery
<1>2. outcome \in Outcome \ {"unused", "started"}
  BY DEF Outcome
<1>3. PICK s \in RunState : /\ run' = [run EXCEPT ![r] = s]
                            /\ s.step = None /\ s.status # "absent"
                            /\ s.node \in {run[r].node, "done"}
                            /\ s.candidate = run[r].candidate
  <2>1. run[r] \in RunState
    BY DEF TypeOK
  <2>2. closed \in RunState /\ closed.node = run[r].node /\ closed.step = None
        /\ closed.candidate = run[r].candidate
    BY <2>1 DEF RunState, Reason
  <2>3. CASE run' = [run EXCEPT ![r] = [closed EXCEPT !.status = "running"]]
    <3> HIDE DEF closed
    <3>1. [closed EXCEPT !.status = "running"] \in RunState
      BY <2>2 DEF RunState, RunStatus
    <3> QED BY <2>2, <2>3, <3>1 DEF RunState
  <2>4. CASE run' = [run EXCEPT ![r] = [closed EXCEPT !.status = "failed", !.node = "done"]]
    <3> HIDE DEF closed
    <3>1. [closed EXCEPT !.status = "failed", !.node = "done"] \in RunState
      BY <2>2, ZenonT(40) DEF RunState, RunStatus, NodeName
    <3> QED BY <2>2, <2>4, <3>1 DEF RunState
  <2> QED BY <2>3, <2>4 DEF ResolveRecovery
<1>4. QuietDrivers
  BY <1>1, StayIsQuiet
<1> HIDE DEF closed, outcome
<1>5. Closed(r, s)
  <2>1. Closing(r, s, outcome)
    BY <1>1, <1>3 DEF Closing
  <2> QED BY <1>2, <1>4, <2>1, CloseStep
<1>6. ver' = ver /\ active' = active /\ history' = history /\ approved' = approved
      /\ thr' = thr
  BY <1>1 DEF registry
<1>7. \A q \in Run : /\ run'[q].candidate = run[q].candidate
                     /\ AtVerify(q)' => AtVerify(q)
                     /\ run'[q].node = "promote" => run[q].node = "promote"
  <2>1. s.node = "verify" => AtVerify(r)
    BY <1>3 DEF AtVerify
  <2> QED BY <1>3, <1>5, <2>1 DEF Closed
<1>8. CandidatesAreOwn' /\ UnverifiedAtVerify' /\ ReleaseGate'
  BY <1>6, <1>7 DEF Inductive, CandidatesAreOwn, UnverifiedAtVerify, ReleaseGate, Exists
<1>9. PromotableIsGated'
  BY <1>6, <1>7 DEF Inductive, PromotableIsGated, Gated, At, Exists
<1>10. TypeOK'
  BY <1>1, <1>5, <1>6 DEF TypeOK, RegistryTypeOK, Closed
<1> QED BY <1>5, <1>8, <1>9, <1>10 DEF Inductive, Closed, StepsInductive

(* A verdict or a new version weakens no gate: it concerns a version       *)
(* without a verdict.                                                      *)
VerdictsKept ==
  \A v \in Version : ver[v].validation # "none" => ver'[v].validation = ver[v].validation

(* Past such a write every gate that was passed still is.                  *)
LEMMA GatesStayOpen ==
  ASSUME TypeOK, Inductive, VerdictsKept, UNCHANGED <<history, approved>>
  PROVE  /\ \A r \in Run, v \in Version : Gated(r, v) => Gated(r, v)'
         /\ ReleaseGate'
<1>1. \A r \in Run, v \in Version : Gated(r, v) => Gated(r, v)'
  BY DEF Gated, VerdictsKept
<1>2. ASSUME NEW c \in Channel, NEW i \in DOMAIN history[c], history[c][i].action = "promote"
      PROVE  Gated(history[c][i].run, history[c][i].version)'
  <2>1. history[c] \in Seq(Row)
    BY DEF TypeOK, RegistryTypeOK
  <2>2. history[c][i] \in Row
    BY <2>1
  <2>3. history[c][i].run \in Run /\ history[c][i].version \in Version
    BY <2>2 DEF Row
  <2>4. Gated(history[c][i].run, history[c][i].version)
    BY <1>2 DEF Inductive, ReleaseGate, Gated
  <2> QED BY <1>1, <2>3, <2>4 DEF Gated
<1> QED BY <1>1, <1>2 DEF ReleaseGate, Gated

(* The drivers that are about to promote are not disturbed by them either. *)
LEMMA PromotersKept ==
  ASSUME TypeOK, Inductive, QuietDrivers,
         \A r \in Run, v \in Version : Gated(r, v) => Gated(r, v)',
         \A v \in Version : Exists(v) => Exists(v)' /\ ver'[v].run = ver[v].run
  PROVE  \A t \in Thread : At(t, "promote")' =>
           /\ Exists(thr[t].held)' /\ ver'[thr'[t].held].run = thr'[t].run
           /\ Gated(thr[t].run, thr[t].held)'
<1> SUFFICES ASSUME NEW t \in Thread, At(t, "promote")'
             PROVE  /\ Exists(thr[t].held)' /\ ver'[thr'[t].held].run = thr'[t].run
                    /\ Gated(thr[t].run, thr[t].held)'
  OBVIOUS
<1>1. thr'[t] = thr[t] /\ At(t, "promote")
  BY DEF QuietDrivers, QuietDriver, At
<1>2. thr[t].run \in Run
  BY <1>1 DEF Inductive, DriversHaveRuns, At
<1>3. /\ Exists(thr[t].held) /\ ver[thr[t].held].run = thr[t].run
      /\ Gated(thr[t].run, thr[t].held)
  BY <1>1 DEF Inductive, PromotableIsGated
<1>4. PICK v \in Version : v = thr[t].held
  BY <1>3 DEF Exists
<1>5. PICK r \in Run : r = thr[t].run
  BY <1>2
<1>6. Exists(v)' /\ ver'[v].run = r /\ Gated(r, v)'
  BY <1>3, <1>4, <1>5
<1> QED BY <1>1, <1>4, <1>5, <1>6 DEF Exists, Gated

(* _execute's result: a fresh version becomes the candidate, unverified.   *)
LEMMA CompleteExecuteKeeps ==
  ASSUME SupervisorAssumption, RegistryAssumption, TypeOK, Inductive,
         NEW t \in Thread, CompleteExecute(t)
  PROVE  TypeOK' /\ Inductive'
<1>1. PICK r \in Run : r = thr[t].run
  BY DEF CompleteExecute, At, Inductive, DriversHaveRuns
<1>2. PICK v \in Version : v = (CHOOSE i \in FreeVersion : TRUE) /\ ~Exists(v)
  BY DEF CompleteExecute, FreeVersion
<1> DEFINE s == [run[r] EXCEPT !.node = "verify", !.candidate = v, !.reason = "none"]
<1>3. ~At(t, "idle") /\ CommitStep(t, s, "completed") /\ InsertVersion(v, r, run[r].base)
  BY <1>1, <1>2, Routes DEF CompleteExecute, At
<1>4. s \in RunState /\ s.node = "verify" /\ s.candidate = v
  <2>1. run[r] \in RunState
    BY DEF TypeOK
  <2> QED BY <2>1 DEF RunState, NodeName, Reason
<1> HIDE DEF s
<1> DEFINE x == AtBoundary(s)
<1>5. /\ Closed(r, x) /\ QuietDrivers /\ x.node = "verify" /\ x.candidate = v
      /\ UNCHANGED <<lease, approved, asking, crashed>>
  BY <1>1, <1>3, <1>4, CommitStepCloses
<1> HIDE DEF x
<1>6. RegistryTypeOK'
  <2>1. run[r].base \in Version \cup {None}
    BY DEF TypeOK, RunState
  <2> QED BY <1>3, <2>1, InsertVersionTypeOK DEF TypeOK
<1>7. /\ ver' = [ver EXCEPT ![v] = [status |-> "candidate", run |-> r,
                                    validation |-> "none", madeOn |-> run[r].base]]
      /\ UNCHANGED <<history, approved>>
  BY <1>3, <1>5 DEF InsertVersion
<1>8. /\ ver'[v].status = "candidate" /\ ver'[v].run = r /\ ver'[v].validation = "none"
      /\ \A w \in Version \ {v} : ver'[w] = ver[w]
      /\ ver[v].validation = "none"
  BY <1>2, <1>7 DEF TypeOK, RegistryTypeOK, Inductive, UnverifiedAtVerify
<1>9. VerdictsKept
  BY <1>8 DEF VerdictsKept
<1>10. ReleaseGate' /\ \A q \in Run, w \in Version : Gated(q, w) => Gated(q, w)'
  BY <1>7, <1>9, GatesStayOpen
<1>11. \A w \in Version : Exists(w) => Exists(w)' /\ ver'[w].run = ver[w].run /\ w # v
  BY <1>2, <1>8 DEF Exists
<1>12. \A q \in Run \ {r} : run'[q] = run[q] /\ (AtVerify(q)' => AtVerify(q))
  BY <1>5 DEF Closed
<1>13. run'[r] = x
  BY <1>5 DEF Closed
<1>14. CandidatesAreOwn'
  BY <1>5, <1>8, <1>11, <1>12, <1>13 DEF Inductive, CandidatesAreOwn, Exists
<1>15. UnverifiedAtVerify'
  <2>1. ASSUME NEW q \in Run, AtVerify(q)'
        PROVE  run'[q].candidate # None /\ ver'[run'[q].candidate].validation = "none"
    <3>1. CASE q = r
      BY <1>5, <1>8, <1>13, <3>1 DEF RegistryAssumption
    <3>2. CASE q # r
      <4>1. run'[q] = run[q] /\ AtVerify(q)
        BY <1>12, <2>1, <3>2
      <4>2. run[q].candidate # None /\ ver[run[q].candidate].validation = "none"
        BY <4>1 DEF Inductive, UnverifiedAtVerify
      <4>3. run[q].candidate \in Version \ {v}
        BY <1>11, <4>2 DEF Inductive, CandidatesAreOwn, Exists
      <4> QED BY <1>8, <4>1, <4>2, <4>3
    <3> QED BY <3>1, <3>2
  <2>2. \A w \in Version : ~Exists(w)' => ver'[w].validation = "none"
    BY <1>8 DEF Inductive, UnverifiedAtVerify, Exists
  <2> QED BY <2>1, <2>2 DEF UnverifiedAtVerify
<1>16. PromotableIsGated'
  <2>1. ASSUME NEW q \in Run, run'[q].node = "promote", run'[q].candidate # None
        PROVE  Gated(q, run[q].candidate)'
    <3>1. q # r /\ run'[q] = run[q]
      BY <1>5, <1>12, <1>13, <2>1
    <3>2. Gated(q, run[q].candidate) /\ run[q].candidate \in Version
      BY <2>1, <3>1 DEF Inductive, PromotableIsGated, CandidatesAreOwn, Exists
    <3> QED BY <1>10, <3>1, <3>2 DEF Gated
  <2>2. \A u \in Thread : At(u, "promote")' =>
          /\ Exists(thr[u].held)' /\ ver'[thr'[u].held].run = thr'[u].run
          /\ Gated(thr[u].run, thr[u].held)'
    BY <1>5, <1>10, <1>11, PromotersKept
  <2> QED BY <2>1, <2>2 DEF PromotableIsGated
<1>17. TypeOK'
  BY <1>5, <1>6 DEF TypeOK, Closed, QuietDrivers
<1> QED BY <1>5, <1>10, <1>14, <1>15, <1>16, <1>17 DEF Inductive, Closed, StepsInductive

(* _verify's result: the verdict is recorded on the run's candidate, which *)
(* had none, and without approval a pass is what promote requires.         *)
LEMMA CompleteVerifyKeeps ==
  ASSUME SupervisorAssumption, TypeOK, Inductive,
         NEW t \in Thread, NEW passed \in BOOLEAN, CompleteVerify(t, passed)
  PROVE  TypeOK' /\ Inductive'
<1>1. PICK r \in Run : r = thr[t].run
  BY DEF CompleteVerify, At, Inductive, DriversHaveRuns
<1> DEFINE next == RouteOf(r).verify.passed
           ok == [run[r] EXCEPT !.node = next,
                    !.reason = IF next = "hitl" THEN "approval_required" ELSE "none"]
<1>2. At(t, "verifying") /\ UpdateVersion(run[r].candidate, passed)
  BY <1>1 DEF CompleteVerify
<1>3. CommitStep(t, IF passed THEN ok ELSE AfterFailure(r, "verify"), "completed")
  BY <1>1 DEF CompleteVerify
<1>4. run[r] \in RunState /\ run \in [Run -> RunState]
  BY DEF TypeOK
<1>5. /\ ok \in RunState /\ ok.node = next /\ ok.candidate = run[r].candidate
      /\ next = IF RequireApproval[r] THEN "hitl" ELSE "promote"
  <2>1. next = IF RequireApproval[r] THEN "hitl" ELSE "promote"
    BY Routes
  <2>2. next \in NodeName
    BY <2>1 DEF NodeName
  <2> HIDE DEF next
  <2> QED BY <1>4, <2>1, <2>2, ZenonT(40) DEF RunState, Reason
<1>6. /\ AfterFailure(r, "verify") \in RunState
      /\ AfterFailure(r, "verify").node \in {"execute", "hitl"}
      /\ AfterFailure(r, "verify").candidate = run[r].candidate
  BY <1>4, AfterFailureType DEF ExternalNode
<1> HIDE DEF next, ok
<1>7. PICK s \in RunState : /\ CommitStep(t, s, "completed")
                            /\ s.candidate = run[r].candidate
                            /\ s.node \in {"execute", "hitl", "promote"}
                            /\ s.node = "promote" => passed /\ ~RequireApproval[r]
  <2>1. CASE passed
    <3>1. CommitStep(t, ok, "completed")
      BY <1>3, <2>1, Zenon
    <3>2. ok.node \in {"execute", "hitl", "promote"}
          /\ (ok.node = "promote" => ~RequireApproval[r])
      BY <1>5
    <3> QED BY <1>5, <2>1, <3>1, <3>2, Zenon
  <2>2. CASE ~passed
    <3>1. CommitStep(t, AfterFailure(r, "verify"), "completed")
      BY <1>3, <2>2, Zenon
    <3>2. /\ AfterFailure(r, "verify").node \in {"execute", "hitl", "promote"}
          /\ AfterFailure(r, "verify").node # "promote"
      BY <1>6
    <3> QED BY <1>6, <3>1, <3>2, Zenon
  <2> QED BY <2>1, <2>2
<1> DEFINE x == AtBoundary(s)
<1>8. /\ Closed(r, x) /\ QuietDrivers /\ x.node = s.node /\ x.candidate = s.candidate
      /\ run[r].step = thr[t].step
      /\ UNCHANGED <<lease, approved, asking, crashed>>
  <2>1. ~At(t, "idle")
    BY <1>2 DEF At
  <2>2. CommitStep(t, s, "completed")
    BY <1>7, Zenon
  <2> QED BY <1>1, <2>1, <2>2, CommitStepCloses
<1> HIDE DEF x
<1>9. PICK v \in Version : v = run[r].candidate /\ ver[v].validation = "none"
                          /\ ver[v].run = r /\ Exists(v) /\ v # None
  <2>1. AtVerify(r)
    <3>1. thr[t].step \in Step /\ stepLog[thr[t].step].node = "verify"
      BY <1>2 DEF Inductive, VerifiersWait
    <3> QED BY <1>8, <3>1 DEF AtVerify, SupervisorAssumption
  <2>2. run[r].candidate # None /\ ver[run[r].candidate].validation = "none"
    BY <2>1 DEF Inductive, UnverifiedAtVerify
  <2> QED BY <2>2 DEF Inductive, CandidatesAreOwn, Exists
<1>10. /\ RegistryTypeOK' /\ UNCHANGED <<history, approved>>
  BY <1>2, <1>8, UpdateVersionTypeOK DEF TypeOK, UpdateVersion
<1>11. PICK status \in {"validated", "rejected"}, validation \in {"passed", "failed"} :
         /\ ver' = [ver EXCEPT ![v].status = status, ![v].validation = validation]
         /\ passed => validation = "passed"
  <2>1. CASE passed BY <1>2, <1>9, <2>1, Zenon DEF UpdateVersion
  <2>2. CASE ~passed BY <1>2, <1>9, <2>2, Zenon DEF UpdateVersion
  <2> QED BY <2>1, <2>2
<1>12. /\ ver'[v].status = status /\ ver'[v].run = r /\ ver'[v].validation = validation
       /\ \A w \in Version \ {v} : ver'[w] = ver[w]
  <2>1. ver[v] \in VersionState
    BY DEF TypeOK, RegistryTypeOK
  <2> QED BY <1>9, <1>11, <2>1 DEF TypeOK, RegistryTypeOK, VersionState
<1>13. VerdictsKept
  BY <1>9, <1>12 DEF VerdictsKept
<1>14. ReleaseGate' /\ \A q \in Run, w \in Version : Gated(q, w) => Gated(q, w)'
  BY <1>10, <1>13, GatesStayOpen
<1>15. \A w \in Version : Exists(w) => Exists(w)' /\ ver'[w].run = ver[w].run
  BY <1>9, <1>12 DEF Exists
<1>16. \A q \in Run \ {r} : run'[q] = run[q] /\ (AtVerify(q)' => AtVerify(q))
  BY <1>8 DEF Closed
<1>17. /\ run'[r].candidate = v /\ run'[r].node = s.node
       /\ \A q \in Run : q = r => ~AtVerify(q)'
  <2>1. run'[r] = x
    BY <1>8 DEF Closed
  <2>2. s.node # "verify" /\ s.candidate = run[r].candidate
    <3>1. s.candidate = run[r].candidate /\ s.node \in {"execute", "hitl", "promote"}
      BY <1>7, Zenon
    <3> QED BY <3>1
  <2>3. ASSUME NEW q \in Run, q = r, AtVerify(q)' PROVE FALSE
    BY <1>8, <2>2, <2>3 DEF Closed
  <2>4. run'[r].candidate = v /\ run'[r].node = s.node
    BY <1>8, <1>9, <2>1, <2>2
  <2> QED BY <2>3, <2>4
<1>18. CandidatesAreOwn'
  <2> SUFFICES ASSUME NEW q \in Run, run'[q].candidate # None
               PROVE  Exists(run[q].candidate)' /\ ver'[run'[q].candidate].run = q
    BY DEF CandidatesAreOwn
  <2>1. CASE q = r
    BY <1>9, <1>12, <1>15, <1>17, <2>1 DEF Exists
  <2>2. CASE q # r
    BY <1>15, <1>16, <2>2 DEF Inductive, CandidatesAreOwn, Exists
  <2> QED BY <2>1, <2>2
<1>19. UnverifiedAtVerify'
  <2>1. ASSUME NEW q \in Run, AtVerify(q)'
        PROVE  run'[q].candidate # None /\ ver'[run'[q].candidate].validation = "none"
    <3>1. q # r /\ run'[q] = run[q] /\ AtVerify(q)
      BY <1>16, <1>17, <2>1
    <3>2. run[q].candidate # None /\ ver[run[q].candidate].validation = "none"
      BY <3>1 DEF Inductive, UnverifiedAtVerify
    <3>3. run[q].candidate \in Version \ {v}
      BY <1>9, <3>1, <3>2 DEF Inductive, CandidatesAreOwn, Exists
    <3> QED BY <1>12, <3>1, <3>2, <3>3
  <2>2. \A w \in Version : ~Exists(w)' => ver'[w].validation = "none"
    BY <1>12 DEF Inductive, UnverifiedAtVerify, Exists
  <2> QED BY <2>1, <2>2 DEF UnverifiedAtVerify
<1>20. PromotableIsGated'
  <2>1. ASSUME NEW q \in Run, run'[q].node = "promote", run'[q].candidate # None
        PROVE  Gated(q, run[q].candidate)'
    <3>1. CASE q = r
      <4>1. passed /\ ~RequireApproval[r]
        <5>1. s.node = "promote"
          BY <1>17, <2>1, <3>1
        <5> QED BY <1>7, <5>1, Zenon
      <4>2. ver'[v].validation = "passed"
        BY <1>11, <1>12, <4>1
      <4> QED BY <1>17, <3>1, <4>1, <4>2 DEF Gated
    <3>2. CASE q # r
      <4>1. run'[q] = run[q]
        BY <1>16, <3>2
      <4>2. Gated(q, run[q].candidate) /\ run[q].candidate \in Version
        BY <2>1, <4>1 DEF Inductive, PromotableIsGated, CandidatesAreOwn, Exists
      <4> QED BY <1>14, <4>1, <4>2 DEF Gated
    <3> QED BY <3>1, <3>2
  <2>2. \A u \in Thread : At(u, "promote")' =>
          /\ Exists(thr[u].held)' /\ ver'[thr'[u].held].run = thr'[u].run
          /\ Gated(thr[u].run, thr[u].held)'
    BY <1>8, <1>14, <1>15, PromotersKept
  <2> QED BY <2>1, <2>2 DEF PromotableIsGated
<1>21. TypeOK'
  BY <1>8, <1>10 DEF TypeOK, Closed, QuietDrivers
<1> QED BY <1>8, <1>14, <1>18, <1>19, <1>20, <1>21 DEF Inductive, Closed, StepsInductive

(* _fail_external_step: the step is closed, the registry untouched.        *)
LEMMA FailExternalStepKeeps ==
  ASSUME SupervisorAssumption, TypeOK, Inductive,
         NEW t \in Thread, FailExternalStep(t)
  PROVE  TypeOK' /\ Inductive'
<1>1. PICK r \in Run : r = thr[t].run
  BY DEF FailExternalStep, At, Inductive, DriversHaveRuns
<1>2. ~At(t, "idle") /\ UNCHANGED registry
  BY DEF FailExternalStep, At
<1>3. PICK node \in ExternalNode : CommitStep(t, AfterFailure(r, node), "failed")
  BY <1>1 DEF FailExternalStep, ExternalNode
<1> DEFINE s == AfterFailure(r, node)
<1>4. s \in RunState /\ s.node \in {"execute", "hitl"} /\ s.candidate = run[r].candidate
  BY AfterFailureType DEF TypeOK
<1> HIDE DEF s
<1> DEFINE x == AtBoundary(s)
<1>5. /\ Closed(r, x) /\ QuietDrivers /\ x.node = s.node /\ x.candidate = s.candidate
      /\ UNCHANGED <<lease, approved, asking, crashed>>
  BY <1>1, <1>2, <1>3, <1>4, CommitStepCloses DEF s
<1> HIDE DEF x
<1>6. ver' = ver /\ active' = active /\ history' = history
  BY <1>2 DEF registry
<1>7. \A q \in Run : /\ run'[q].candidate = run[q].candidate
                     /\ AtVerify(q)' => AtVerify(q)
                     /\ run'[q].node = "promote" => run[q].node = "promote"
  BY <1>4, <1>5 DEF Closed
<1>8. CandidatesAreOwn' /\ UnverifiedAtVerify'
  BY <1>6, <1>7 DEF Inductive, CandidatesAreOwn, UnverifiedAtVerify, Exists
<1>9. ReleaseGate' /\ \A q \in Run, w \in Version : Gated(q, w) => Gated(q, w)'
  BY <1>5, <1>6, GatesStayOpen DEF VerdictsKept
<1>10. PromotableIsGated'
  <2>1. ASSUME NEW q \in Run, run'[q].node = "promote", run'[q].candidate # None
        PROVE  Gated(q, run[q].candidate)'
    BY <1>5, <1>6, <1>7, <2>1 DEF Inductive, PromotableIsGated, Gated
  <2>2. \A u \in Thread : At(u, "promote")' =>
          /\ Exists(thr[u].held)' /\ ver'[thr'[u].held].run = thr'[u].run
          /\ Gated(thr[u].run, thr[u].held)'
    BY <1>5, <1>6, <1>9, PromotersKept DEF Exists
  <2> QED BY <2>1, <2>2 DEF PromotableIsGated
<1>11. TypeOK'
  BY <1>2, <1>5 DEF TypeOK, RegistryTypeOK, registry, Closed, QuietDrivers
<1> QED BY <1>5, <1>8, <1>9, <1>10, <1>11 DEF Inductive, Closed, StepsInductive

------------------------------------------------------------------------------
(* Every step is quiet or one of the nine above.                           *)
LEMMA Steps ==
  ASSUME SupervisorAssumption, RegistryAssumption, TypeOK, Inductive, [Next]_vars
  PROVE  \/ Quiet /\ RestOK'
         \/ \E t \in Thread : \/ PromoteCandidate(t) \/ CommitRollback(t) \/ Dispatch(t)
                              \/ CompleteExecute(t) \/ FailExternalStep(t)
         \/ \E t \in Thread, node \in ExternalNode : BeginExternalStep(t, node)
         \/ \E t \in Thread, passed \in BOOLEAN : CompleteVerify(t, passed)
         \/ \E r \in Run : Approve(r)
         \/ \E r \in Run, decision \in {"retry", "abort"} : ResolveRecovery(r, decision)
<1>1. DriversHaveRuns /\ RestingRunsHaveNoStep
  BY DEF Inductive
<1>2. CASE UNCHANGED vars
  <2>1. QuietDrivers
    BY <1>2, StayIsQuiet DEF vars
  <2> QED BY <1>2, <2>1 DEF vars, registry, Quiet, RunsKept, RestOK, TypeOK
<1>3. ASSUME NEW t \in Thread, Drive(t)
      PROVE  \/ Quiet /\ RestOK'
             \/ \/ PromoteCandidate(t) \/ CommitRollback(t) \/ Dispatch(t)
                \/ CompleteExecute(t) \/ FailExternalStep(t)
             \/ \E node \in ExternalNode : BeginExternalStep(t, node)
             \/ \E passed \in BOOLEAN : CompleteVerify(t, passed)
  BY <1>1, <1>3, QuietDriving, QuietLeasing DEF Drive
<1>4. ASSUME NEW r \in Run, Operate(r)
      PROVE  \/ Quiet /\ RestOK'
             \/ Approve(r)
             \/ \E decision \in {"retry", "abort"} : ResolveRecovery(r, decision)
  <2>1. Nameable(ChannelOf[r]) \subseteq Version
    <3>1. history[ChannelOf[r]] \in Seq(Row)
      BY DEF TypeOK, RegistryTypeOK, RegistryAssumption
    <3>2. \A i \in DOMAIN history[ChannelOf[r]] : history[ChannelOf[r]][i] \in Row
      BY <3>1
    <3>3. Released(ChannelOf[r]) \subseteq Version
      BY <3>2 DEF Released, Row
    <3> QED BY <3>3, Zenon DEF Nameable
  <2> QED BY <1>1, <1>4, <2>1, QuietOperating DEF Operate, Steer
<1>5. ASSUME NEW t \in Thread, Abort(t)
      PROVE  Quiet /\ RestOK'
  BY <1>1, <1>5, QuietDriving
<1> QED
  BY <1>1, <1>2, <1>3, <1>4, <1>5, QuietLeasing DEF Next

(* The inductive invariant: it holds initially and every step keeps it.    *)
LEMMA Initially ==
  ASSUME SupervisorAssumption, RegistryAssumption, Init
  PROVE  TypeOK /\ Inductive
<1>1. RegistryTypeOK
  BY DEF Init, RegistryInit, RegistryTypeOK, VersionState
<1>2. Absent \in RunState /\ Idle \in Driver
  BY DEF Absent, RunState, NodeName, Reason, Idle, Driver, Pc
<1>3. TypeOK
  BY <1>1, <1>2 DEF Init, TypeOK, Lease, StepRecord, Outcome
<1>4. DriversHaveRuns /\ VerifiersWait
  BY DEF Init, Idle, DriversHaveRuns, VerifiersWait, At
<1>5. OpenCallIsPending /\ PendingIsOpen /\ RestingRunsHaveNoStep /\ CandidatesAreOwn
  BY DEF Init, Absent, OpenCallIsPending, PendingIsOpen, RestingRunsHaveNoStep,
         CandidatesAreOwn
<1>6. UnverifiedAtVerify /\ PromotableIsGated /\ ReleaseGate
  BY DEF Init, RegistryInit, Absent, Idle, AtVerify, UnverifiedAtVerify,
         PromotableIsGated, At, ReleaseGate
<1> QED BY <1>3, <1>4, <1>5, <1>6 DEF Inductive

(* Every step keeps the inductive invariant.                               *)
LEMMA Always ==
  ASSUME SupervisorAssumption, RegistryAssumption, TypeOK, Inductive, [Next]_vars
  PROVE  TypeOK' /\ Inductive'
<1>1. CASE Quiet /\ RestOK'
  BY <1>1, QuietTypeOK, QuietInductive
<1> QED
  BY <1>1, Steps, PromoteCandidateKeeps, CommitRollbackKeeps, DispatchKeeps,
     CompleteExecuteKeeps, FailExternalStepKeeps, BeginKeeps, CompleteVerifyKeeps,
     ApproveKeeps, ResolveRecoveryKeeps

(* The inductive invariant holds in every reachable state.                 *)
THEOREM InductiveInvariant == Spec => [](TypeOK /\ Inductive)
<1>1. Init => TypeOK /\ Inductive
  BY Initially, SupervisorAssumption, RegistryAssumption
<1>2. (TypeOK /\ Inductive) /\ [Next]_vars => (TypeOK /\ Inductive)'
  BY Always, SupervisorAssumption, RegistryAssumption
<1> QED BY <1>1, <1>2, PTL DEF Spec

(* Every variable keeps its type: statuses, nodes and routes stay in the   *)
(* graph, and every id a driver holds is one the program made.             *)
THEOREM Types == Spec => []TypeOK
  BY InductiveInvariant, PTL

(* A call that is open in the journal is its run's pending step, under     *)
(* crashes, lapsed leases and interrupted drivers.                         *)
THEOREM OneOpenCall == Spec => []OpenCallIsPending
<1>1. Inductive => OpenCallIsPending
  BY DEF Inductive
<1> QED BY <1>1, InductiveInvariant, PTL

(* A paused run has no call in flight.                                     *)
THEOREM PauseWaits == Spec => []PausedAtBoundary
<1>1. Inductive => PausedAtBoundary
  BY DEF Inductive, RestingRunsHaveNoStep, PausedAtBoundary
<1> QED BY <1>1, InductiveInvariant, PTL

(* Nothing is released that no human approved and no verification passed.  *)
THEOREM Gate == Spec => []ReleaseGate
<1>1. Inductive => ReleaseGate
  BY DEF Inductive
<1> QED BY <1>1, InductiveInvariant, PTL

(* A step's outcome is final: a late result is never taken.                *)
THEOREM LateResultsAreRefused == Spec => OutcomesAreFinal
<1> DEFINE Final == \A i \in Step :
             stepLog[i].outcome \notin {"unused", "started"} => stepLog'[i] = stepLog[i]
<1>1. ASSUME TypeOK, Inductive, [Next]_vars
      PROVE  Final
  <2>1. CASE UNCHANGED stepLog
    BY <2>1
  <2>2. ASSUME NEW t \in Thread, NEW s, NEW outcome, ~At(t, "idle"), CommitStep(t, s, outcome)
        PROVE  Final
    <3>1. /\ thr[t].run \in Run /\ run[thr[t].run].step = thr[t].step
          /\ stepLog' = [stepLog EXCEPT ![thr[t].step].outcome = outcome]
      BY <1>1, <2>2 DEF Inductive, DriversHaveRuns, CommitStep, OwnsStep
    <3>2. thr[t].step # None => stepLog[thr[t].step].outcome = "started"
      BY <1>1, <3>1 DEF Inductive, PendingIsOpen
    <3>3. None \notin Step
      BY SupervisorAssumption DEF SupervisorAssumption
    <3> QED BY <1>1, <3>1, <3>2, <3>3 DEF TypeOK
  <2>3. ASSUME NEW t \in Thread, NEW node \in ExternalNode, BeginExternalStep(t, node)
        PROVE  Final
    <3>1. PICK k \in Step : /\ stepLog[k].outcome = "unused"
                            /\ stepLog' = [stepLog EXCEPT ![k] =
                                 [run |-> thr[t].run, node |-> node, outcome |-> "started"]]
      BY <2>3 DEF BeginExternalStep, UnusedStep
    <3> QED BY <1>1, <3>1 DEF TypeOK
  <2>4. ASSUME NEW r \in Run, NEW decision \in {"retry", "abort"}, ResolveRecovery(r, decision)
        PROVE  Final
    <3>1. run[r].step # None => stepLog[run[r].step].outcome = "started"
      BY <1>1 DEF Inductive, PendingIsOpen
    <3>2. None \notin Step
      BY SupervisorAssumption DEF SupervisorAssumption
    <3>3. \A i \in Step : i # run[r].step => stepLog'[i] = stepLog[i]
      BY <2>4 DEF ResolveRecovery
    <3> QED BY <3>1, <3>2, <3>3
  <2> HIDE DEF Final
  <2>5. ASSUME NEW t \in Thread,
               \/ PromoteCandidate(t) \/ CommitRollback(t) \/ Dispatch(t)
               \/ CompleteExecute(t) \/ FailExternalStep(t)
        PROVE  Final
    BY <2>1, <2>2, <2>5 DEF PromoteCandidate, CommitRollback, Dispatch, CompleteExecute,
         FailExternalStep, At
  <2>6. ASSUME NEW t \in Thread, NEW passed \in BOOLEAN, CompleteVerify(t, passed)
        PROVE  Final
    BY <2>2, <2>6, SMTT(40) DEF CompleteVerify, At
  <2>7. CASE Quiet \/ \E r \in Run : Approve(r)
    BY <2>1, <2>7 DEF Quiet, Approve
  <2> QED
    BY <1>1, <2>3, <2>4, <2>5, <2>6, <2>7, Steps, SupervisorAssumption, RegistryAssumption
<1>2. TypeOK /\ Inductive /\ [Next]_vars =>
        [\A s \in Step :
           stepLog[s].outcome \notin {"unused", "started"} => stepLog'[s] = stepLog[s]]_vars
  BY <1>1
<1> QED BY <1>2, InductiveInvariant, PTL DEF Spec, OutcomesAreFinal

(* Every step keeps the verdicts it finds.                                 *)
LEMMA VerdictsStay ==
  ASSUME SupervisorAssumption, RegistryAssumption, TypeOK, Inductive, [Next]_vars
  PROVE  VerdictsKept
<1>1. CASE UNCHANGED ver
  BY <1>1 DEF VerdictsKept
<1>2. ASSUME NEW c, NEW v, NEW demoted, NEW row, MovePointer(c, v, demoted, row)
      PROVE  VerdictsKept
  <2> SUFFICES ASSUME NEW w \in Version
               PROVE  ver'[w].validation = ver[w].validation
    BY DEF VerdictsKept
  <2>1. ver[w] \in VersionState
    BY DEF TypeOK, RegistryTypeOK
  <2>2. ver'[w] \in {[ver[w] EXCEPT !.status = "active"],
                     [ver[w] EXCEPT !.status = demoted], ver[w]}
    BY <1>2 DEF MovePointer
  <2> QED BY <2>1, <2>2 DEF VersionState
<1>3. ASSUME NEW t \in Thread, CompleteExecute(t)
      PROVE  VerdictsKept
  <2>1. PICK v \in Version : ~Exists(v) /\ InsertVersion(v, thr[t].run, run[thr[t].run].base)
    BY <1>3 DEF CompleteExecute, FreeVersion
  <2>2. ver[v].validation = "none"
    BY <2>1 DEF Inductive, UnverifiedAtVerify
  <2> QED BY <2>1, <2>2 DEF InsertVersion, VerdictsKept, TypeOK, RegistryTypeOK
<1>4. ASSUME NEW t \in Thread, NEW passed \in BOOLEAN, CompleteVerify(t, passed)
      PROVE  VerdictsKept
  <2>1. PICK r \in Run : r = thr[t].run
    BY <1>4, SMTT(40) DEF CompleteVerify, Inductive, DriversHaveRuns, At
  <2>2. run[r].step = thr[t].step /\ thr[t].step \in Step
        /\ stepLog[thr[t].step].node = "verify"
    BY <1>4, <2>1 DEF CompleteVerify, CommitStep, OwnsStep, Inductive, VerifiersWait
  <2>3. AtVerify(r)
    BY <2>2, SupervisorAssumption DEF AtVerify, SupervisorAssumption
  <2>4. ver[run[r].candidate].validation = "none"
    BY <2>3, SMTT(40) DEF Inductive, UnverifiedAtVerify
  <2>5. \A w \in Version : w # run[r].candidate => ver'[w] = ver[w]
    BY <1>4, <2>1, SMTT(40) DEF CompleteVerify, UpdateVersion, TypeOK, RegistryTypeOK
  <2> QED BY <2>4, <2>5 DEF VerdictsKept
<1>5. ASSUME NEW t \in Thread,
             PromoteCandidate(t) \/ CommitRollback(t) \/ Dispatch(t) \/ FailExternalStep(t)
      PROVE  VerdictsKept
  BY <1>1, <1>2, <1>5 DEF PromoteCandidate, Promote, CommitRollback, Rollback, Dispatch,
       FailExternalStep, registry
<1>6. ASSUME NEW t \in Thread, NEW node \in ExternalNode, BeginExternalStep(t, node)
      PROVE  VerdictsKept
  BY <1>1, <1>6, SMTT(40) DEF BeginExternalStep, registry
<1>7. CASE Quiet \/ (\E r \in Run : Approve(r))
            \/ \E r \in Run, decision \in {"retry", "abort"} : ResolveRecovery(r, decision)
  BY <1>1, <1>7 DEF Quiet, Approve, ResolveRecovery, registry
<1> QED
  BY <1>3, <1>4, <1>5, <1>6, <1>7, Steps, SupervisorAssumption, RegistryAssumption

(* A verdict is recorded once.                                             *)
THEOREM VerdictsAreRecordedOnce == Spec => VerdictsAreFinal
<1>1. TypeOK /\ Inductive /\ [Next]_vars =>
        [\A v \in Version :
           ver[v].validation # "none" => ver'[v].validation = ver[v].validation]_vars
  BY VerdictsStay, SupervisorAssumption, RegistryAssumption DEF VerdictsKept
<1> QED BY <1>1, InductiveInvariant, PTL DEF Spec, VerdictsAreFinal

------------------------------------------------------------------------------
(* The supervisor implements the release registry: whatever the drivers    *)
(* and operators do, the registry sees a sequence of its own writes.       *)
THEOREM Implements == Spec => RegistrySpec
<1>1. Init => RegistryInit
  BY DEF Init
<1>2. ASSUME TypeOK, Inductive, [Next]_vars
      PROVE  [RegistryNext]_registry
  <2>1. CASE Quiet
    BY <2>1 DEF Quiet
  <2>2. ASSUME NEW t \in Thread, PromoteCandidate(t)
        PROVE  RegistryNext
    <3>1. /\ Promote(thr[t].run, thr[t].held, run[thr[t].run].base) /\ thr[t].run \in Run
          /\ ver[thr[t].held].run = thr[t].run /\ Exists(thr[t].held)
      BY <1>2, <2>2 DEF PromoteCandidate, Inductive, DriversHaveRuns, PromotableIsGated, At
    <3>2. thr[t].held \in Version /\ run[thr[t].run].base \in Version \cup {None}
      BY <1>2, <3>1 DEF Exists, TypeOK, RunState
    <3> QED BY <3>1, <3>2, SMTT(40) DEF RegistryNext
  <2>3. ASSUME NEW t \in Thread, CommitRollback(t)
        PROVE  RegistryNext
    <3>1. Rollback(thr[t].run, thr[t].held, thr[t].from) /\ thr[t].run \in Run
      BY <1>2, <2>3 DEF CommitRollback, Inductive, DriversHaveRuns, At
    <3>2. thr[t].held \in Version /\ thr[t].from \in Version \cup {None}
      BY <1>2, <3>1 DEF Rollback, RollbackAccepted, Exists, TypeOK, Driver
    <3> QED BY <3>1, <3>2, SMTT(40) DEF RegistryNext
  <2>4. ASSUME NEW t \in Thread, CompleteExecute(t)
        PROVE  RegistryNext
    <3>1. thr[t].run \in Run
      BY <1>2, <2>4 DEF CompleteExecute, Inductive, DriversHaveRuns, At
    <3>2. PICK v \in Version : ~Exists(v) /\ InsertVersion(v, thr[t].run, run[thr[t].run].base)
      BY <2>4 DEF CompleteExecute, FreeVersion
    <3>3. run[thr[t].run].base \in Version \cup {None}
      BY <1>2, <3>1 DEF TypeOK, RunState
    <3> QED BY <3>1, <3>2, <3>3 DEF RegistryNext
  <2>5. ASSUME NEW t \in Thread, NEW passed \in BOOLEAN, CompleteVerify(t, passed)
        PROVE  RegistryNext
    <3>1. PICK r \in Run : r = thr[t].run
      BY <1>2, <2>5 DEF CompleteVerify, Inductive, DriversHaveRuns, At
    <3>2. run[r].step = thr[t].step /\ thr[t].step \in Step
          /\ stepLog[thr[t].step].node = "verify"
      BY <1>2, <2>5, <3>1 DEF CompleteVerify, CommitStep, OwnsStep, Inductive, VerifiersWait
    <3>3. AtVerify(r)
      BY <3>2, SupervisorAssumption DEF AtVerify, SupervisorAssumption
    <3>4. Exists(run[r].candidate) /\ run[r].candidate \in Version
      BY <1>2, <3>3 DEF Inductive, UnverifiedAtVerify, CandidatesAreOwn, Exists
    <3>5. UpdateVersion(run[r].candidate, passed)
      BY <2>5, <3>1 DEF CompleteVerify
    <3> QED BY <3>4, <3>5 DEF RegistryNext
  <2>6. ASSUME NEW t \in Thread, Dispatch(t) \/ FailExternalStep(t)
        PROVE  UNCHANGED registry
    BY <2>6 DEF Dispatch, FailExternalStep
  <2>7. ASSUME NEW t \in Thread, NEW node \in ExternalNode, BeginExternalStep(t, node)
        PROVE  UNCHANGED registry
    BY <2>7 DEF BeginExternalStep
  <2>8. ASSUME NEW r \in Run, Approve(r)
        PROVE  UNCHANGED registry
    BY <2>8 DEF Approve
  <2>9. ASSUME NEW r \in Run, NEW decision \in {"retry", "abort"}, ResolveRecovery(r, decision)
        PROVE  UNCHANGED registry
    BY <2>9 DEF ResolveRecovery
  <2> QED
    BY <1>2, <2>1, <2>2, <2>3, <2>4, <2>5, <2>6, <2>7, <2>8, <2>9, Steps,
       SupervisorAssumption, RegistryAssumption
<1>3. TypeOK /\ Inductive /\ [Next]_vars => [RegistryNext]_registry
  BY <1>2
<1> QED BY <1>1, <1>3, InductiveInvariant, PTL DEF Spec, RegistrySpec

(* So it inherits the registry's theorem: release history is an unbroken   *)
(* chain.                                                                  *)
THEOREM ReleaseHistory == Spec => []HistoryChain
  BY Implements, RegistryHistory, PTL

==============================================================================
