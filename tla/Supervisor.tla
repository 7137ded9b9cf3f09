----------------------------- MODULE Supervisor -----------------------------
(***************************************************************************)
(* supervisor.py over storage.py: threads that drive runs through the      *)
(* graph, the operators (CLI, REST, dashboard) that steer them, and the    *)
(* SQLite transactions both go through.                                    *)
(*                                                                         *)
(* Every SQLiteRepository.apply is one BEGIN IMMEDIATE transaction, so one *)
(* action; a thread's "pc" is the place between two transactions or reads, *)
(* and what it read before a transaction and uses inside it is kept in its *)
(* record.  A call that raises takes the action Raise: drive's "finally"   *)
(* then releases the lease.                                                *)
(***************************************************************************)
EXTENDS LoopGraph, ReleaseRegistry

CONSTANTS
  Thread,          \* callers of drive()
  Worker,          \* worker ids; a restarted process has a new one
  WorkerOf,        \* the worker id of the supervisor a thread uses
  Step,            \* step ids new_id("step") can return; finite for TLC
  RequireApproval, \* RunConfig.require_approval of each run
  MaxIterations,   \* RunConfig.max_iterations of each run
  Faults,          \* what may go wrong: see Crash, Abort and LeaseLapse
  Commands,        \* the commands operators give: see Operate
  AnyTarget,       \* whether operators name versions their channel never
                   \* released as rollback targets, which nothing forbids
  IterationCap,    \* bound: a human revises while the iteration is below it
  MaxHistory       \* bound: a human asks for rollback while the channel's
                   \* history is shorter

ASSUME SupervisorAssumption ==
  /\ WorkerOf \in [Thread -> Worker]
  /\ RequireApproval \in [Run -> BOOLEAN]
  /\ MaxIterations \in [Run -> Nat \ {0}]
  /\ None \notin Step \cup Worker
  /\ Faults \subseteq {"crash", "abort", "interrupt", "lapse", "unserved"}
  /\ Commands \subseteq {"pause", "decide", "rollback", "cancel"}
  /\ AnyTarget \in BOOLEAN
  /\ IterationCap \in Nat
  /\ MaxHistory \in Nat

VARIABLES
  run,      \* runs.state_json: the RunState of each run
  lease,    \* runs.lease_owner, and whether runs.lease_until has passed
  thr,      \* the drivers: where each is, and what it has read
  stepLog,  \* what the journal says of each step id
  approved, \* versions some hitl.resolved event approved
  asking,   \* the rollback target request_rollback has read for a run
  crashed   \* workers whose process has died

vars == <<registry, run, lease, thr, stepLog, approved, asking, crashed>>

Reason == {"none", "approval_required", "exhausted", "promotion_conflict", "interrupted"}

RunState ==
  [status: RunStatus \cup {"absent"}, node: NodeName, iteration: Nat,
   base: Version \cup {None}, candidate: Version \cup {None},
   step: Step \cup {None}, owner: Worker \cup {None}, reason: Reason,
   pause: BOOLEAN, target: Version \cup {None}]

Lease == [owner: Worker \cup {None}, expired: BOOLEAN]

(* Where a driver is: the next thing drive() does.                         *)
Pc == {"idle", "restore", "recover", "loop", "pause", "execute", "executing",
       "verify", "verifying", "hitl", "promote", "conflict", "rollback_target",
       "rollback_from", "rollback_commit", "release"}

Driver == [pc: Pc, run: Run \cup {None}, step: Step \cup {None},
           held: Version \cup {None}, from: Version \cup {None}]

(* The last event that names the step: "started" while its call is open.   *)
Outcome == {"unused", "started", "completed", "failed", "retried", "aborted"}

StepRecord == [run: Run \cup {None}, node: ExternalNode \cup {"none"}, outcome: Outcome]

TypeOK ==
  /\ RegistryTypeOK
  /\ run \in [Run -> RunState]
  /\ lease \in [Run -> Lease]
  /\ thr \in [Thread -> Driver]
  /\ stepLog \in [Step -> StepRecord]
  /\ approved \subseteq Version
  /\ asking \in [Run -> Version \cup {None}]
  /\ crashed \subseteq Worker

Idle == [pc |-> "idle", run |-> None, step |-> None, held |-> None, from |-> None]

Absent ==
  [status |-> "absent", node |-> "execute", iteration |-> 1, base |-> None,
   candidate |-> None, step |-> None, owner |-> None, reason |-> "none",
   pause |-> FALSE, target |-> None]

Init ==
  /\ RegistryInit
  /\ run = [r \in Run |-> Absent]
  /\ lease = [r \in Run |-> [owner |-> None, expired |-> FALSE]]
  /\ thr = [t \in Thread |-> Idle]
  /\ stepLog = [s \in Step |-> [run |-> None, node |-> "none", outcome |-> "unused"]]
  /\ approved = {}
  /\ asking = [r \in Run |-> None]
  /\ crashed = {}

Created(r) == run[r].status # "absent"
RouteOf(r) == Graph(RequireApproval[r])
At(t, pc) == thr[t].pc = pc
Goto(t, pc) == thr' = [thr EXCEPT ![t].pc = pc]
Leave(t) == thr' = [thr EXCEPT ![t] = [Idle EXCEPT !.pc = "release", !.run = thr[t].run]]

UnusedStep == {s \in Step : stepLog[s].outcome = "unused"}
FreeVersion == {v \in Version : ~Exists(v)}

------------------------------------------------------------------------------
(* The beginning of drive(): the lease, the journal check, the test for a  *)
(* step another worker left open.                                          *)

(* Mutated forms of LeaseGranted: no lease at all; a lease that never      *)
(* expires.                                                                *)
LeaseIgnored(r, w) == TRUE
LeaseForever(r, w) == lease[r].owner \in {None, w}

(* acquire_lease: free, expired, or already this worker's, which makes the *)
(* lease re-entrant for the threads of one supervisor.                     *)
LeaseGranted(r, w) == lease[r].owner \in {None, w} \/ lease[r].expired

Acquire(t, r) ==
  /\ At(t, "idle") /\ WorkerOf[t] \notin crashed
  /\ Created(r)
  /\ LeaseGranted(r, WorkerOf[t])
  /\ lease' = [lease EXCEPT ![r] = [owner |-> WorkerOf[t], expired |-> FALSE]]
  /\ thr' = [thr EXCEPT ![t] = [Idle EXCEPT !.pc = "restore", !.run = r]]
  /\ UNCHANGED <<registry, run, stepLog, approved, asking, crashed>>

(* Mutated form of Orphaned: a step another worker left open is taken for  *)
(* this worker's own.                                                      *)
OrphanIgnored(t, r) == FALSE

(* An open step that this supervisor did not start.                        *)
Orphaned(t, r) == run[r].step # None /\ run[r].owner # WorkerOf[t]

(* restore_run rewrites the projection with the checkpoint of the newest   *)
(* event, which the same transaction wrote: the state it returns is run[r].*)
Restore(t) ==
  /\ At(t, "restore")
  /\ Goto(t, IF Orphaned(t, thr[t].run) THEN "recover" ELSE "loop")
  /\ UNCHANGED <<registry, run, lease, stepLog, approved, asking, crashed>>

MarkRecoveryRequired(t) ==
  LET r == thr[t].run IN
  /\ At(t, "recover") /\ run[r].step # None
  /\ run' = [run EXCEPT ![r].status = "recovery_required", ![r].reason = "interrupted"]
  /\ Leave(t)
  /\ UNCHANGED <<registry, lease, stepLog, approved, asking, crashed>>

(* One turn of drive's loop: read the state and choose, by what it says,   *)
(* the transaction to run next.  What the transaction needs of the state   *)
(* read here is kept: the candidate whose artifact the verifier gets, the  *)
(* candidate to promote, the rollback target.                              *)
Stops(s) == s.status # "running"

(* Mutated form of PausesFirst: only completed steps look for a pause.     *)
PauseForgotten(s) == FALSE

PausesFirst(s) == s.pause /\ s.step = None

Dispatch(t) ==
  LET s == run[thr[t].run] IN
  /\ At(t, "loop")
  /\ \/ Stops(s) /\ Leave(t)
     \/ ~Stops(s) /\ PausesFirst(s) /\ Goto(t, "pause")
     \/ /\ ~Stops(s) /\ ~PausesFirst(s)
        /\ \/ s.node \in {"execute", "hitl"} /\ Goto(t, s.node)
           \/ /\ s.node \in {"verify", "promote"} /\ s.candidate # None
              /\ thr' = [thr EXCEPT ![t].pc = s.node, ![t].held = s.candidate]
           \/ /\ s.node = "rollback"
              /\ thr' = [thr EXCEPT ![t].pc = "rollback_target", ![t].held = s.target]
  /\ UNCHANGED <<registry, run, lease, stepLog, approved, asking, crashed>>

(* _pause_at_boundary checks the open step again, but not the status.      *)
PauseAtBoundary(t) ==
  LET r == thr[t].run IN
  /\ At(t, "pause") /\ run[r].step = None
  /\ run' = [run EXCEPT ![r].status = "paused", ![r].pause = FALSE]
  /\ Leave(t)
  /\ UNCHANGED <<registry, lease, stepLog, approved, asking, crashed>>

------------------------------------------------------------------------------
(* The execute and verify nodes: a transaction that opens a step, the call *)
(* outside the database, a transaction that commits its result.            *)

(* Mutated form of MayBegin: the guard on the open step left out.          *)
MayBeginTwice(r, node) == run[r].status = "running" /\ run[r].node = node

MayBegin(r, node) ==
  /\ run[r].status = "running" /\ run[r].node = node
  /\ run[r].step = None

BeginExternalStep(t, node) ==
  LET r == thr[t].run
      s == CHOOSE i \in UnusedStep : TRUE IN
  /\ At(t, node) /\ MayBegin(r, node)
  /\ UnusedStep # {}
  /\ run' = [run EXCEPT ![r].step = s, ![r].owner = WorkerOf[t]]
  /\ stepLog' = [stepLog EXCEPT ![s] = [run |-> r, node |-> node, outcome |-> "started"]]
  /\ thr' = [thr EXCEPT ![t].step = s,
               ![t].pc = IF node = "execute" THEN "executing" ELSE "verifying"]
  /\ UNCHANGED <<registry, lease, approved, asking, crashed>>

(* Mutated form of OwnsStep: a late result is taken whatever became of its *)
(* step.                                                                   *)
OwnsAnyStep(t) == TRUE

(* _assert_pending_owner                                                   *)
OwnsStep(t) ==
  LET s == run[thr[t].run] IN s.step = thr[t].step /\ s.owner = WorkerOf[t]

(* _status_after_boundary and what every completed step resets.            *)
AtBoundary(s) ==
  [s EXCEPT !.status = IF s.pause THEN "paused" ELSE "running",
            !.pause = FALSE, !.step = None, !.owner = None]

(* The state after a failed call or verification: another iteration, or    *)
(* the human when max_iterations are used up.                              *)
AfterFailure(r, node) ==
  IF run[r].iteration < MaxIterations[r]
  THEN [run[r] EXCEPT !.node = RouteOf(r)[node].retry,
                      !.iteration = @ + 1, !.reason = "none"]
  ELSE [run[r] EXCEPT !.node = RouteOf(r)[node].exhausted, !.reason = "exhausted"]

(* The transaction that ends a step, and the loop's next turn: it goes on  *)
(* while the run is running and max_steps is not reached.                  *)
CommitStep(t, s, outcome) ==
  LET r == thr[t].run
      after == AtBoundary(s) IN
  /\ OwnsStep(t)
  /\ run' = [run EXCEPT ![r] = after]
  /\ stepLog' = [stepLog EXCEPT ![thr[t].step].outcome = outcome]
  /\ \/ Leave(t)
     \/ after.status = "running"
        /\ thr' = [thr EXCEPT ![t] = [Idle EXCEPT !.pc = "loop", !.run = r]]
  /\ UNCHANGED <<lease, approved, asking, crashed>>

(* The request named the base of the state that opened the step.  While    *)
(* the step is open only a driver whose lease has lapsed can move it.      *)
CompleteExecute(t) ==
  LET r == thr[t].run
      v == CHOOSE i \in FreeVersion : TRUE IN
  /\ At(t, "executing") /\ FreeVersion # {}
  /\ CommitStep(t, [run[r] EXCEPT !.node = RouteOf(r).execute.completed,
                                  !.candidate = v, !.reason = "none"], "completed")
  /\ InsertVersion(v, r, run[r].base)

CompleteVerify(t, passed) ==
  LET r == thr[t].run
      next == RouteOf(r).verify.passed IN
  /\ At(t, "verifying")
  /\ CommitStep(t,
       IF passed
       THEN [run[r] EXCEPT !.node = next,
                           !.reason = IF next = "hitl" THEN "approval_required" ELSE "none"]
       ELSE AfterFailure(r, "verify"),
       "completed")
  /\ UpdateVersion(run[r].candidate, passed)

(* _fail_external_step: the call raised.                                   *)
FailExternalStep(t) ==
  /\ \/ At(t, "executing") /\ CommitStep(t, AfterFailure(thr[t].run, "execute"), "failed")
     \/ At(t, "verifying") /\ CommitStep(t, AfterFailure(thr[t].run, "verify"), "failed")
  /\ UNCHANGED registry

------------------------------------------------------------------------------
(* The hitl, promote and rollback nodes.                                   *)

RequestHuman(t) ==
  LET r == thr[t].run IN
  /\ At(t, "hitl")
  /\ run[r].status = "running" /\ run[r].node = "hitl"
  /\ run' = [run EXCEPT ![r].status = "awaiting_human",
               ![r].reason = IF @ = "none" THEN "approval_required" ELSE @]
  /\ Leave(t)
  /\ UNCHANGED <<registry, lease, stepLog, approved, asking, crashed>>

(* Mutated form of PromoteCandidate: the pointer is moved without the      *)
(* compare, and the version put up as it was when the run was read.        *)
PromoteUncompared(t) ==
  LET r == thr[t].run
      v == thr[t].held IN
  /\ At(t, "promote") /\ Exists(v)
  /\ MovePointer(ChannelOf[r], v, "superseded",
                 PromotionRow(ChannelOf[r], v, run[r].base, r))
  /\ run' = [run EXCEPT ![r].status = "succeeded", ![r].node = "done",
                        ![r].base = v, ![r].reason = "none"]
  /\ Leave(t)
  /\ UNCHANGED <<lease, stepLog, approved, asking, crashed>>

(* _promote when the compare-and-swap holds.  The transform does not look  *)
(* at the status, the node or the open step of the run it finds.           *)
PromoteCandidate(t) ==
  LET r == thr[t].run
      v == thr[t].held IN
  /\ At(t, "promote")
  /\ Promote(r, v, run[r].base)
  /\ run' = [run EXCEPT ![r].status = "succeeded",
                        ![r].node = RouteOf(r).promote.promoted,
                        ![r].base = v, ![r].reason = "none"]
  /\ Leave(t)
  /\ UNCHANGED <<lease, stepLog, approved, asking, crashed>>

(* The transaction raised PromotionConflict and left nothing behind.       *)
PromotionConflict(t) ==
  LET r == thr[t].run IN
  /\ At(t, "promote") /\ ~CasHolds(ChannelOf[r], run[r].base)
  /\ Goto(t, "conflict")
  /\ UNCHANGED <<registry, run, lease, stepLog, approved, asking, crashed>>

(* record_conflict, a transaction of its own: again no look at the status. *)
RecordConflict(t) ==
  LET r == thr[t].run IN
  /\ At(t, "conflict")
  /\ run' = [run EXCEPT ![r].status = "awaiting_human",
                        ![r].node = RouteOf(r).promote.conflict,
                        ![r].reason = "promotion_conflict"]
  /\ Leave(t)
  /\ UNCHANGED <<registry, lease, stepLog, approved, asking, crashed>>

(* _rollback's target: the run's own, or previous_channel_version.         *)
RollbackTarget(t) ==
  IF thr[t].held # None THEN thr[t].held ELSE PreviousVersion(ChannelOf[thr[t].run])

ReadRollbackTarget(t) ==
  /\ At(t, "rollback_target") /\ RollbackTarget(t) # None
  /\ thr' = [thr EXCEPT ![t].pc = "rollback_from", ![t].held = RollbackTarget(t)]
  /\ UNCHANGED <<registry, run, lease, stepLog, approved, asking, crashed>>

(* _rollback reads the version its event will call "from".                 *)
ReadRollbackFrom(t) ==
  /\ At(t, "rollback_from")
  /\ thr' = [thr EXCEPT ![t].pc = "rollback_commit",
                        ![t].from = active[ChannelOf[thr[t].run]]]
  /\ UNCHANGED <<registry, run, lease, stepLog, approved, asking, crashed>>

(* Mutated form of CommitRollback: the pointer is moved to a target that   *)
(* need not exist.                                                         *)
CommitRollbackAnyway(t) ==
  LET r == thr[t].run
      c == ChannelOf[r] IN
  /\ At(t, "rollback_commit")
  /\ MovePointer(c, thr[t].held, "rolled_back",
       [action |-> "rollback", version |-> thr[t].held, previous |-> active[c],
        run |-> r, reported |-> thr[t].from])
  /\ run' = [run EXCEPT ![r].status = "rolled_back", ![r].node = "done",
                        ![r].base = thr[t].held, ![r].target = thr[t].held,
                        ![r].reason = "none"]
  /\ Leave(t)
  /\ UNCHANGED <<lease, stepLog, approved, asking, crashed>>

CommitRollback(t) ==
  LET r == thr[t].run IN
  /\ At(t, "rollback_commit")
  /\ Rollback(r, thr[t].held, thr[t].from)
  /\ run' = [run EXCEPT ![r].status = "rolled_back",
                        ![r].node = RouteOf(r).rollback.rolled_back,
                        ![r].base = thr[t].held, ![r].target = thr[t].held,
                        ![r].reason = "none"]
  /\ Leave(t)
  /\ UNCHANGED <<lease, stepLog, approved, asking, crashed>>

------------------------------------------------------------------------------
(* The end of drive(), and what may go wrong on the way.                   *)

(* The refusals: StorageError and InvalidTransition, by place.  Nothing is *)
(* written, and the exception leaves drive() through its "finally".        *)
Refused(t) ==
  LET r == thr[t].run
      s == run[r] IN
  \/ At(t, "recover") /\ s.step = None
  \/ /\ At(t, "loop") /\ ~Stops(s) /\ ~PausesFirst(s)
     /\ \/ s.node \in {"verify", "promote"} /\ s.candidate = None
        \/ s.node = "done"
  \/ At(t, "pause") /\ s.step # None
  \/ thr[t].pc \in ExternalNode /\ ~MayBegin(r, thr[t].pc)
  \/ thr[t].pc \in {"executing", "verifying"} /\ ~OwnsStep(t)
  \/ At(t, "hitl") /\ ~(s.status = "running" /\ s.node = "hitl")
  \/ At(t, "rollback_target") /\ RollbackTarget(t) = None
  \/ At(t, "rollback_commit") /\ ~RollbackAccepted(ChannelOf[r], thr[t].held)

Raise(t) ==
  /\ Refused(t)
  /\ Leave(t)
  /\ UNCHANGED <<registry, run, lease, stepLog, approved, asking, crashed>>

(* release_lease gives the lease back if the worker still has it: also the *)
(* one that another thread of the same supervisor is driving under.        *)
Release(t) ==
  LET r == thr[t].run IN
  /\ At(t, "release")
  /\ lease' = IF lease[r].owner = WorkerOf[t]
              THEN [lease EXCEPT ![r] = [owner |-> None, expired |-> FALSE]]
              ELSE lease
  /\ thr' = [thr EXCEPT ![t] = Idle]
  /\ UNCHANGED <<registry, run, stepLog, approved, asking, crashed>>

(* _LeaseHeartbeat: extend_lease does not ask whether the lease expired.   *)
Heartbeat(t) ==
  LET r == thr[t].run IN
  /\ ~At(t, "idle")
  /\ lease[r] = [owner |-> WorkerOf[t], expired |-> TRUE]
  /\ lease' = [lease EXCEPT ![r].expired = FALSE]
  /\ UNCHANGED <<registry, run, thr, stepLog, approved, asking, crashed>>

(* lease_until passes.  A heartbeat prevents it while its thread drives,   *)
(* unless the process is suspended for longer than the ttl ("lapse").      *)
LeaseLapse(r) ==
  /\ lease[r].owner # None /\ ~lease[r].expired
  /\ \/ "lapse" \in Faults
     \/ \A t \in Thread : thr[t].run = r => WorkerOf[t] # lease[r].owner
  /\ lease' = [lease EXCEPT ![r].expired = TRUE]
  /\ UNCHANGED <<registry, run, thr, stepLog, approved, asking, crashed>>

(* A worker's process dies: its drivers are gone, what they committed and  *)
(* their leases stay.  Bound: one worker is left to start again with.      *)
Crash(w) ==
  /\ "crash" \in Faults
  /\ w \notin crashed /\ crashed \cup {w} # Worker
  /\ crashed' = crashed \cup {w}
  /\ thr' = [t \in Thread |-> IF WorkerOf[t] = w THEN Idle ELSE thr[t]]
  /\ UNCHANGED <<registry, run, lease, stepLog, approved, asking>>

(* A driver is interrupted by what "except Exception" does not catch, or   *)
(* by an error of SQLite or of the journal check: its supervisor lives on. *)
(* "interrupt" is the case of a call or the commit of its result.  In      *)
(* "unserved" the supervisor has no adapter or verifier of the name the    *)
(* run asks for, which it finds out before it opens the step.              *)
Abort(t) ==
  /\ \/ "abort" \in Faults /\ thr[t].pc \notin {"idle", "release"}
     \/ "interrupt" \in Faults /\ thr[t].pc \in {"executing", "verifying"}
     \/ "unserved" \in Faults /\ thr[t].pc \in ExternalNode
  /\ Leave(t)
  /\ UNCHANGED <<registry, run, lease, stepLog, approved, asking, crashed>>

------------------------------------------------------------------------------
(* The operators: one transaction each, at any time.                       *)

(* create_run reads the channel before it inserts the row.  Nobody knows   *)
(* the new id in between, so the two are one step.                         *)
CreateRun(r) ==
  /\ ~Created(r)
  /\ run' = [run EXCEPT ![r] = [Absent EXCEPT !.status = "running",
                                              !.base = active[ChannelOf[r]]]]
  /\ UNCHANGED <<registry, lease, thr, stepLog, approved, asking, crashed>>

(* Mutated form of Pause: the pause takes effect inside an open step.      *)
PauseAtOnce(r) ==
  /\ run[r].status = "running"
  /\ run' = [run EXCEPT ![r].status = "paused"]
  /\ UNCHANGED <<registry, lease, thr, stepLog, approved, asking, crashed>>

Pause(r) ==
  /\ run[r].status = "running"
  /\ run' = IF run[r].step # None
            THEN [run EXCEPT ![r].pause = TRUE]
            ELSE [run EXCEPT ![r].status = "paused", ![r].pause = FALSE]
  /\ UNCHANGED <<registry, lease, thr, stepLog, approved, asking, crashed>>

Resume(r) ==
  /\ run[r].status = "paused"
  /\ run' = [run EXCEPT ![r].status = "running", ![r].pause = FALSE]
  /\ UNCHANGED <<registry, lease, thr, stepLog, approved, asking, crashed>>

(* decide() on a run that awaits a human.  The decision and the state it   *)
(* leads to commit together, whatever the reason the human was asked for.  *)
Awaiting(r) == run[r].status = "awaiting_human"

Approve(r) ==
  /\ Awaiting(r)
  /\ run' = [run EXCEPT ![r].status = "running", ![r].node = RouteOf(r).hitl.approve,
                        ![r].reason = "none"]
  /\ approved' = approved \cup ({run[r].candidate} \ {None})
  /\ UNCHANGED <<registry, lease, thr, stepLog, asking, crashed>>

(* Mutated form of Revise: after a promotion conflict the same candidate   *)
(* is put up again, over the new base.                                     *)
ReviseBaseOnly(r) ==
  LET conflict == run[r].reason = "promotion_conflict" IN
  /\ Awaiting(r) /\ run[r].iteration < IterationCap
  /\ run' = [run EXCEPT ![r].status = "running", ![r].iteration = @ + 1,
               ![r].node = IF conflict THEN "promote" ELSE RouteOf(r).hitl.revise,
               ![r].reason = "none",
               ![r].base = IF conflict THEN active[ChannelOf[r]] ELSE @]
  /\ UNCHANGED <<registry, lease, thr, stepLog, approved, asking, crashed>>

(* Only after a promotion conflict is the run based anew.                  *)
Revise(r) ==
  /\ Awaiting(r) /\ run[r].iteration < IterationCap
  /\ run' = [run EXCEPT ![r].status = "running", ![r].node = RouteOf(r).hitl.revise,
               ![r].iteration = @ + 1, ![r].reason = "none",
               ![r].base = IF run[r].reason = "promotion_conflict"
                           THEN active[ChannelOf[r]] ELSE @]
  /\ UNCHANGED <<registry, lease, thr, stepLog, approved, asking, crashed>>

Reject(r) ==
  /\ Awaiting(r)
  /\ run' = [run EXCEPT ![r].status = "failed", ![r].node = "done", ![r].reason = "none"]
  /\ UNCHANGED <<registry, lease, thr, stepLog, approved, asking, crashed>>

Nameable(c) == IF AnyTarget THEN Version ELSE Released(c)

DecideRollback(r, target) ==
  /\ Awaiting(r) /\ Len(history[ChannelOf[r]]) < MaxHistory
  /\ run' = [run EXCEPT ![r].status = "running", ![r].node = RouteOf(r).hitl.rollback,
                        ![r].reason = "none", ![r].target = target]
  /\ UNCHANGED <<registry, lease, thr, stepLog, approved, asking, crashed>>

(* Mutated form of ResolveRecovery: the retry keeps the interrupted step's *)
(* id, so that its late result would still be taken.                       *)
RetrySameStep(r, decision) ==
  /\ run[r].status = "recovery_required"
  /\ run' = [run EXCEPT ![r].status = IF decision = "retry" THEN "running" ELSE "failed",
                        ![r].reason = "none"]
  /\ stepLog' = [stepLog EXCEPT ![run[r].step].outcome = "retried"]
  /\ UNCHANGED <<registry, lease, thr, approved, asking, crashed>>

(* _resolve_recovery: the human says what became of the interrupted step.  *)
(* recovery.resolved names whatever step is open, which may be none.       *)
ResolveRecovery(r, decision) ==
  LET closed == [run[r] EXCEPT !.step = None, !.owner = None, !.reason = "none"] IN
  /\ run[r].status = "recovery_required"
  /\ \/ /\ decision = "retry"
        /\ run' = [run EXCEPT ![r] = [closed EXCEPT !.status = "running"]]
     \/ /\ decision = "abort"
        /\ run' = [run EXCEPT ![r] = [closed EXCEPT !.status = "failed", !.node = "done"]]
  /\ stepLog' = [s \in Step |->
       IF s = run[r].step
       THEN [stepLog[s] EXCEPT !.outcome = IF decision = "retry" THEN "retried" ELSE "aborted"]
       ELSE stepLog[s]]
  /\ UNCHANGED <<registry, lease, thr, approved, asking, crashed>>

(* request_rollback reads the channel first; the target it found, named by *)
(* the operator or the previous version, is used in a transaction that     *)
(* asks only whether a step is open.                                       *)
AskRollback(r, target) ==
  LET c == ChannelOf[r] IN
  /\ Created(r) /\ asking[r] = None /\ Len(history[c]) < MaxHistory
  /\ active[c] # None
  /\ asking' = [asking EXCEPT ![r] = target]
  /\ UNCHANGED <<registry, run, lease, thr, stepLog, approved, crashed>>

RequestRollback(r) ==
  /\ asking[r] # None
  /\ run' = IF run[r].step # None THEN run
            ELSE [run EXCEPT ![r].status = "running", ![r].node = "rollback",
                    ![r].target = asking[r], ![r].reason = "none", ![r].pause = FALSE]
  /\ asking' = [asking EXCEPT ![r] = None]
  /\ UNCHANGED <<registry, lease, thr, stepLog, approved, crashed>>

(* Mutated form of Cancel: a run is cancelled under an open step.          *)
CancelAnyway(r) ==
  /\ Created(r) /\ run[r].status \notin Terminal
  /\ run' = [run EXCEPT ![r].status = "cancelled", ![r].node = "done",
                        ![r].reason = "none", ![r].pause = FALSE]
  /\ UNCHANGED <<registry, lease, thr, stepLog, approved, asking, crashed>>

Cancel(r) ==
  /\ Created(r) /\ run[r].status \notin Terminal /\ run[r].step = None
  /\ run' = [run EXCEPT ![r].status = "cancelled", ![r].node = "done",
                        ![r].reason = "none", ![r].pause = FALSE]
  /\ UNCHANGED <<registry, lease, thr, stepLog, approved, asking, crashed>>

------------------------------------------------------------------------------
(* What drive() does next, once a thread has begun: always enabled.        *)
Drive(t) ==
  \/ Restore(t) \/ MarkRecoveryRequired(t) \/ Dispatch(t) \/ PauseAtBoundary(t)
  \/ \E node \in ExternalNode : BeginExternalStep(t, node)
  \/ CompleteExecute(t) \/ (\E passed \in BOOLEAN : CompleteVerify(t, passed))
  \/ FailExternalStep(t)
  \/ RequestHuman(t)
  \/ PromoteCandidate(t) \/ PromotionConflict(t) \/ RecordConflict(t)
  \/ ReadRollbackTarget(t) \/ ReadRollbackFrom(t) \/ CommitRollback(t)
  \/ Raise(t) \/ Release(t)

(* The commands that are one transaction ...                               *)
Steer(r) ==
  \/ "pause" \in Commands /\ (Pause(r) \/ Resume(r))
  \/ /\ "decide" \in Commands
     /\ \/ Approve(r) \/ Revise(r) \/ Reject(r)
        \/ \E decision \in {"retry", "abort"} : ResolveRecovery(r, decision)
  \/ /\ "rollback" \in Commands
     /\ \E target \in Nameable(ChannelOf[r]) \cup {None} : DecideRollback(r, target)
  \/ "cancel" \in Commands /\ Cancel(r)

(* ... and the ones that begin with a read of the channel.                 *)
Operate(r) ==
  \/ CreateRun(r)
  \/ Steer(r)
  \/ /\ "rollback" \in Commands
     /\ (\E target \in Nameable(ChannelOf[r]) : AskRollback(r, target)) \/ RequestRollback(r)

Next ==
  \/ \E t \in Thread : Drive(t)
  \/ \E t \in Thread, r \in Run : Acquire(t, r)
  \/ \E r \in Run : Operate(r)
  \/ \E t \in Thread : Heartbeat(t)
  \/ \E r \in Run : LeaseLapse(r)
  \/ \E w \in Worker : Crash(w)
  \/ \E t \in Thread : Abort(t)

Spec == Init /\ [][Next]_vars
==============================================================================
