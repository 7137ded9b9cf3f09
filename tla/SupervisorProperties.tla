------------------------ MODULE SupervisorProperties ------------------------
(***************************************************************************)
(* What the supervisor promises, stated over Supervisor.tla: first what    *)
(* holds under every fault, then what needs the lease to be honoured, then *)
(* liveness, then what the documents say and the code does not do.         *)
(***************************************************************************)
EXTENDS Supervisor

(* At most one automatic attempt per step id and one open call per run: a  *)
(* call that is open in the journal is the run's pending step and nothing  *)
(* else clears it silently (supervisor.py, _begin_external_step).          *)
OpenCallIsPending ==
  \A s \in Step :
    stepLog[s].outcome = "started" => run[stepLog[s].run].step = s

(* The journal gives every step one outcome.  A result that arrives after  *)
(* the step was retried, aborted or answered is never taken, from however  *)
(* slow a worker (supervisor.py, _assert_pending_owner).                   *)
OutcomesAreFinal ==
  [][\A s \in Step :
       stepLog[s].outcome \notin {"unused", "started"} => stepLog'[s] = stepLog[s]]_vars

(* A version is released only through the gate its run was configured      *)
(* with: a human approved it, or, where no approval is required, it passed *)
(* verification (graph.py's routes, _promote's candidate).                 *)
ReleaseGate ==
  \A c \in Channel : \A i \in DOMAIN history[c] :
    LET row == history[c][i] IN
    row.action = "promote" =>
      \/ row.version \in approved
      \/ ~RequireApproval[row.run] /\ ver[row.version].validation = "passed"

(* A verdict is recorded once: a second verifier that started before it,   *)
(* on another worker or after a restart, cannot overwrite it               *)
(* (supervisor.py, _verify).                                               *)
VerdictsAreFinal ==
  [][\A v \in Version :
       ver[v].validation # "none" => ver'[v].validation = ver[v].validation]_vars

(* A paused run has no call in flight, whatever raced with the pause.      *)
PausedAtBoundary == \A r \in Run : run[r].status = "paused" => run[r].step = None

------------------------------------------------------------------------------
(* The inductive invariant behind the properties above: what the run's     *)
(* state, the journal, the registry and the drivers' memories have to say  *)
(* of one another for every further step to be safe.                       *)

DriversHaveRuns == \A t \in Thread : ~At(t, "idle") => thr[t].run \in Run

(* A run's pending step is open in the journal under that run, and an open *)
(* call has a run.                                                         *)
PendingIsOpen ==
  /\ \A r \in Run : run[r].step # None =>
       stepLog[run[r].step].outcome = "started" /\ stepLog[run[r].step].run = r
  /\ \A s \in Step : stepLog[s].outcome = "started" => stepLog[s].run \in Run

RestingRunsHaveNoStep ==
  \A r \in Run :
    /\ run[r].status \in {"paused", "absent"} => run[r].step = None
    /\ run[r].status = "absent" => run[r].candidate = None

(* A verifying driver waits for a verify step.                             *)
VerifiersWait ==
  \A t \in Thread : At(t, "verifying") =>
    thr[t].step \in Step /\ stepLog[thr[t].step].node = "verify"
    /\ stepLog[thr[t].step].outcome # "unused"

(* A candidate exists, was created by its run, and has no verdict while    *)
(* its run is at the verify node or a verify call is open.                 *)
CandidatesAreOwn ==
  \A r \in Run : run[r].candidate # None =>
    Exists(run[r].candidate) /\ ver[run[r].candidate].run = r

AtVerify(r) ==
  \/ run[r].node = "verify"
  \/ run[r].step # None /\ stepLog[run[r].step].node = "verify"

UnverifiedAtVerify ==
  /\ \A r \in Run : AtVerify(r) =>
       run[r].candidate # None /\ ver[run[r].candidate].validation = "none"
  /\ \A v \in Version : ~Exists(v) => ver[v].validation = "none"

(* What a run may promote has passed the gate, and so has what a driver    *)
(* that is about to promote has read.                                      *)
Gated(r, v) ==
  \/ v \in approved
  \/ ~RequireApproval[r] /\ ver[v].validation = "passed"

PromotableIsGated ==
  /\ \A r \in Run : run[r].node = "promote" /\ run[r].candidate # None
       => Gated(r, run[r].candidate)
  /\ \A t \in Thread : At(t, "promote") =>
       /\ Exists(thr[t].held) /\ ver[thr[t].held].run = thr[t].run
       /\ Gated(thr[t].run, thr[t].held)

Inductive ==
  /\ DriversHaveRuns /\ OpenCallIsPending /\ PendingIsOpen /\ RestingRunsHaveNoStep
  /\ VerifiersWait /\ CandidatesAreOwn /\ UnverifiedAtVerify /\ PromotableIsGated
  /\ ReleaseGate

------------------------------------------------------------------------------
(* With a lease that lapses only when no thread drives, and workers with   *)
(* one thread each.                                                        *)

(* Two threads never drive one run, and a driver's lease is valid until it *)
(* gives it back (storage.py, acquire_lease and release_lease).            *)
OneDriver ==
  \A t \in Thread : ~At(t, "idle") =>
    /\ lease[thr[t].run] = [owner |-> WorkerOf[t], expired |-> FALSE]
    /\ \A u \in Thread \ {t} : thr[u].run # thr[t].run

(* Which statuses leave a call open: none that waits for an operator or is *)
(* terminal, and recovery_required always.                                 *)
StatusMatchesStep ==
  \A r \in Run :
    /\ run[r].status \in Terminal \cup {"absent", "paused", "awaiting_human"}
         => run[r].step = None
    /\ run[r].status = "recovery_required" => run[r].step # None

(* Only a human decision takes a run out of recovery_required: the         *)
(* interrupted call is declared retried or aborted, never answered late.   *)
RecoveryNeedsDecision ==
  [][\A r \in Run :
       run[r].status = "recovery_required" /\ run'[r] # run[r] =>
         stepLog'[run[r].step].outcome \in {"retried", "aborted"}]_vars

(* After a pause was requested during a call no other call begins before   *)
(* the run has been paused: also when the call was interrupted, resolved   *)
(* by a human, and the run driven again.                                   *)
PauseBeforeNextCall ==
  [][\A r \in Run :
       run[r].pause /\ run[r].step # run'[r].step => run'[r].step = None]_vars

(* The artifact a verifier is given is the one its verdict is recorded     *)
(* for: _verify reads the artifact before it opens the step and names the  *)
(* candidate after it.                                                     *)
VerdictOnExaminedArtifact ==
  \A t \in Thread :
    At(t, "verifying") /\ OwnsStep(t) => thr[t].held = run[thr[t].run].candidate

(* A call's result is never refused: whatever crashes, commands and other  *)
(* drivers there are, a driver that waits for a call still has its step    *)
(* when the call returns (supervisor.py, _assert_pending_owner).           *)
AnswersAreTaken ==
  \A t \in Thread : thr[t].pc \in {"executing", "verifying"} => OwnsStep(t)

(* A run that has ended is revived by a rollback somebody asked for, with  *)
(* the target that was read then, and by nothing else: by no decision, and *)
(* by no driver that read it earlier.  (A cancelled run is another matter: *)
(* see CancelledIsNotReleased.)                                            *)
EndedRunsStayOrRollBack ==
  [][\A r \in Run :
       run[r].status \in {"succeeded", "failed", "rolled_back"}
         /\ run'[r].status # run[r].status =>
       /\ run'[r].status = "running" /\ run'[r].node = "rollback"
       /\ run'[r].target = asking[r] /\ asking[r] # None]_vars

(* All of it together: the drivers, leases and commands implement the life *)
(* of a run as RunLifecycle.tla describes it, in which there are none.     *)
Life == INSTANCE RunLifecycle WITH
  status <- [r \in Run |-> run[r].status],
  call <- [r \in Run |-> run[r].step],
  wish <- [r \in Run |-> run[r].pause],
  outcome <- [s \in Step |-> stepLog[s].outcome],
  released <- active

LifecycleSpec == Life!Spec

(* A promotion that no human approved replaces exactly the version its     *)
(* agent was given as base, whatever was released, rebased and tried again *)
(* in between: two candidates made from one base never both go out over    *)
(* it, and a run that met a conflict releases only what was made anew      *)
(* (storage.py, _promote; supervisor.py, _promote and decide's revise).    *)
(* What a human approves may be older: when the iterations are used up     *)
(* after a conflict, the candidate of before is what there is.             *)
UnapprovedReleasesAreFresh ==
  \A c \in Channel : \A i \in DOMAIN history[c] :
    LET row == history[c][i] IN
    row.action = "promote" =>
      row.previous = ver[row.version].madeOn \/ row.version \in approved

(* The registry's two records of what is released agree: the version a     *)
(* channel points to is the one marked active.                             *)
ActiveIsMarked ==
  {v \in Version : ver[v].status = "active"} = {active[c] : c \in Channel} \ {None}

------------------------------------------------------------------------------
(* Fairness: a driver that has begun goes on; somebody calls drive() again *)
(* for a run that can be driven; time passes.  Nothing is assumed of the   *)
(* operators: no human decision ever has to come.                          *)
Fairness ==
  /\ \A t \in Thread : WF_vars(Drive(t))
  /\ \A t \in Thread, r \in Run : WF_vars(Acquire(t, r))
  /\ \A r \in Run : WF_vars(LeaseLapse(r))

FairSpec == Spec /\ Fairness

(* Running states the operators can bring about and no drive() leaves,     *)
(* because each one raises: an approved run that never had a candidate, a  *)
(* rollback of a channel with nothing to go back to, and a run that was    *)
(* cancelled between drive's look at a pause and _pause_at_boundary, which *)
(* makes it a paused run at the node "done" that can be resumed.           *)
Wedged(r) ==
  \/ run[r].node = "done"
  \/ run[r].node = "promote" /\ run[r].candidate = None
  \/ /\ run[r].node = "rollback"
     /\ \/ run[r].target = None /\ PreviousVersion(ChannelOf[r]) = None
        \/ active[ChannelOf[r]] = None
        \/ run[r].target # None /\ ~Exists(run[r].target)

(* What an operator has done since driver t read its run: the next         *)
(* transaction of drive() is then for a run that is not as it was.  (A run *)
(* that was cancelled since is among the wedged ones, at "done".)          *)
Disturbed(t) ==
  LET s == run[thr[t].run] IN
  \/ s.status = "paused"
  \/ /\ s.node = "rollback"
     /\ thr[t].pc \in ExternalNode \cup {"hitl"} \/ s.target \notin {None, thr[t].held}

(* The open step is of this very supervisor, whose driver was interrupted: *)
(* see StrandedCallsSurface.                                               *)
LeftBehind(t) ==
  LET s == run[thr[t].run] IN
  thr[t].pc \in ExternalNode /\ s.step # None /\ s.owner = WorkerOf[t]

(* drive() raises only for a reason: an operator came between its reads    *)
(* and its writes, a human resolved the interrupted call before drive()    *)
(* could report it, the supervisor itself left a call open, or the run is  *)
(* in one of the states no drive() leaves.  Any other drive gets on.       *)
RaisesHaveCauses ==
  \A t \in Thread :
    Refused(t) => Disturbed(t) \/ At(t, "recover") \/ LeftBehind(t) \/ Wedged(thr[t].run)

(* A running run comes to an end, or to a point where it waits for an      *)
(* operator, through crashes of its drivers and leases they leave behind.  *)
RunsComeToRest ==
  \A r \in Run : run[r].status = "running" ~> run[r].status # "running" \/ Wedged(r)

(* An open call that no thread is waiting for.                             *)
Stranded(r) ==
  /\ run[r].step # None
  /\ \A t \in Thread : thr[t].step # run[r].step

(* A call whose driver died is put before a human, or was resolved (crash  *)
(* matrix of failure-semantics.md: "recovery_required").                   *)
StrandedCallsSurface ==
  \A r \in Run :
    Stranded(r) ~> run[r].status = "recovery_required" \/ ~Stranded(r)

------------------------------------------------------------------------------
(* What the documents say of terminal runs.                                *)

(* architecture.md, run state machine: "failed / cancelled: Terminal       *)
(* without promotion".  A run that was cancelled releases nothing.         *)
CancelledIsNotReleased ==
  [][\A r \in Run : run[r].status = "cancelled" => history' = history]_vars

(* architecture.md, run state machine: the only valid exit of rolled_back, *)
(* failed and cancelled is "terminal".                                     *)
TerminalIsFinal ==
  [][\A r \in Run :
       run[r].status \in {"failed", "cancelled", "rolled_back"} =>
         run'[r].status = run[r].status]_vars

==============================================================================
