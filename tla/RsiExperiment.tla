---------------------------- MODULE RsiExperiment ----------------------------
(***************************************************************************)
(* rsi.py over the supervisor: processes that start, drive, approve, roll  *)
(* back and export an experiment, each call a sequence of supervisor       *)
(* operations, reads of the channel and a replacement of SKILL.md, with    *)
(* other processes in between.  One channel and one workspace.             *)
(*                                                                         *)
(* Every experiment object has a supervisor of its own, so a thread has a  *)
(* worker id of its own.  The runs of an experiment are also there for the *)
(* generic commands of api.py and cli.py, whose supervisor knows neither   *)
(* the experiment's adapters nor its benchmark and whose drives leave the  *)
(* file alone.  A call that raises ends where it is.  What an agent's      *)
(* scaffold is worth to the benchmark is its score, the same at every      *)
(* evaluation.                                                             *)
(***************************************************************************)
EXTENDS Supervisor

CONSTANTS
  SeedOf,      \* the run start() of a thread creates to seed the channel
  EvolverOf,   \* the run it creates to improve on the baseline
  Score,       \* scorecards agents' scaffolds may get
  SeedScore,   \* the scorecard of SEED_SKILL
  MinHoldout,  \* minimum_holdout_score
  Calls,       \* the calls processes make: see Begin
  MaxCalls,    \* bound: the calls all processes make
  MaxCommands  \* bound: the commands operators give besides

(* The calls of the generic supervisor: POST /runs/{id}/drive, with or     *)
(* without max_steps, and /rollback; and "loopgraph drive" and "rollback"  *)
(* of a seed run, for which the command line builds the same supervisor.   *)
Generic == {"apiDrive", "apiRollback"}

ASSUME RsiAssumption ==
  /\ SeedOf \in [Thread -> Run] /\ EvolverOf \in [Thread -> Run]
  /\ Score \cup {SeedScore} \subseteq [overall: Nat, holdout: Nat]
  /\ MinHoldout \in Nat
  /\ Calls \subseteq {"start", "drive", "run", "step", "approve", "rollback", "export"}
                     \cup Generic
  /\ Calls \cap {"drive", "approve"} # {} => "decide" \in Commands
  /\ Calls \cap {"rollback", "apiRollback"} # {} => "rollback" \in Commands
  /\ Calls \cap Generic # {} => "unserved" \in Faults
  /\ MaxCalls \in Nat /\ MaxCommands \in Nat
  /\ \A t, u \in Thread : SeedOf[t] # EvolverOf[u] /\ ChannelOf[SeedOf[t]] = ChannelOf[EvolverOf[u]]

VARIABLES
  call,      \* each thread's call: where it is and what it has read
  baseline,  \* metadata frozen in a run: baseline_version_id, which fixes
             \* the baseline scores as well
  score,     \* the scorecard of each version's source
  skill,     \* the version whose source SKILL.md shows
  made,      \* how many calls and commands there have been
  behind     \* history: what happened since SKILL.md was last replaced by
             \* the active version: a replacement was "overtaken", a call
             \* "failed" before its own, the channel was "commanded"

file == <<skill, behind>>
rsiVars == <<vars, call, made, baseline, score, file>>

Evolver == {EvolverOf[t] : t \in Thread}
Bootstrap == {SeedOf[t] : t \in Thread}
Ch == ChannelOf[EvolverOf[CHOOSE t \in Thread : TRUE]]

(* A call: the run it is about, the version start() took as baseline, the  *)
(* one materialize_active_skill read, and of drive() whether it raised     *)
(* and, if the state it returned awaits approval, that state's iteration.  *)
CallPc == {"idle", "channel", "seed", "decide", "ask", "request", "drive", "driving",
           "read", "replace", "create"}

CallRecord ==
  [op: Calls \cup {"none", "approve"}, pc: CallPc, run: Run \cup {None},
   version: Version \cup {None}, read: Version \cup {None},
   awaits: Nat, raised: BOOLEAN]

NoCall == [op |-> "none", pc |-> "idle", run |-> None, version |-> None,
           read |-> None, awaits |-> 0, raised |-> FALSE]

InCall(t, pc) == call[t].pc = pc
CallGoto(t, pc) == call' = [call EXCEPT ![t].pc = pc]
CallEnds(t) == call' = [call EXCEPT ![t] = NoCall]

------------------------------------------------------------------------------
(* A call begins: "drive" is drive(auto_approve=True), "run" the same      *)
(* without it, "step" one step, "approve" a decision and a run: of the     *)
(* dashboard, which refuses runs that are no experiment's, or the command  *)
(* line.  The bounds: there are few calls, and a process starts one        *)
(* experiment; a rollback is asked for while the history is short.         *)
FirstStep(op) ==
  CASE op = "start" -> "channel" [] op = "approve" -> "decide"
    [] op \in {"rollback", "apiRollback"} -> "ask" [] op = "export" -> "read"
    [] OTHER -> "drive"

Begin(t, op, r) ==
  /\ InCall(t, "idle") /\ WorkerOf[t] \notin crashed /\ made.calls < MaxCalls
  /\ IF op = "start" THEN r = EvolverOf[t] /\ ~Created(r) /\ ~Created(SeedOf[t])
     ELSE Created(r) /\ (r \in Evolver \/ (op \in Generic /\ r \in Bootstrap))
  /\ FirstStep(op) = "ask" => asking[r] = None /\ Len(history[Ch]) < MaxHistory
  /\ call' = [call EXCEPT ![t] = [NoCall EXCEPT !.op = op, !.pc = FirstStep(op), !.run = r]]
  /\ made' = [made EXCEPT !.calls = @ + 1]
  /\ UNCHANGED <<vars, baseline, score, file>>

(* start(): get_channel.                                                   *)
ReadChannel(t) ==
  /\ InCall(t, "channel")
  /\ call' = IF active[Ch] = None
             THEN [call EXCEPT ![t].pc = "seed"]
             ELSE [call EXCEPT ![t].pc = "read", ![t].version = active[Ch]]
  /\ UNCHANGED <<vars, made, baseline, score, file>>

(* start() on what was an empty channel: the seed run, whose create_run    *)
(* reads the channel for its base again.                                   *)
CreateSeed(t) ==
  /\ InCall(t, "seed")
  /\ CreateRun(SeedOf[t])
  /\ CallGoto(t, "drive")
  /\ UNCHANGED <<made, baseline, score, file>>

(* start(): create_run reads the channel again for the run's base; the     *)
(* baseline is the version read before.                                    *)
CreateEvolver(t) ==
  /\ InCall(t, "create")
  /\ CreateRun(EvolverOf[t])
  /\ baseline' = [baseline EXCEPT ![EvolverOf[t]] = call[t].version]
  /\ CallEnds(t)
  /\ UNCHANGED <<made, score, file>>

------------------------------------------------------------------------------
(* supervisor.drive() inside a call.                                       *)

Driven(t) == IF call[t].op = "start" THEN SeedOf[t] ELSE call[t].run

BeginDrive(t) ==
  /\ InCall(t, "drive")
  /\ Acquire(t, Driven(t))
  /\ CallGoto(t, "driving")
  /\ UNCHANGED <<made, baseline, score, file>>

LeaseUnavailable(t) ==
  /\ InCall(t, "drive") /\ ~LeaseGranted(Driven(t), WorkerOf[t])
  /\ CallEnds(t)
  /\ UNCHANGED <<vars, made, baseline, score, file>>

(* Mutated form of Eligible: holdout cases are not compared with the       *)
(* baseline's.                                                             *)
EligibleOverall(v, b) == score[v].overall > score[b].overall

(* RsiBenchmarkVerifier: better overall than the frozen baseline, no worse *)
(* on the holdout, and good enough on it.                                  *)
Eligible(v, b) ==
  /\ score[v].overall > score[b].overall
  /\ score[v].holdout >= score[b].holdout
  /\ score[v].holdout >= MinHoldout

(* The adapter returns: the seed's source, or an agent's.                  *)
AdapterReturns(t) ==
  /\ CompleteExecute(t)
  /\ \E s \in IF thr[t].run \in Evolver THEN Score ELSE {SeedScore} :
       score' = [v \in Version |-> IF ver'[v] # ver[v] THEN s ELSE score[v]]

(* The generic supervisor has neither the seed's adapter nor the evolver's *)
(* and not the benchmark, but the verifier of seed runs is built in.       *)
Unserved(t) ==
  /\ call[t].op \in Generic
  /\ At(t, "execute") \/ (At(t, "verify") /\ thr[t].run \in Evolver)

(* always_pass for the seed; the benchmark for the others.                 *)
VerifierReturns(t) ==
  LET r == thr[t].run IN
  /\ CompleteVerify(t, IF r \in Evolver THEN Eligible(thr[t].held, baseline[r]) ELSE TRUE)
  /\ UNCHANGED score

(* A drive without max_steps goes on while the run is running; "step" is   *)
(* max_steps=1, "apiDrive" may have any.                                   *)
StepsAllowed(t) ==
  /\ At(t, "release")' =>
       call[t].op \in {"step", "apiDrive"} \/ run'[thr[t].run].status # "running"
  /\ At(t, "loop")' => call[t].op # "step" \/ At(t, "restore")

(* Mutated form of Awaited: any wait for a human will do.                  *)
AwaitedAny(s) == IF s.status = "awaiting_human" THEN s.iteration ELSE 0

(* What drive(auto_approve=True) asks of the state drive() returned.       *)
Awaited(s) ==
  IF s.status = "awaiting_human" /\ s.reason = "approval_required" THEN s.iteration ELSE 0

DriveStep(t) ==
  /\ InCall(t, "driving")
  /\ \/ AdapterReturns(t) \/ VerifierReturns(t)
     \/ /\ \/ Restore(t) \/ MarkRecoveryRequired(t) \/ Dispatch(t) \/ PauseAtBoundary(t)
           \/ ~Unserved(t) /\ \E node \in ExternalNode : BeginExternalStep(t, node)
           \/ thr[t].run \in Evolver /\ FailExternalStep(t)
           \/ RequestHuman(t)
           \/ PromoteCandidate(t) \/ PromotionConflict(t) \/ RecordConflict(t)
           \/ ReadRollbackTarget(t) \/ ReadRollbackFrom(t) \/ CommitRollback(t)
        /\ UNCHANGED score
  /\ StepsAllowed(t)
  /\ call' = [call EXCEPT ![t].awaits =
                IF At(t, "release")' THEN Awaited(run'[thr[t].run]) ELSE 0]
  /\ behind' = IF call[t].op \in Generic /\ active'[Ch] # active[Ch]
               THEN behind \cup {"commanded"} ELSE behind
  /\ UNCHANGED <<made, baseline, skill>>

DriveRaises(t) ==
  /\ InCall(t, "driving")
  /\ \/ Raise(t)
     \/ Abort(t) /\ (thr[t].pc \in ExternalNode => "abort" \in Faults \/ Unserved(t))
  /\ call' = [call EXCEPT ![t].raised = TRUE]
  /\ UNCHANGED <<made, baseline, score, file>>

(* Mutated form of AfterDrive: the approval path forgets SKILL.md.         *)
AfterDriveUnsynced(t) ==
  CASE call[t].op = "start" -> [call[t] EXCEPT !.pc = "read", !.version = run[SeedOf[t]].candidate]
    [] call[t].op = "drive" /\ call[t].awaits > 0 -> [call[t] EXCEPT !.pc = "decide"]
    [] call[t].op \in Generic \cup {"approve"} -> NoCall
    [] OTHER -> [call[t] EXCEPT !.pc = "read"]

(* What the call does when drive() has returned a state.  start() takes    *)
(* the seed run's candidate without asking whether it was released.        *)
AfterDrive(t) ==
  CASE call[t].op = "start" -> [call[t] EXCEPT !.pc = "read", !.version = run[SeedOf[t]].candidate]
    [] call[t].op = "drive" /\ call[t].awaits > 0 -> [call[t] EXCEPT !.pc = "decide"]
    [] call[t].op \in Generic -> NoCall
    [] OTHER -> [call[t] EXCEPT !.pc = "read"]

(* What is to be said of the file when a call fails.                       *)
Failing == IF skill = active[Ch] THEN behind ELSE behind \cup {"failed"}

(* start() raises when the seed run has no candidate after all.            *)
DriveReturns(t) ==
  LET unseeded == call[t].op = "start" /\ run[SeedOf[t]].candidate = None IN
  /\ InCall(t, "driving")
  /\ Release(t)
  /\ call' = [call EXCEPT ![t] =
                IF call[t].raised \/ unseeded THEN NoCall ELSE AfterDrive(t)]
  /\ behind' = IF ~call[t].raised /\ unseeded THEN Failing ELSE behind
  /\ UNCHANGED <<made, baseline, score, skill>>

------------------------------------------------------------------------------
(* The decision of the "approve" call, and of drive(auto_approve=True) on  *)
(* the run drive() returned.  Then the run is driven (again).              *)

Decide(t) ==
  /\ InCall(t, "decide")
  /\ Approve(call[t].run)
  /\ call' = [call EXCEPT ![t].pc = "drive", ![t].op = "approve"]
  /\ UNCHANGED <<made, baseline, score, file>>

DecideRefused(t) ==
  /\ InCall(t, "decide") /\ ~Awaiting(call[t].run)
  /\ CallEnds(t)
  /\ UNCHANGED <<vars, made, baseline, score, file>>

(* rollback(): request_rollback in its two steps, to a version the caller  *)
(* names or the previous one, which there may not be.  It raises when it   *)
(* finds a step open, and the run is not driven.                           *)
Ask(t) ==
  /\ InCall(t, "ask")
  /\ \E target \in Nameable(Ch) : AskRollback(call[t].run, target)
  /\ CallGoto(t, "request")
  /\ UNCHANGED <<made, baseline, score, file>>

AskRefused(t) ==
  /\ InCall(t, "ask")
  /\ \/ PreviousVersion(Ch) = None
     \/ asking[call[t].run] # None \/ Len(history[Ch]) >= MaxHistory
  /\ CallEnds(t)
  /\ UNCHANGED <<vars, made, baseline, score, file>>

Request(t) ==
  /\ InCall(t, "request")
  /\ RequestRollback(call[t].run)
  /\ IF run[call[t].run].step = None THEN CallGoto(t, "drive") ELSE CallEnds(t)
  /\ UNCHANGED <<made, baseline, score, file>>

------------------------------------------------------------------------------
(* materialize_active_skill: read the channel, score and render that       *)
(* version, replace the file.                                              *)

(* Mutated form of ReadActive: what the call has at hand is shown, the     *)
(* version start() takes as its baseline.                                  *)
ReadHeld(t) ==
  LET v == IF call[t].version # None THEN call[t].version ELSE active[Ch] IN
  /\ InCall(t, "read") /\ v # None
  /\ call' = [call EXCEPT ![t].pc = "replace", ![t].read = v]
  /\ UNCHANGED <<vars, made, baseline, score, file>>

ReadActive(t) ==
  /\ InCall(t, "read") /\ active[Ch] # None
  /\ call' = [call EXCEPT ![t].pc = "replace", ![t].read = active[Ch]]
  /\ UNCHANGED <<vars, made, baseline, score, file>>

(* The channel is empty, or the benchmark or the file system raised.       *)
MaterializeRaises(t) ==
  /\ call[t].pc \in {"read", "replace"}
  /\ behind' = Failing
  /\ CallEnds(t)
  /\ UNCHANGED <<vars, made, baseline, score, skill>>

ReplaceSkill(t) ==
  /\ InCall(t, "replace")
  /\ skill' = call[t].read
  /\ behind' = IF call[t].read = active[Ch] THEN {} ELSE behind \cup {"overtaken"}
  /\ call' = [call EXCEPT ![t] = IF @.op = "start" THEN [@ EXCEPT !.pc = "create"] ELSE NoCall]
  /\ UNCHANGED <<vars, made, baseline, score>>

------------------------------------------------------------------------------
(* An operator pauses, resumes, decides on, recovers or cancels a run of   *)
(* an experiment, a seed run as well: commands that drive nothing.         *)
OperateDirectly(r) ==
  /\ r \in Evolver \cup Bootstrap /\ made.commands < MaxCommands
  /\ Steer(r)
  /\ made' = [made EXCEPT !.commands = @ + 1]
  /\ UNCHANGED <<call, baseline, score, file>>

Elapse ==
  /\ (\E t \in Thread : Heartbeat(t)) \/ (\E r \in Run : LeaseLapse(r))
  /\ UNCHANGED <<call, made, baseline, score, file>>

(* The next thing the call does is to bring the file up to date.           *)
Owes(t) ==
  \/ call[t].pc \in {"read", "replace"}
  \/ InCall(t, "driving") /\ At(t, "release") /\ call[t].op \notin Generic

ProcessDies(w) ==
  /\ Crash(w)
  /\ call' = [t \in Thread |-> IF WorkerOf[t] = w THEN NoCall ELSE call[t]]
  /\ behind' = IF \E t \in Thread : WorkerOf[t] = w /\ Owes(t) THEN Failing ELSE behind
  /\ UNCHANGED <<made, baseline, score, skill>>

RsiInit ==
  /\ Init
  /\ call = [t \in Thread |-> NoCall]
  /\ baseline = [r \in Run |-> None]
  /\ score = [v \in Version |-> SeedScore]
  /\ made = [calls |-> 0, commands |-> 0] /\ skill = None /\ behind = {}

CallStep(t) ==
  \/ ReadChannel(t) \/ CreateSeed(t) \/ CreateEvolver(t)
  \/ BeginDrive(t) \/ LeaseUnavailable(t) \/ DriveStep(t) \/ DriveRaises(t) \/ DriveReturns(t)
  \/ Decide(t) \/ DecideRefused(t)
  \/ Ask(t) \/ AskRefused(t) \/ Request(t)
  \/ ReadActive(t) \/ MaterializeRaises(t) \/ ReplaceSkill(t)

RsiNext ==
  \/ \E t \in Thread : CallStep(t)
  \/ \E t \in Thread, op \in Calls, r \in Run : Begin(t, op, r)
  \/ \E r \in Run : OperateDirectly(r)
  \/ Elapse
  \/ \E w \in Worker : ProcessDies(w)

RsiSpec == RsiInit /\ [][RsiNext]_rsiVars
==============================================================================
