-------------------------- MODULE ActiveMarkProofs --------------------------
(***************************************************************************)
(* The two records of what is released agree: the versions marked active   *)
(* are the ones the channels point to.  It takes the lease to be honoured, *)
(* or a verdict could overwrite the mark of a version that was released    *)
(* under the verifier; and operators who name released versions as targets *)
(* of a rollback, or one version could be active on two channels.  And     *)
(* what a promotion replaces is what its candidate was made on, unless a   *)
(* human approved it.                                                      *)
(***************************************************************************)
EXTENDS LeaseProofs

(* The marks of a version that was once released.                          *)
Shown == {"active", "superseded", "rolled_back"}

ReleasedAreOwn ==
  \A c \in Channel : \A v \in Released(c) :
    /\ v \in Version /\ ver[v].run \in Run /\ ChannelOf[ver[v].run] = c
    /\ ver[v].status \in Shown

(* A candidate that waits for its verdict was never released.              *)
FreshAtVerify ==
  \A r \in Run : run[r].node = "verify" => ver[run[r].candidate].status = "candidate"

(* Rollbacks aim at versions their channel has released, or have yet to    *)
(* look for one.                                                           *)
AimsWell(d) ==
  d.pc \in RollingBack =>
    \/ d.held \in Released(ChannelOf[d.run])
    \/ d.pc = "rollback_target" /\ d.held = None

TargetsReleased ==
  /\ \A r \in Run : {run[r].target, asking[r]} \subseteq Released(ChannelOf[r]) \cup {None}
  /\ \A t \in Thread : AimsWell(thr[t])

MarkInductive == ActiveIsMarked /\ ReleasedAreOwn /\ FreshAtVerify /\ TargetsReleased

------------------------------------------------------------------------------
(* A pointer move to a version of the channel's own runs.                  *)
LEMMA MarkMoves ==
  ASSUME RegistryAssumption, RegistryTypeOK, HistoryChain, ActiveIsMarked, ReleasedAreOwn,
         NEW c \in Channel, NEW v \in Version, ver[v].run \in Run, ChannelOf[ver[v].run] = c,
         NEW demoted \in {"superseded", "rolled_back"}, NEW row, row.version = v,
         MovePointer(c, v, demoted, row)
  PROVE  /\ ActiveIsMarked' /\ ReleasedAreOwn'
         /\ \A w \in Version : w # v /\ ver[w].status = "candidate" => ver'[w] = ver[w]
<1>0. /\ \A w \in Version : ver[w] \in VersionState
      /\ active \in [Channel -> Version \cup {None}] /\ history \in [Channel -> Seq(Row)]
      /\ active' = [active EXCEPT ![c] = v]
      /\ history' = [history EXCEPT ![c] = Append(history[c], row)]
      /\ None \notin Version
  BY DEF RegistryTypeOK, MovePointer, RegistryAssumption
<1>1. \A w \in Version :
        /\ ver'[w].run = ver[w].run
        /\ ver'[w].status = IF w = v THEN "active"
                            ELSE IF w = active[c] THEN demoted ELSE ver[w].status
        /\ w # v /\ w # active[c] => ver'[w] = ver[w]
  <2> TAKE w \in Version
  <2>1. ver[w] \in VersionState
    BY <1>0
  <2>2. ver'[w] = IF w = v THEN [ver[w] EXCEPT !.status = "active"]
                  ELSE IF w = active[c] THEN [ver[w] EXCEPT !.status = demoted] ELSE ver[w]
    BY DEF MovePointer
  <2> QED BY <2>1, <2>2 DEF VersionState
<1>2. \A d \in Channel : active[d] # None =>
        /\ active[d] \in Version /\ ver[active[d]].status \in Shown
        /\ ChannelOf[ver[active[d]].run] = d
  BY ActiveIsReleased DEF ReleasedAreOwn
<1>3. \A d \in Channel \ {c} : active[d] = None \/ (active[d] # v /\ active[d] # active[c])
  BY <1>2
<1>4. ActiveIsMarked'
  <2>1. \A d \in Channel : active'[d] = IF d = c THEN v ELSE active[d]
    BY <1>0
  <2>2. ASSUME NEW w \in Version
        PROVE  ver'[w].status = "active" <=> \E d \in Channel : active'[d] = w
    <3>1. ver[w].status = "active" <=> \E d \in Channel : active[d] = w
      BY <1>0 DEF ActiveIsMarked
    <3> QED BY <1>0, <1>1, <1>3, <2>1, <3>1
  <2>3. \A d \in Channel : active'[d] \in Version \cup {None}
    BY <1>0, <2>1
  <2> QED BY <1>0, <2>2, <2>3 DEF ActiveIsMarked
<1>5. ReleasedAreOwn'
  <2> SUFFICES ASSUME NEW d \in Channel, NEW i \in DOMAIN history'[d]
               PROVE  LET w == history'[d][i].version IN
                      /\ w \in Version /\ ver'[w].run \in Run /\ ChannelOf[ver'[w].run] = d
                      /\ ver'[w].status \in Shown
    BY DEF ReleasedAreOwn, Released
  <2> DEFINE w == history'[d][i].version
  <2>1. \/ i \in DOMAIN history[d] /\ history'[d][i] = history[d][i]
        \/ d = c /\ history'[d][i] = row
    <3>1. history[d] \in Seq(Row)
      BY <1>0
    <3>2. history'[d] = IF d = c THEN Append(history[d], row) ELSE history[d]
      BY <1>0
    <3> QED BY <3>1, <3>2
  <2>2. CASE d = c /\ history'[d][i] = row
    BY <1>1, <2>2 DEF Shown
  <2>3. CASE i \in DOMAIN history[d] /\ history'[d][i] = history[d][i]
    <3>1. w \in Released(d)
      BY <2>3 DEF Released
    <3>2. /\ w \in Version /\ ver[w].run \in Run /\ ChannelOf[ver[w].run] = d
          /\ ver[w].status \in Shown
      BY <3>1 DEF ReleasedAreOwn
    <3>3. ver'[w].run = ver[w].run /\ ver'[w].status \in Shown
      BY <1>1, <3>2 DEF Shown
    <3>4. history'[d][i].version = w
      BY <2>3
    <3> QED BY <3>2, <3>3, <3>4
  <2> QED BY <2>1, <2>2, <2>3
<1>6. ASSUME NEW w \in Version, w # v, ver[w].status = "candidate"
      PROVE  ver'[w] = ver[w]
  <2>1. w # active[c]
    BY <1>0, <1>2, <1>6 DEF Shown
  <2> QED BY <1>1, <1>6, <2>1
<1> QED BY <1>4, <1>5, <1>6

------------------------------------------------------------------------------
(* Every other step leaves nodes and targets as the marks need them.       *)
LEMMA MarkSteps ==
  ASSUME LeaseHonoured, ~AnyTarget, SupervisorAssumption, RegistryAssumption,
         TypeOK, TypeOK', Inductive, LeaseInductive, HistoryChain,
         MarkInductive, [RegistryNext]_registry, [Next]_vars
  PROVE  MarkInductive'
<1>0. /\ RegistryTypeOK /\ None \notin Version
      /\ run \in [Run -> RunState] /\ thr \in [Thread -> Driver]
      /\ asking \in [Run -> Version \cup {None}]
      /\ \A t \in Thread : ~At(t, "idle") => thr[t].run \in Run /\ Knows(thr[t], run[thr[t].run])
      /\ \A r \in Run : ChannelOf[r] \in Channel
      /\ ActiveIsMarked /\ ReleasedAreOwn /\ FreshAtVerify /\ TargetsReleased
  BY DEF TypeOK, Inductive, DriversHaveRuns, LeaseInductive, RegistryAssumption, MarkInductive
<1>1. \A c \in Channel : Released(c) \subseteq Released(c)'
  BY <1>0, ReleasedGrows
<1>2. \A c \in Channel : Nameable(c) = Released(c)
  BY DEF Nameable
<1>3. \A c \in Channel : PreviousVersion(c) \in Released(c) \cup {None}
  <2> TAKE c \in Channel
  <2>1. history[c] \in Seq(Row)
    BY <1>0 DEF RegistryTypeOK
  <2>2. CASE history[c] # <<>>
    <3> DEFINE n == Len(history[c])
    <3>0. n \in Nat \ {0} /\ DOMAIN history[c] = 1..n
      BY <2>1, <2>2
    <3> HIDE DEF n
    <3>1. n \in DOMAIN history[c] /\ (n # 1 => n - 1 \in DOMAIN history[c])
      BY <3>0
    <3>2. history[c][n].previous = IF n = 1 THEN None ELSE history[c][n - 1].version
      BY <3>1 DEF HistoryChain
    <3>3. PreviousVersion(c) = history[c][n].previous
      BY <2>2 DEF PreviousVersion, n
    <3> QED BY <3>1, <3>2, <3>3 DEF Released
  <2> QED BY <2>2 DEF PreviousVersion

(* Where the registry stays as it is.                                      *)
<1> USE DEF RollingBack
<1> DEFINE Aims ==
      /\ \A r \in Run : /\ run'[r].target \in Released(ChannelOf[r]) \cup {None}
                        /\ asking'[r] \in Released(ChannelOf[r]) \cup {None}
      /\ \A t \in Thread : thr'[t].pc \in RollingBack => thr'[t].run \in Run /\ AimsWell(thr'[t])
    Verifies0 ==
      \A r \in Run : run'[r].node = "verify" =>
        run[r].node = "verify" /\ run'[r].candidate = run[r].candidate
<1>4. ASSUME Aims PROVE TargetsReleased'
  <2>1. \A r \in Run : Released(ChannelOf[r]) \subseteq Released(ChannelOf[r])'
    BY <1>0, <1>1
  <2> QED BY <1>4, <2>1 DEF TargetsReleased, AimsWell, Released
<1>5. ASSUME UNCHANGED registry, Verifies0, Aims
      PROVE  MarkInductive'
  <2>1. ActiveIsMarked' /\ ReleasedAreOwn'
    BY <1>0, <1>5 DEF registry, ActiveIsMarked, ReleasedAreOwn, Released
  <2>2. FreshAtVerify'
    BY <1>0, <1>5 DEF registry, FreshAtVerify
  <2> QED BY <1>4, <1>5, <2>1, <2>2 DEF MarkInductive
<1>6. \A r \in Run : /\ run[r].target \in Released(ChannelOf[r]) \cup {None}
                     /\ asking[r] \in Released(ChannelOf[r]) \cup {None}
  BY <1>0 DEF TargetsReleased
<1>7. \A t \in Thread : thr[t].pc \in RollingBack => thr[t].run \in Run /\ AimsWell(thr[t])
  BY <1>0 DEF TargetsReleased, At
<1>8. ASSUME NEW r \in Run, Operate(r)
      PROVE  MarkInductive'
  <2>1. UNCHANGED <<registry, thr>>
    BY <1>8 DEF Operate, Steer, CreateRun, Pause, Resume, Approve, Revise, Reject, ResolveRecovery,
       DecideRollback, AskRollback, RequestRollback, Cancel
  <2>2. run[r] \in RunState
    BY <1>0
  <2>3. /\ \A q \in Run \ {r} : run'[q] = run[q] /\ asking'[q] = asking[q]
        /\ run'[r].target \in Released(ChannelOf[r]) \cup {None}
        /\ asking'[r] \in Released(ChannelOf[r]) \cup {None}
        /\ run'[r].node = "verify" =>
             run[r].node = "verify" /\ run'[r].candidate = run[r].candidate
    <3> USE DEF RunState
    <3>1. CASE CreateRun(r)
      BY <1>0, <1>6, <3>1 DEF CreateRun, Absent
    <3>2. CASE Pause(r) \/ Resume(r)
      BY <1>0, <1>6, <2>2, <3>2 DEF Pause, Resume
    <3>3. CASE Approve(r) \/ Revise(r) \/ Reject(r)
      BY <1>0, <1>6, <2>2, <3>3, Routes DEF Approve, Revise, Reject
    <3>4. ASSUME NEW target \in Nameable(ChannelOf[r]) \cup {None}, DecideRollback(r, target)
          PROVE  /\ \A q \in Run \ {r} : run'[q] = run[q] /\ asking'[q] = asking[q]
                 /\ run'[r].target = target /\ asking'[r] = asking[r]
                 /\ run'[r].node # "verify"
      BY <1>0, <2>2, <3>4, Routes DEF DecideRollback
    <3>5. CASE \E target \in Nameable(ChannelOf[r]) \cup {None} : DecideRollback(r, target)
      BY <1>0, <1>2, <1>6, <3>4, <3>5
    <3>6. CASE \E decision \in {"retry", "abort"} : ResolveRecovery(r, decision)
      <4> DEFINE closed == [run[r] EXCEPT !.step = None, !.owner = None, !.reason = "none"]
      <4>1. PICK x \in {[closed EXCEPT !.status = "running"],
                        [closed EXCEPT !.status = "failed", !.node = "done"]} :
              run' = [run EXCEPT ![r] = x] /\ UNCHANGED asking
        BY <3>6 DEF ResolveRecovery
      <4>2. closed \in RunState /\ closed.target = run[r].target
            /\ closed.node = run[r].node /\ closed.candidate = run[r].candidate
        BY <2>2 DEF Reason
      <4> HIDE DEF closed
      <4>3. /\ x.target = run[r].target /\ x.candidate = run[r].candidate
            /\ x.node \in {run[r].node, "done"}
        <5>1. CASE x = [closed EXCEPT !.status = "running"]
          BY <4>2, <5>1 DEF RunState
        <5>2. CASE x = [closed EXCEPT !.status = "failed", !.node = "done"]
          BY <4>2, <5>2 DEF RunState
        <5> QED BY <5>1, <5>2
      <4>4. run'[r] = x /\ \A q \in Run \ {r} : run'[q] = run[q]
        BY <1>0, <4>1
      <4> QED BY <1>6, <4>1, <4>3, <4>4
    <3>7. CASE \E target \in Nameable(ChannelOf[r]) : AskRollback(r, target)
      BY <1>0, <1>2, <1>6, <3>7 DEF AskRollback
    <3>8. CASE RequestRollback(r)
      BY <1>0, <1>6, <2>2, <3>8 DEF RequestRollback
    <3>9. CASE Cancel(r)
      BY <1>0, <1>6, <2>2, <3>9 DEF Cancel
    <3> QED BY <1>8, <3>1, <3>2, <3>3, <3>5, <3>6, <3>7, <3>8, <3>9 DEF Operate, Steer
  <2>4. Aims
    BY <1>6, <1>7, <2>1, <2>3
  <2> QED BY <1>5, <2>1, <2>3, <2>4
<1>9. ASSUME UNCHANGED <<registry, run, asking>>,
             \A t \in Thread : \/ thr'[t] = thr[t]
                               \/ thr'[t].pc \notin RollingBack
      PROVE  MarkInductive'
  BY <1>5, <1>6, <1>7, <1>9

(* A driver's own steps.                                                   *)
<1>10. ASSUME NEW t \in Thread, Drive(t) \/ Abort(t), ~Release(t)
       PROVE  /\ thr[t].run \in Run /\ run[thr[t].run] \in RunState /\ ~At(t, "idle")
              /\ \A q \in Run \ {thr[t].run} : run'[q] = run[q]
              /\ thr'[t].run = thr[t].run /\ \A u \in Thread \ {t} : thr'[u] = thr[u]
              /\ Knows(thr[t], run[thr[t].run])
  <2>1. KeepsRun(t) /\ ~At(t, "idle")
    BY <1>10, DrivingKeepsRun
  <2>2. thr[t].run \in Run /\ Knows(thr[t], run[thr[t].run])
    BY <1>0, <2>1
  <2>3. \A q \in Run \ {thr[t].run} : run'[q] = run[q]
    BY <1>10, <2>2, DriversFit DEF LeaseInductive
  <2> QED BY <1>0, <2>1, <2>2, <2>3 DEF KeepsRun
<1>11. ASSUME NEW t \in Thread, Drive(t) \/ Abort(t), ~Release(t), UNCHANGED asking,
              run'[thr[t].run].target \in Released(ChannelOf[thr[t].run]) \cup {None},
              thr'[t].pc \in RollingBack => AimsWell(thr'[t])
       PROVE  Aims
  BY <1>6, <1>7, <1>10, <1>11
<1>12. ASSUME NEW t \in Thread, Leave(t)
       PROVE  thr'[t].pc = "release"
  BY <1>0, <1>12 DEF Leave, Idle
<1>13. ASSUME NEW t \in Thread, Drive(t), ~Release(t),
              MarkRecoveryRequired(t) \/ PauseAtBoundary(t) \/ RequestHuman(t)
              \/ RecordConflict(t)
       PROVE  MarkInductive'
  <2> DEFINE r == thr[t].run
  <2>1. /\ run'[r].target = run[r].target /\ run'[r].candidate = run[r].candidate
        /\ run'[r].node = "verify" => run[r].node = "verify"
        /\ UNCHANGED <<registry, asking>> /\ Leave(t)
    <3>1. CASE MarkRecoveryRequired(t)
      BY <1>0, <1>10, <1>13, <3>1 DEF MarkRecoveryRequired, RunState
    <3>2. CASE PauseAtBoundary(t)
      BY <1>0, <1>10, <1>13, <3>2 DEF PauseAtBoundary, RunState
    <3>3. CASE RequestHuman(t)
      BY <1>0, <1>10, <1>13, <3>3 DEF RequestHuman, RunState
    <3>4. CASE RecordConflict(t)
      BY <1>0, <1>10, <1>13, <3>4, Routes DEF RecordConflict, RunState
    <3> QED BY <1>13, <3>1, <3>2, <3>3, <3>4
  <2>2. Aims
    BY <1>6, <1>10, <1>11, <1>12, <1>13, <2>1
  <2> QED BY <1>5, <1>10, <1>13, <2>1, <2>2
<1>14. ASSUME NEW t \in Thread, Dispatch(t)
       PROVE  MarkInductive'
  <2> DEFINE r == thr[t].run
  <2>1. UNCHANGED <<registry, run, asking>> /\ Drive(t) /\ ~Release(t)
    BY <1>14 DEF Dispatch, Drive, Release, At
  <2>2. thr'[t].pc \in RollingBack =>
          thr'[t].pc = "rollback_target" /\ thr'[t].held = run[r].target
    <3>1. CASE Leave(t) \/ Goto(t, "pause") \/ Goto(t, "execute") \/ Goto(t, "hitl")
      BY <1>0, <1>12, <3>1 DEF Goto, Driver
    <3>2. CASE ~(Leave(t) \/ Goto(t, "pause") \/ Goto(t, "execute") \/ Goto(t, "hitl"))
      BY <1>0, <1>14, <3>2 DEF Dispatch, Driver
    <3> QED BY <3>1, <3>2
  <2>3. thr'[t].pc \in RollingBack => AimsWell(thr'[t])
    BY <1>6, <1>10, <2>1, <2>2 DEF AimsWell
  <2>4. Aims
    BY <1>6, <1>10, <1>11, <2>1, <2>3
  <2> QED BY <1>5, <2>1, <2>4
<1>15. ASSUME NEW t \in Thread, NEW node \in ExternalNode, BeginExternalStep(t, node)
       PROVE  MarkInductive'
  <2> DEFINE r == thr[t].run
             s == CHOOSE i \in UnusedStep : TRUE
  <2>1. UNCHANGED <<registry, asking>> /\ Drive(t) /\ ~Release(t)
    BY <1>15 DEF BeginExternalStep, Drive, Release, At, ExternalNode
  <2>5. /\ run' = [run EXCEPT ![r].step = s, ![r].owner = WorkerOf[t]]
        /\ thr' = [thr EXCEPT ![t].step = s,
                     ![t].pc = IF node = "execute" THEN "executing" ELSE "verifying"]
    BY <1>15 DEF BeginExternalStep
  <2> HIDE DEF s
  <2>2. /\ run'[r].target = run[r].target /\ run'[r].candidate = run[r].candidate
        /\ run'[r].node = run[r].node
    BY <1>0, <1>10, <2>1, <2>5 DEF RunState
  <2>3. thr'[t].pc \in {"executing", "verifying"}
    BY <1>0, <2>5 DEF Driver
  <2>4. Aims
    BY <1>6, <1>10, <1>11, <2>1, <2>2, <2>3
  <2> QED BY <1>5, <1>10, <2>1, <2>2, <2>4
<1>16. ASSUME NEW t \in Thread, ReadRollbackTarget(t) \/ ReadRollbackFrom(t)
       PROVE  MarkInductive'
  <2> DEFINE r == thr[t].run
  <2>1. UNCHANGED <<registry, run, asking>> /\ Drive(t) /\ ~Release(t)
    BY <1>16 DEF ReadRollbackTarget, ReadRollbackFrom, Drive, Release, At
  <2>2. thr'[t].held \in Released(ChannelOf[r])
    <3>1. CASE ReadRollbackTarget(t)
      BY <1>0, <1>3, <1>7, <1>10, <2>1, <3>1 DEF ReadRollbackTarget, RollbackTarget, AimsWell, At,
         Driver
    <3>2. CASE ReadRollbackFrom(t)
      BY <1>0, <1>7, <3>2 DEF ReadRollbackFrom, AimsWell, At, Driver
    <3> QED BY <1>16, <3>1, <3>2
  <2>3. AimsWell(thr'[t])
    BY <1>10, <2>1, <2>2 DEF AimsWell
  <2>4. Aims
    BY <1>6, <1>10, <1>11, <2>1, <2>3
  <2> QED BY <1>5, <2>1, <2>4
<1>17. ASSUME NEW t \in Thread, ResultCommitted(t)
       PROVE  /\ Aims /\ Drive(t) /\ ~Release(t) /\ OwnsStep(t)
              /\ thr[t].pc \in {"executing", "verifying"}
              /\ ~CompleteExecute(t) => run'[thr[t].run].node # "verify"
  <2> DEFINE r == thr[t].run
  <2>1. /\ Drive(t) /\ ~Release(t) /\ thr[t].pc \in {"executing", "verifying"}
    BY <1>17 DEF ResultCommitted, CompleteExecute, CompleteVerify, FailExternalStep, Drive,
       Release, At
  <2>2. PICK s \in RunState :
          /\ \E outcome : CommitStep(t, s, outcome)
          /\ s.target = run[r].target
          /\ s.node = "verify" => CompleteExecute(t)
    BY <1>10, <1>17, <2>1, ResultsCommit
  <2>3. /\ run' = [run EXCEPT ![r] = AtBoundary(s)] /\ UNCHANGED asking
        /\ Leave(t) \/ thr' = [thr EXCEPT ![t] = [Idle EXCEPT !.pc = "loop", !.run = r]]
        /\ OwnsStep(t)
    BY <2>2 DEF CommitStep
  <2>4. AtBoundary(s).target = s.target /\ AtBoundary(s).node = s.node
    <3>1. PICK status :
            AtBoundary(s) = [s EXCEPT !.status = status, !.pause = FALSE,
                                      !.step = None, !.owner = None]
      BY DEF AtBoundary
    <3> QED BY <3>1 DEF RunState
  <2>5. thr'[t].pc \in {"release", "loop"}
    BY <1>0, <1>12, <2>3 DEF Idle
  <2>6. run'[r] = AtBoundary(s)
    BY <1>0, <1>10, <2>1, <2>3
  <2>7. Aims
    BY <1>6, <1>10, <1>11, <2>1, <2>2, <2>3, <2>4, <2>5, <2>6
  <2> QED BY <2>1, <2>2, <2>3, <2>4, <2>6, <2>7
<1>18. ASSUME NEW t \in Thread, FailExternalStep(t)
       PROVE  MarkInductive'
  <2>1. ~CompleteExecute(t) \/ UNCHANGED registry
    BY <1>18 DEF FailExternalStep
  <2>2. ResultCommitted(t) /\ UNCHANGED registry
    BY <1>18 DEF ResultCommitted, FailExternalStep
  <2>3. ~CompleteExecute(t)
    <3>1. CompleteExecute(t) =>
            \E v \in Version : ~Exists(v) /\ InsertVersion(v, thr[t].run, run[thr[t].run].base)
      BY DEF CompleteExecute, FreeVersion
    <3>2. ASSUME NEW v \in Version, ~Exists(v), NEW base, InsertVersion(v, thr[t].run, base)
          PROVE  FALSE
      BY <1>0, <2>2, <3>2 DEF InsertVersion, registry, Exists, RegistryTypeOK
    <3> QED BY <3>1, <3>2
  <2>4. /\ Aims /\ run'[thr[t].run].node # "verify"
        /\ \A q \in Run \ {thr[t].run} : run'[q] = run[q]
    BY <1>10, <1>17, <2>2, <2>3
  <2> QED BY <1>5, <2>2, <2>4
(* The writes of the registry.                                             *)
<1>19. ASSUME NEW v \in Version, ~Exists(v), NEW q \in Run, NEW base, InsertVersion(v, q, base)
       PROVE  /\ ActiveIsMarked' /\ ReleasedAreOwn'
              /\ ver'[v].status = "candidate"
              /\ \A w \in Version \ {v} : ver'[w] = ver[w]
  <2>1. /\ \A w \in Version \ {v} : ver'[w] = ver[w]
        /\ ver'[v].status = "candidate" /\ ver[v].status = "free"
        /\ UNCHANGED <<active, history>>
    BY <1>0, <1>19 DEF InsertVersion, Exists, RegistryTypeOK
  <2>2. \A c \in Channel : v \notin Released(c)
    BY <1>0, <2>1 DEF ReleasedAreOwn, Shown
  <2>3. ReleasedAreOwn'
    BY <1>0, <2>1, <2>2 DEF ReleasedAreOwn, Released
  <2>4. ActiveIsMarked'
    BY <1>0, <2>1 DEF ActiveIsMarked
  <2> QED BY <2>1, <2>3, <2>4
<1>20. ASSUME NEW t \in Thread, CompleteExecute(t)
       PROVE  MarkInductive'
  <2> DEFINE r == thr[t].run
             v == CHOOSE i \in FreeVersion : TRUE
             s == [run[r] EXCEPT !.node = RouteOf(r).execute.completed,
                                 !.candidate = v, !.reason = "none"]
  <2>1. /\ v \in Version /\ ~Exists(v) /\ InsertVersion(v, r, run[r].base)
        /\ CommitStep(t, s, "completed")
    BY <1>20 DEF CompleteExecute, FreeVersion
  <2> HIDE DEF v
  <2>2. /\ Aims /\ Drive(t) /\ ~Release(t)
    BY <1>17, <1>20 DEF ResultCommitted
  <2>3. r \in Run /\ run[r] \in RunState /\ \A q \in Run \ {r} : run'[q] = run[q]
    BY <1>10, <2>2
  <2>4. run'[r].candidate = v
    <3>1. s \in RunState /\ s.candidate = v
      BY <2>1, <2>3, Routes DEF RunState, NodeName, Reason
    <3>2. run'[r] = AtBoundary(s)
      BY <1>0, <2>1, <2>3 DEF CommitStep
    <3> QED BY <3>1, <3>2, AtBoundaryType
  <2>5. /\ ActiveIsMarked' /\ ReleasedAreOwn' /\ ver'[v].status = "candidate"
        /\ \A w \in Version \ {v} : ver'[w] = ver[w]
    BY <1>19, <2>1, <2>3
  <2>6. FreshAtVerify'
    <3> SUFFICES ASSUME NEW q \in Run, run'[q].node = "verify"
                 PROVE  ver'[run'[q].candidate].status = "candidate"
      BY DEF FreshAtVerify
    <3>1. CASE q = r
      BY <2>4, <2>5, <3>1
    <3>2. CASE q # r
      <4>1. run'[q] = run[q] /\ ver[run[q].candidate].status = "candidate"
        BY <1>0, <2>3, <3>2 DEF FreshAtVerify
      <4>2. Exists(run[q].candidate)
        BY <4>1 DEF Inductive, UnverifiedAtVerify, AtVerify, CandidatesAreOwn
      <4>3. run[q].candidate \in Version \ {v}
        BY <2>1, <4>2 DEF Exists
      <4> QED BY <2>5, <4>1, <4>3
    <3> QED BY <3>1, <3>2
  <2> QED BY <1>4, <2>2, <2>5, <2>6 DEF MarkInductive
(* A run at the verify node has a candidate of its own.                    *)
<1>21. ASSUME NEW q \in Run, run[q].node = "verify"
       PROVE  /\ run[q].candidate \in Version /\ ver[run[q].candidate].run = q
              /\ ver[run[q].candidate].status = "candidate"
  <2>1. run[q].candidate # None /\ ver[run[q].candidate].status = "candidate"
    BY <1>0, <1>21 DEF Inductive, UnverifiedAtVerify, AtVerify, FreshAtVerify
  <2> QED BY <2>1 DEF Inductive, CandidatesAreOwn, Exists
<1>22. ASSUME NEW t \in Thread, NEW passed \in BOOLEAN, CompleteVerify(t, passed)
       PROVE  MarkInductive'
  <2> DEFINE r == thr[t].run
             v == run[r].candidate
  <2>1. /\ Aims /\ Drive(t) /\ ~Release(t) /\ OwnsStep(t) /\ At(t, "verifying")
    BY <1>17, <1>22 DEF ResultCommitted, CompleteVerify
  <2>2. /\ r \in Run /\ run[r] \in RunState /\ Knows(thr[t], run[r])
        /\ \A q \in Run \ {r} : run'[q] = run[q]
    BY <1>10, <2>1
  <2>3. run[r].node = "verify"
    BY <2>1, <2>2 DEF Knows, OwnsStep, At
  <2>4. v \in Version /\ ver[v].run = r /\ ver[v].status = "candidate"
    BY <1>21, <2>2, <2>3
  <2>5. UpdateVersion(v, passed)
    BY <1>22 DEF CompleteVerify
  <2>6. /\ \A w \in Version \ {v} : ver'[w] = ver[w]
        /\ ver'[v].status \in {"validated", "rejected"} /\ ver'[v].run = ver[v].run
        /\ UNCHANGED <<active, history>>
    <3> DEFINE status == IF passed THEN "validated" ELSE "rejected"
               verdict == IF passed THEN "passed" ELSE "failed"
    <3>1. /\ ver' = [ver EXCEPT ![v].status = status, ![v].validation = verdict]
          /\ UNCHANGED <<active, history>>
      BY <2>5 DEF UpdateVersion
    <3>2. status \in {"validated", "rejected"}
      OBVIOUS
    <3> HIDE DEF status, verdict, v
    <3> QED BY <1>0, <2>4, <3>1, <3>2 DEF RegistryTypeOK, VersionState
  <2> HIDE DEF v
  <2>7. \A c \in Channel : v \notin Released(c)
    BY <1>0, <2>4 DEF ReleasedAreOwn, Shown
  <2>8. ReleasedAreOwn'
    BY <1>0, <2>6, <2>7 DEF ReleasedAreOwn, Released
  <2>9. ActiveIsMarked'
    BY <1>0, <2>4, <2>6 DEF ActiveIsMarked
  <2>10. ~CompleteExecute(t)
    BY <2>1 DEF CompleteExecute, At
  <2>11. run'[r].node # "verify"
    BY <1>17, <1>22, <2>10 DEF ResultCommitted
  <2>12. FreshAtVerify'
    <3> SUFFICES ASSUME NEW q \in Run \ {r}, run'[q].node = "verify"
                 PROVE  ver'[run'[q].candidate].status = "candidate"
      BY <2>11 DEF FreshAtVerify
    <3>1. run'[q] = run[q]
      BY <2>2
    <3>2. run[q].candidate \in Version \ {v} /\ ver[run[q].candidate].status = "candidate"
      BY <1>21, <2>4, <3>1
    <3> QED BY <2>6, <3>1, <3>2
  <2> QED BY <1>4, <2>1, <2>8, <2>9, <2>12 DEF MarkInductive
<1>23. ASSUME NEW t \in Thread, Drive(t), ~Release(t), NEW v \in Version,
              NEW demoted \in {"superseded", "rolled_back"}, NEW row, row.version = v,
              MovePointer(ChannelOf[thr[t].run], v, demoted, row),
              ver[v].run \in Run, ChannelOf[ver[v].run] = ChannelOf[thr[t].run],
              ver[v].status # "candidate" \/ ver[v].run = thr[t].run,
              run'[thr[t].run].node # "verify", Aims
       PROVE  MarkInductive'
  <2> DEFINE r == thr[t].run
  <2>1. r \in Run /\ \A q \in Run \ {r} : run'[q] = run[q]
    BY <1>10, <1>23
  <2>2. /\ ActiveIsMarked' /\ ReleasedAreOwn'
        /\ \A w \in Version : w # v /\ ver[w].status = "candidate" => ver'[w] = ver[w]
    BY <1>0, <1>23, <2>1, MarkMoves
  <2>3. FreshAtVerify'
    <3> SUFFICES ASSUME NEW q \in Run \ {r}, run'[q].node = "verify"
                 PROVE  ver'[run'[q].candidate].status = "candidate"
      BY <1>23 DEF FreshAtVerify
    <3>1. run'[q] = run[q]
      BY <2>1
    <3>2. /\ run[q].candidate \in Version /\ ver[run[q].candidate].run = q
          /\ ver[run[q].candidate].status = "candidate"
      BY <1>21, <3>1
    <3>3. run[q].candidate # v
      BY <1>23, <3>2
    <3> QED BY <2>2, <3>1, <3>2, <3>3
  <2> QED BY <1>4, <1>23, <2>2, <2>3 DEF MarkInductive
<1>24. ASSUME NEW t \in Thread, PromoteCandidate(t)
       PROVE  MarkInductive'
  <2> DEFINE r == thr[t].run
             v == thr[t].held
             row == PromotionRow(ChannelOf[r], v, run[r].base, r)
  <2>1. Drive(t) /\ ~Release(t) /\ At(t, "promote")
    BY <1>24 DEF PromoteCandidate, Drive, Release, At
  <2>2. r \in Run /\ run[r] \in RunState /\ Knows(thr[t], run[r])
    BY <1>10, <2>1
  <2>3. Exists(v) /\ ver[v].run = r
    BY <2>1 DEF Inductive, PromotableIsGated
  <2>4. MovePointer(ChannelOf[r], v, "superseded", row) /\ row.version = v
    BY <1>24 DEF PromoteCandidate, Promote, PromotionRow
  <2>5. run'[r].node # "verify" /\ run'[r].target = run[r].target /\ UNCHANGED asking /\ Leave(t)
    BY <1>0, <1>24, <2>2, Routes DEF PromoteCandidate, RunState
  <2>6. Aims
    BY <1>6, <1>11, <1>12, <2>1, <2>2, <2>5
  <2>7. v \in Version
    BY <2>3 DEF Exists
  <2> HIDE DEF row
  <2> QED BY <1>23, <2>1, <2>2, <2>3, <2>4, <2>5, <2>6, <2>7
<1>25. ASSUME NEW t \in Thread, CommitRollback(t)
       PROVE  MarkInductive'
  <2> DEFINE r == thr[t].run
             v == thr[t].held
             row == [action |-> "rollback", version |-> v, previous |-> active[ChannelOf[r]],
                     run |-> r, reported |-> thr[t].from]
  <2>1. Drive(t) /\ ~Release(t) /\ At(t, "rollback_commit")
    BY <1>25 DEF CommitRollback, Drive, Release, At
  <2>2. r \in Run /\ run[r] \in RunState
    BY <1>10, <2>1
  <2>3. v \in Released(ChannelOf[r])
    BY <1>7, <2>1 DEF AimsWell, At
  <2>4. MovePointer(ChannelOf[r], v, "rolled_back", row) /\ row.version = v
    BY <1>25 DEF CommitRollback, Rollback
  <2>5. run'[r].node # "verify" /\ run'[r].target = v /\ UNCHANGED asking /\ Leave(t)
    BY <1>0, <1>25, <2>2, Routes DEF CommitRollback, RunState
  <2>6. Aims
    BY <1>11, <1>12, <2>1, <2>3, <2>5
  <2>7. /\ v \in Version /\ ver[v].run \in Run /\ ChannelOf[ver[v].run] = ChannelOf[r]
        /\ ver[v].status # "candidate"
    BY <1>0, <2>2, <2>3 DEF ReleasedAreOwn, Shown
  <2> HIDE DEF row
  <2> QED BY <1>23, <2>1, <2>2, <2>4, <2>5, <2>6, <2>7

(* The rest of Next.                                                       *)
<1>26. ASSUME NEW t \in Thread, Drive(t) \/ Abort(t), Leave(t),
              UNCHANGED <<registry, run, asking>>
       PROVE  MarkInductive'
  <2>1. \A u \in Thread \ {t} : thr'[u] = thr[u]
    BY <1>0, <1>26 DEF Leave
  <2> QED BY <1>9, <1>12, <1>26, <2>1
<1>27. ASSUME NEW t \in Thread, NEW pc \in Pc \ RollingBack,
              Goto(t, pc), UNCHANGED <<registry, run, asking>>
       PROVE  MarkInductive'
  <2>1. /\ \A u \in Thread \ {t} : thr'[u] = thr[u]
        /\ thr'[t].pc = pc
    BY <1>0, <1>27 DEF Goto, Driver
  <2> QED BY <1>9, <1>27, <2>1
<1>28. ASSUME NEW t \in Thread, Drive(t)
       PROVE  MarkInductive'
  <2>1. CASE Restore(t)
    BY <1>27, <2>1 DEF Restore, Pc
  <2>2. CASE PromotionConflict(t)
    BY <1>27, <2>2 DEF PromotionConflict, Pc
  <2>3. CASE Raise(t)
    BY <1>26, <1>28, <2>3 DEF Raise
  <2>4. CASE Release(t)
    <3>1. /\ \A u \in Thread : thr'[u] = thr[u] \/ thr'[u].pc = "idle"
          /\ UNCHANGED <<registry, run, asking>>
      BY <1>0, <2>4 DEF Release, Idle
    <3> QED BY <1>9, <3>1
  <2>5. CASE (MarkRecoveryRequired(t) \/ PauseAtBoundary(t) \/ RequestHuman(t)
             \/ RecordConflict(t)) /\ ~Release(t)
    BY <1>13, <1>28, <2>5
  <2>6. CASE ReadRollbackTarget(t) \/ ReadRollbackFrom(t)
    BY <1>16, <2>6
  <2> QED
    BY <1>14, <1>15, <1>18, <1>20, <1>22, <1>24, <1>25, <1>28, <2>1, <2>2, <2>3, <2>4, <2>5, <2>6
    DEF Drive
<1>29. ASSUME NEW t \in Thread, Abort(t)
       PROVE  MarkInductive'
  BY <1>26, <1>29 DEF Abort
<1>30. ASSUME NEW t \in Thread, NEW r \in Run, Acquire(t, r)
       PROVE  MarkInductive'
  <2>1. /\ \A u \in Thread : thr'[u] = thr[u] \/ thr'[u].pc = "restore"
        /\ UNCHANGED <<registry, run, asking>>
    BY <1>0, <1>30 DEF Acquire, Idle
  <2> QED BY <1>9, <2>1
<1>31. ASSUME NEW w \in Worker, Crash(w)
       PROVE  MarkInductive'
  <2>1. /\ \A u \in Thread : thr'[u] = thr[u] \/ thr'[u].pc = "idle"
        /\ UNCHANGED <<registry, run, asking>>
    BY <1>31 DEF Crash, Idle
  <2> QED BY <1>9, <2>1
<1>32. ASSUME (\E t \in Thread : Heartbeat(t)) \/ (\E r \in Run : LeaseLapse(r)) \/ UNCHANGED vars
       PROVE  MarkInductive'
  <2>1. UNCHANGED <<registry, run, asking>> /\ UNCHANGED thr
    BY <1>32 DEF Heartbeat, LeaseLapse, vars
  <2> QED BY <1>9, <2>1
<1> QED
  BY <1>8, <1>28, <1>29, <1>30, <1>31, <1>32 DEF Next

LEMMA MarkInitially ==
  ASSUME RegistryAssumption, Init
  PROVE  MarkInductive
BY DEF Init, RegistryInit, RegistryAssumption, MarkInductive, ActiveIsMarked, ReleasedAreOwn, Released,
   FreshAtVerify, TargetsReleased, AimsWell, RollingBack, Absent, Idle, At

------------------------------------------------------------------------------
(* The version a channel points to is the one marked active (storage.py,   *)
(* _promote, _rollback and _update_version).                               *)
THEOREM ActiveVersionsAreMarked ==
  ASSUME LeaseHonoured, ~AnyTarget
  PROVE  Spec => []ActiveIsMarked
<1>1. Init => MarkInductive
  BY MarkInitially, RegistryAssumption
<1>2. TypeOK /\ TypeOK' /\ Inductive /\ LeaseInductive /\ HistoryChain /\ MarkInductive
        /\ [RegistryNext]_registry /\ [Next]_vars => MarkInductive'
  BY LeaseHonoured, ~AnyTarget, MarkSteps, SupervisorAssumption, RegistryAssumption
<1>3. MarkInductive => ActiveIsMarked
  BY DEF MarkInductive
<1>4. Spec => [](TypeOK /\ Inductive /\ LeaseInductive)
  BY LeaseHonoured, LeaseInvariant
<1> QED BY <1>1, <1>2, <1>3, <1>4, Implements, ReleaseHistory, PTL DEF Spec, RegistrySpec
------------------------------------------------------------------------------
(* What a promotion replaces: a candidate that is verified or put up is    *)
(* made on its run's base, or a human approved it; and so is the one that  *)
(* a driver has read for _promote.                                         *)
Fresh(v, base) == Exists(v) /\ (ver[v].madeOn = base \/ v \in approved)

PutUpFresh ==
  /\ \A r \in Run : run[r].node \in {"verify", "promote"} /\ run[r].candidate # None =>
       Fresh(run[r].candidate, run[r].base)
  /\ \A t \in Thread : At(t, "promote") => Fresh(thr[t].held, run[thr[t].run].base)

FreshInductive == PutUpFresh /\ UnapprovedReleasesAreFresh

(* A command bases a run anew only when nobody is about to promote from it.*)
LEMMA CommandsRebase ==
  ASSUME TypeOK, Inductive, NEW r \in Run, Operate(r)
  PROVE  /\ run'[r].base = run[r].base \/ ~Created(r) \/ Awaiting(r)
         /\ approved \subseteq approved'
         /\ run'[r].node \in {"verify", "promote"} =>
              /\ run'[r].candidate = run[r].candidate
              /\ \/ run[r].node = run'[r].node /\ run'[r].base = run[r].base
                 \/ run[r].candidate # None => run[r].candidate \in approved'
<1>0. run[r] \in RunState /\ run \in [Run -> RunState]
  BY DEF TypeOK
<1> USE DEF RunState
<1>1. CASE CreateRun(r)
  BY <1>0, <1>1 DEF CreateRun, Absent
<1>2. CASE Approve(r)
  BY <1>0, <1>2, Routes DEF Approve
<1>3. CASE Revise(r)
  BY <1>0, <1>3, Routes DEF Revise
<1>4. CASE Pause(r) \/ Resume(r) \/ Reject(r) \/ Cancel(r)
  BY <1>0, <1>4 DEF Pause, Resume, Reject, Cancel
<1>5. CASE \E target \in Nameable(ChannelOf[r]) \cup {None} : DecideRollback(r, target)
  BY <1>0, <1>5, Routes DEF DecideRollback
<1>6. CASE \E decision \in {"retry", "abort"} : ResolveRecovery(r, decision)
  <2> DEFINE closed == [run[r] EXCEPT !.step = None, !.owner = None, !.reason = "none"]
  <2>1. PICK x \in {[closed EXCEPT !.status = "running"],
                    [closed EXCEPT !.status = "failed", !.node = "done"]} :
          run' = [run EXCEPT ![r] = x] /\ UNCHANGED approved
    BY <1>6 DEF ResolveRecovery
  <2>2. closed \in RunState /\ closed.base = run[r].base
        /\ closed.node = run[r].node /\ closed.candidate = run[r].candidate
    BY <1>0 DEF Reason
  <2> HIDE DEF closed
  <2>3. /\ x.base = run[r].base /\ x.candidate = run[r].candidate
        /\ x.node \in {run[r].node, "done"}
    BY <2>2
  <2>4. run'[r] = x
    BY <1>0, <2>1
  <2> QED BY <2>1, <2>3, <2>4
<1>7. CASE \E target \in Nameable(ChannelOf[r]) : AskRollback(r, target)
  BY <1>7 DEF AskRollback
<1>8. CASE RequestRollback(r)
  BY <1>0, <1>8 DEF RequestRollback
<1> QED BY <1>1, <1>2, <1>3, <1>4, <1>5, <1>6, <1>7, <1>8 DEF Operate, Steer

(* The completed call brings a new version, made on the run's base.        *)
LEMMA ExecuteCompletes ==
  ASSUME TypeOK, NEW t \in Thread, NEW r \in Run, thr[t].run = r, CompleteExecute(t)
  PROVE  \E v \in Version, s \in RunState :
           /\ ~Exists(v) /\ InsertVersion(v, r, run[r].base) /\ CommitStep(t, s, "completed")
           /\ s.candidate = v /\ s.base = run[r].base
<1> DEFINE v == CHOOSE i \in FreeVersion : TRUE
           s == [run[r] EXCEPT !.node = RouteOf(r).execute.completed,
                               !.candidate = v, !.reason = "none"]
<1>1. /\ v \in Version /\ ~Exists(v) /\ InsertVersion(v, r, run[r].base)
      /\ CommitStep(t, s, "completed")
  BY DEF CompleteExecute, FreeVersion
<1> HIDE DEF v
<1>2. RouteOf(r).execute.completed = "verify"
  BY Routes
<1>3. s = [run[r] EXCEPT !.node = "verify", !.candidate = v, !.reason = "none"]
  BY <1>2
<1> HIDE DEF s
<1>4. run[r] \in RunState
  BY DEF TypeOK
<1>5. s.candidate = v /\ s.base = run[r].base
  BY <1>3, <1>4 DEF RunState
<1>6. s \in RunState
  <2>1. ASSUME NEW w \in Version
        PROVE  [run[r] EXCEPT !.node = "verify", !.candidate = w, !.reason = "none"] \in RunState
    BY <1>4 DEF RunState, NodeName, Reason
  <2> QED BY <1>1, <1>3, <2>1
<1> QED BY <1>1, <1>5, <1>6

(* What a driver does to the base and the candidate of its run.            *)
LEMMA DriversRebase ==
  ASSUME SupervisorAssumption, TypeOK, TypeOK', NEW t \in Thread, Drive(t) \/ Abort(t), ~Release(t),
         NEW r \in Run, thr[t].run = r, Knows(thr[t], run[r])
  PROVE  /\ UNCHANGED approved
         /\ ~PromoteCandidate(t) /\ thr'[t].pc = "promote" =>
              Dispatch(t) /\ thr'[t].held = run[r].candidate /\ run[r].node = "promote"
              /\ run[r].candidate # None
         /\ run'[r].node \in {"verify", "promote"} =>
              /\ run'[r].base = run[r].base
              /\ \/ run[r].node \in {"verify", "promote"}
                    /\ run'[r].candidate = run[r].candidate
                 \/ CompleteExecute(t)
<1>0. /\ run[r] \in RunState /\ run \in [Run -> RunState]
      /\ thr[t] \in Driver /\ thr \in [Thread -> Driver]
  BY DEF TypeOK
<1>1. Leave(t) => thr'[t].pc = "release"
  BY <1>0 DEF Leave, Idle
<1>2. CASE \/ MarkRecoveryRequired(t) \/ PauseAtBoundary(t) \/ RequestHuman(t) \/ RecordConflict(t)
           \/ PromoteCandidate(t) \/ CommitRollback(t) \/ Raise(t) \/ Abort(t)
  <2>1. thr'[t].pc = "release" /\ UNCHANGED approved
    BY <1>1, <1>2 DEF MarkRecoveryRequired, PauseAtBoundary, RequestHuman, RecordConflict,
       PromoteCandidate, CommitRollback, Raise, Abort
  <2>2. \/ run'[r].node \notin {"verify", "promote"}
        \/ /\ run'[r].node = run[r].node /\ run'[r].base = run[r].base
           /\ run'[r].candidate = run[r].candidate
    BY <1>0, <1>2, Routes DEF MarkRecoveryRequired, PauseAtBoundary, RequestHuman, RecordConflict,
       PromoteCandidate, CommitRollback, Raise, Abort, RunState
  <2> QED BY <2>1, <2>2
<1>3. CASE \/ Restore(t) \/ PromotionConflict(t) \/ ReadRollbackTarget(t) \/ ReadRollbackFrom(t)
  BY <1>0, <1>3 DEF Restore, PromotionConflict, ReadRollbackTarget, ReadRollbackFrom, Goto, Driver
<1>4. CASE Dispatch(t)
  <2>1. CASE Leave(t) \/ Goto(t, "pause") \/ Goto(t, "execute") \/ Goto(t, "hitl")
    BY <1>0, <1>1, <1>4, <2>1 DEF Dispatch, Goto, Driver
  <2>2. CASE ~(Leave(t) \/ Goto(t, "pause") \/ Goto(t, "execute") \/ Goto(t, "hitl"))
    BY <1>0, <1>4, <2>2 DEF Dispatch, Driver
  <2> QED BY <2>1, <2>2
<1>5. CASE \E node \in ExternalNode : BeginExternalStep(t, node)
  <2>1. thr'[t].pc \in {"executing", "verifying"} /\ UNCHANGED approved
    BY <1>0, <1>5 DEF BeginExternalStep, Driver
  <2>2. \E s : run' = [run EXCEPT ![r].step = s, ![r].owner = WorkerOf[t]]
    <3> DEFINE s == CHOOSE i \in UnusedStep : TRUE
    <3>1. run' = [run EXCEPT ![r].step = s, ![r].owner = WorkerOf[t]]
      BY <1>5 DEF BeginExternalStep
    <3> HIDE DEF s
    <3> QED BY <3>1
  <2>3. /\ run'[r].node = run[r].node /\ run'[r].base = run[r].base
        /\ run'[r].candidate = run[r].candidate
    BY <1>0, <2>2 DEF RunState
  <2> QED BY <2>1, <2>3
<1>6. CASE ResultCommitted(t)
  <2>1. PICK s, outcome : /\ CommitStep(t, s, outcome)
                          /\ s \in RunState /\ s.base = run[r].base
                          /\ \/ s.node \notin {"verify", "promote"}
                             \/ CompleteExecute(t)
                             \/ /\ s.node = "promote" /\ s.candidate = run[r].candidate
                                /\ At(t, "verifying")
    <3>1. ASSUME NEW node \in ExternalNode
          PROVE  /\ AfterFailure(r, node) \in RunState /\ AfterFailure(r, node).base = run[r].base
                 /\ AfterFailure(r, node).node \notin {"verify", "promote"}
      <4>1. /\ AfterFailure(r, node) \in RunState
            /\ AfterFailure(r, node).node \in {"execute", "hitl"}
        BY <1>0, AfterFailureType
      <4>2. AfterFailure(r, node).base = run[r].base
        BY <1>0, <4>1 DEF AfterFailure, RunState
      <4> QED BY <4>1, <4>2
    <3>2. CASE FailExternalStep(t)
      BY <3>1, <3>2 DEF FailExternalStep, ExternalNode
    <3>3. CASE CompleteExecute(t)
      BY <3>3, ExecuteCompletes
    <3>4. ASSUME NEW passed \in BOOLEAN, CompleteVerify(t, passed)
          PROVE  \E s, outcome : /\ CommitStep(t, s, outcome)
                                 /\ s \in RunState /\ s.base = run[r].base
                                 /\ \/ s.node \notin {"verify", "promote"}
                                    \/ s.node = "promote" /\ s.candidate = run[r].candidate
      <4> DEFINE next == RouteOf(r).verify.passed
                 why == IF next = "hitl" THEN "approval_required" ELSE "none"
                 good == [run[r] EXCEPT !.node = next, !.reason = why]
                 s == IF passed THEN good ELSE AfterFailure(r, "verify")
      <4>1. next \in {"hitl", "promote"} /\ next \in NodeName /\ why \in Reason
        BY Routes DEF NodeName, Reason
      <4>2. CommitStep(t, s, "completed")
        BY <3>4 DEF CompleteVerify
      <4> HIDE DEF next, why
      <4>3. /\ good \in RunState /\ good.base = run[r].base /\ good.node = next
            /\ good.candidate = run[r].candidate
        BY <1>0, <4>1 DEF RunState
      <4> HIDE DEF good
      <4>4. CASE passed
        BY <4>1, <4>2, <4>3, <4>4
      <4>5. CASE ~passed
        BY <3>1, <4>2, <4>5 DEF ExternalNode
      <4> QED BY <4>4, <4>5
    <3> QED BY <1>6, <3>2, <3>3, <3>4 DEF ResultCommitted, CompleteVerify
  <2>2. /\ run' = [run EXCEPT ![r] = AtBoundary(s)] /\ OwnsStep(t) /\ UNCHANGED approved
        /\ Leave(t) \/ thr' = [thr EXCEPT ![t] = [Idle EXCEPT !.pc = "loop", !.run = r]]
    BY <2>1 DEF CommitStep
  <2>3. thr'[t].pc \in {"release", "loop"}
    BY <1>0, <1>1, <2>2 DEF Idle
  <2>4. run'[r] = AtBoundary(s)
    BY <1>0, <2>2
  <2>5. AtBoundary(s).node = s.node /\ AtBoundary(s).candidate = s.candidate
    BY <2>1, AtBoundaryType
  <2>6. AtBoundary(s).base = s.base
    <3>1. PICK status :
            AtBoundary(s) = [s EXCEPT !.status = status, !.pause = FALSE,
                                      !.step = None, !.owner = None]
      BY DEF AtBoundary
    <3> QED BY <2>1, <3>1 DEF RunState
  <2>7. At(t, "verifying") => run[r].node = "verify"
    BY <2>2 DEF Knows, OwnsStep, At
  <2> QED BY <2>1, <2>2, <2>3, <2>4, <2>5, <2>6, <2>7
<1> QED BY <1>2, <1>3, <1>4, <1>5, <1>6 DEF Drive, ResultCommitted

LEMMA FreshSteps ==
  ASSUME SupervisorAssumption, RegistryAssumption, TypeOK, TypeOK', Inductive, LeaseInductive,
         Settled, LateDrivers, ReleasesAreOwn, FreshInductive,
         [RegistryNext]_registry, [Next]_vars
  PROVE  FreshInductive'
<1>0. /\ run \in [Run -> RunState] /\ thr \in [Thread -> Driver] /\ RegistryTypeOK
      /\ \A r \in Run : Fits(run[r])
      /\ \A t \in Thread : ~At(t, "idle") =>
           thr[t].run \in Run /\ Created(thr[t].run) /\ Knows(thr[t], run[thr[t].run])
      /\ \A t \in Thread : At(t, "promote") =>
           Exists(thr[t].held) /\ run[thr[t].run].status \in MayBeDriven
      /\ [Next]_vars /\ RestingRunsHaveNoStep
  BY DEF TypeOK, Inductive, DriversHaveRuns, PromotableIsGated, LeaseInductive, Settled,
     LateDrivers, OnTheWay, Writing, At
<1>1. \A v \in Version : Exists(v) => Exists(v)' /\ ver'[v].madeOn = ver[v].madeOn
  BY <1>0, VersionsStay

(* A version stays fresh as long as the base is the same.                  *)
<1> DEFINE Stays(v, b) == /\ v \in Version /\ ver'[v].status # "free"
                          /\ ver'[v].madeOn = b \/ v \in approved'
           RunOK(r) == run'[r].node \in {"verify", "promote"} /\ run'[r].candidate # None =>
                         Stays(run'[r].candidate, run'[r].base)
           DriverOK(t) == thr'[t].pc = "promote" => Stays(thr'[t].held, run'[thr'[t].run].base)
           RowsOK == UnapprovedReleasesAreFresh'
<1>2. ASSUME NEW v, NEW b, Fresh(v, b), approved \subseteq approved'
      PROVE  Stays(v, b)
  <2>1. v \in Version
    BY <1>2 DEF Fresh, Exists
  <2> QED BY <1>1, <1>2, <2>1 DEF Fresh, Exists
<1>3. ASSUME NEW r \in Run, run'[r] = run[r], approved \subseteq approved'
      PROVE  RunOK(r)
  <2> SUFFICES ASSUME run[r].node \in {"verify", "promote"}, run[r].candidate # None
               PROVE  Stays(run[r].candidate, run[r].base)
    BY <1>3
  <2>1. Fresh(run[r].candidate, run[r].base)
    BY DEF FreshInductive, PutUpFresh
  <2> QED BY <1>2, <1>3, <2>1
<1>4. ASSUME NEW t \in Thread, thr'[t] = thr[t], approved \subseteq approved',
             At(t, "promote") => run'[thr[t].run].base = run[thr[t].run].base
      PROVE  DriverOK(t)
  <2> SUFFICES ASSUME At(t, "promote")
               PROVE  Stays(thr[t].held, run[thr[t].run].base)
    BY <1>4 DEF At
  <2>1. Fresh(thr[t].held, run[thr[t].run].base)
    BY DEF FreshInductive, PutUpFresh
  <2> QED BY <1>2, <1>4, <2>1
<1>5. ASSUME NEW c \in Channel, NEW i \in DOMAIN history[c], approved \subseteq approved'
      PROVE  LET row == history[c][i] IN
             row.action = "promote" => row.previous = ver'[row.version].madeOn
                                       \/ row.version \in approved'
  <2>1. Exists(history[c][i].version) /\ history[c][i].version \in Version
    BY DEF ReleasesAreOwn, Exists
  <2>2. ver'[history[c][i].version].madeOn = ver[history[c][i].version].madeOn
    BY <1>1, <2>1
  <2> QED BY <1>5, <2>2 DEF FreshInductive, UnapprovedReleasesAreFresh
<1>6. ASSUME UNCHANGED history, approved \subseteq approved'
      PROVE  RowsOK
  BY <1>5, <1>6 DEF UnapprovedReleasesAreFresh
<1>7. ASSUME \A r \in Run : RunOK(r), \A t \in Thread : DriverOK(t), RowsOK
      PROVE  FreshInductive'
  BY <1>7 DEF FreshInductive, PutUpFresh, Fresh, Exists, At
<1> HIDE DEF RunOK, DriverOK, RowsOK

<1>8. ASSUME UNCHANGED <<run, approved, history>>,
             \A t \in Thread : thr'[t] = thr[t] \/ thr'[t].pc # "promote"
      PROVE  FreshInductive'
  <2>1. \A t \in Thread : DriverOK(t)
    BY <1>4, <1>8 DEF DriverOK
  <2> QED BY <1>3, <1>6, <1>7, <1>8, <2>1
<1>9. ASSUME NEW r \in Run, Operate(r)
      PROVE  FreshInductive'
  <2>1. UNCHANGED thr /\ \A q \in Run \ {r} : run'[q] = run[q]
    BY <1>0, <1>9, CommandsFit
  <2>2. /\ run'[r].base = run[r].base \/ ~Created(r) \/ Awaiting(r)
        /\ approved \subseteq approved'
        /\ run'[r].node \in {"verify", "promote"} =>
             /\ run'[r].candidate = run[r].candidate
             /\ \/ run[r].node = run'[r].node /\ run'[r].base = run[r].base
                \/ run[r].candidate # None => run[r].candidate \in approved'
    BY <1>9, CommandsRebase
  <2>3. UNCHANGED history
    BY <1>9 DEF Operate, Steer, CreateRun, Pause, Resume, Approve, Revise, Reject, ResolveRecovery,
       DecideRollback, AskRollback, RequestRollback, Cancel, registry
  <2>4. RunOK(r)
    <3> SUFFICES ASSUME run'[r].node \in {"verify", "promote"}, run'[r].candidate # None
                 PROVE  Stays(run'[r].candidate, run'[r].base)
      BY DEF RunOK
    <3>1. CASE run[r].node = run'[r].node /\ run'[r].base = run[r].base
      <4>1. Fresh(run[r].candidate, run[r].base) /\ run'[r].candidate = run[r].candidate
        BY <2>2, <3>1 DEF FreshInductive, PutUpFresh
      <4> QED BY <1>2, <2>2, <3>1, <4>1
    <3>2. CASE run[r].candidate \in approved'
      <4>1. Exists(run[r].candidate) /\ run'[r].candidate = run[r].candidate
        BY <2>2 DEF Inductive, CandidatesAreOwn
      <4>2. Exists(run[r].candidate)'
        BY <1>1, <4>1 DEF Exists
      <4> QED BY <3>2, <4>1, <4>2 DEF Exists
    <3> QED BY <2>2, <3>1, <3>2
  <2>5. ASSUME NEW t \in Thread
        PROVE  DriverOK(t)
    <3>1. At(t, "promote") /\ thr[t].run = r => Created(r) /\ ~Awaiting(r)
      BY <1>0 DEF Awaiting, MayBeDriven, At
    <3>2. At(t, "promote") => thr[t].run \in Run
      BY <1>0 DEF At
    <3> QED BY <1>4, <2>1, <2>2, <3>1, <3>2
  <2> QED BY <1>3, <1>6, <1>7, <2>1, <2>2, <2>3, <2>4, <2>5
<1>10. ASSUME NEW t \in Thread, Drive(t) \/ Abort(t), ~Release(t)
       PROVE  FreshInductive'
  <2> DEFINE r == thr[t].run
  <2>1. /\ ~At(t, "idle") /\ r \in Run /\ \A u \in Thread \ {t} : thr'[u] = thr[u]
        /\ thr'[t].run = r
    BY <1>0, <1>10, DrivingKeepsRun DEF KeepsRun
  <2>2. \A q \in Run \ {r} : run'[q] = run[q]
    BY <1>0, <1>10, <2>1, DriversFit
  <2>3. /\ UNCHANGED approved
        /\ ~PromoteCandidate(t) /\ thr'[t].pc = "promote" =>
             Dispatch(t) /\ thr'[t].held = run[r].candidate /\ run[r].node = "promote"
             /\ run[r].candidate # None
        /\ run'[r].node \in {"verify", "promote"} =>
             /\ run'[r].base = run[r].base
             /\ \/ run[r].node \in {"verify", "promote"}
                   /\ run'[r].candidate = run[r].candidate
                \/ CompleteExecute(t)
    BY <1>0, <1>10, <2>1, DriversRebase
  <2>4. RunOK(r)
    <3> SUFFICES ASSUME run'[r].node \in {"verify", "promote"}, run'[r].candidate # None
                 PROVE  Stays(run'[r].candidate, run'[r].base)
      BY DEF RunOK
    <3>1. CASE /\ run[r].node \in {"verify", "promote"}
               /\ run'[r].candidate = run[r].candidate
      <4>1. Fresh(run[r].candidate, run[r].base) /\ run'[r].base = run[r].base
        BY <2>1, <2>3, <3>1 DEF FreshInductive, PutUpFresh
      <4> QED BY <1>2, <2>3, <3>1, <4>1
    <3>2. CASE CompleteExecute(t)
      <4>1. PICK v \in Version, s \in RunState :
              /\ InsertVersion(v, r, run[r].base) /\ CommitStep(t, s, "completed")
              /\ s.candidate = v
        BY <2>1, <3>2, ExecuteCompletes
      <4>2. run'[r].candidate = v
        BY <1>0, <2>1, <4>1, AtBoundaryType DEF CommitStep
      <4>3. ver'[v].status = "candidate" /\ ver'[v].madeOn = run[r].base
        BY <1>0, <4>1 DEF InsertVersion, RegistryTypeOK
      <4> QED BY <2>3, <4>2, <4>3
    <3> QED BY <2>3, <3>1, <3>2
  <2>5. ASSUME NEW u \in Thread \ {t}
        PROVE  DriverOK(u)
    <3>1. At(u, "promote") => thr[u].run \in Run \ {r}
      BY <1>0, <2>1 DEF At, LeaseInductive, OneDriver
    <3> QED BY <1>4, <2>1, <2>2, <2>3, <3>1
  <2>6. CASE PromoteCandidate(t)
    <3> DEFINE v == thr[t].held
               row == PromotionRow(ChannelOf[r], v, run[r].base, r)
    <3>1. /\ At(t, "promote") /\ active[ChannelOf[r]] = run[r].base
          /\ history' = [history EXCEPT ![ChannelOf[r]] = Append(@, row)]
      BY <2>6 DEF PromoteCandidate, Promote, CasHolds, MovePointer
    <3>2. Fresh(v, run[r].base)
      BY <3>1 DEF FreshInductive, PutUpFresh
    <3>3. Stays(v, run[r].base)
      BY <1>2, <2>3, <3>2
    <3>4. row.version = v /\ row.previous = run[r].base
      BY <3>1 DEF PromotionRow
    <3> HIDE DEF row, v
    <3>5. RowsOK
      <4> SUFFICES ASSUME NEW c \in Channel, NEW i \in DOMAIN history'[c],
                          history'[c][i].action = "promote"
                   PROVE  \/ history'[c][i].previous = ver'[history'[c][i].version].madeOn
                          \/ history'[c][i].version \in approved'
        BY DEF RowsOK, UnapprovedReleasesAreFresh
      <4>1. history[c] \in Seq(Row) /\ history \in [Channel -> Seq(Row)]
        BY <1>0 DEF RegistryTypeOK
      <4>2. \/ i \in DOMAIN history[c] /\ history'[c][i] = history[c][i]
            \/ history'[c][i] = row
        <5>1. CASE c = ChannelOf[r]
          BY <3>1, <4>1, <5>1
        <5>2. CASE c # ChannelOf[r]
          BY <3>1, <4>1, <5>2
        <5> QED BY <5>1, <5>2
      <4> QED BY <1>5, <2>3, <3>3, <3>4, <4>2
    <3>6. DriverOK(t)
      BY <1>0, <2>6 DEF PromoteCandidate, Leave, Idle, DriverOK
    <3> QED BY <1>3, <1>7, <2>2, <2>3, <2>4, <2>5, <3>5, <3>6
  <2>7. CASE CommitRollback(t)
    <3> DEFINE row == [action |-> "rollback", version |-> thr[t].held,
                       previous |-> active[ChannelOf[r]], run |-> r, reported |-> thr[t].from]
    <3>1. history' = [history EXCEPT ![ChannelOf[r]] = Append(@, row)]
      BY <2>7 DEF CommitRollback, Rollback, MovePointer
    <3>2. row.action = "rollback"
      OBVIOUS
    <3> HIDE DEF row
    <3>5. RowsOK
      <4> SUFFICES ASSUME NEW c \in Channel, NEW i \in DOMAIN history'[c],
                          history'[c][i].action = "promote"
                   PROVE  \/ history'[c][i].previous = ver'[history'[c][i].version].madeOn
                          \/ history'[c][i].version \in approved'
        BY DEF RowsOK, UnapprovedReleasesAreFresh
      <4>1. history[c] \in Seq(Row) /\ history \in [Channel -> Seq(Row)]
        BY <1>0 DEF RegistryTypeOK
      <4>2. \/ i \in DOMAIN history[c] /\ history'[c][i] = history[c][i]
            \/ history'[c][i] = row
        <5>1. CASE c = ChannelOf[r]
          BY <3>1, <4>1, <5>1
        <5>2. CASE c # ChannelOf[r]
          BY <3>1, <4>1, <5>2
        <5> QED BY <5>1, <5>2
      <4> QED BY <1>5, <2>3, <3>2, <4>2
    <3>6. DriverOK(t)
      BY <1>0, <2>7 DEF CommitRollback, Leave, Idle, DriverOK
    <3> QED BY <1>3, <1>7, <2>2, <2>3, <2>4, <2>5, <3>5, <3>6
  <2>8. CASE ~PromoteCandidate(t) /\ ~CommitRollback(t)
    <3>1. UNCHANGED history
      BY <1>10, <2>8 DEF Drive, Restore, MarkRecoveryRequired, Dispatch, PauseAtBoundary,
         BeginExternalStep, CompleteExecute, CompleteVerify, InsertVersion, UpdateVersion,
         FailExternalStep, RequestHuman, PromotionConflict, RecordConflict, ReadRollbackTarget,
         ReadRollbackFrom, Raise, Abort, registry
    <3>2. DriverOK(t)
      <4> SUFFICES ASSUME thr'[t].pc = "promote"
                   PROVE  Stays(run[r].candidate, run'[r].base)
        BY <2>1, <2>3, <2>8 DEF DriverOK
      <4>1. Dispatch(t) /\ run[r].node = "promote" /\ run[r].candidate # None
        BY <2>3, <2>8
      <4>2. Fresh(run[r].candidate, run[r].base) /\ UNCHANGED run
        BY <2>1, <4>1 DEF FreshInductive, PutUpFresh, Dispatch
      <4> QED BY <1>2, <2>3, <4>2
    <3> QED BY <1>3, <1>6, <1>7, <2>2, <2>3, <2>4, <2>5, <3>1, <3>2
  <2> QED BY <2>6, <2>7, <2>8
<1>11. CASE \/ \E t \in Thread : Release(t) \/ Heartbeat(t)
            \/ \E t \in Thread, r \in Run : Acquire(t, r)
            \/ \E r \in Run : LeaseLapse(r)
            \/ \E w \in Worker : Crash(w)
            \/ UNCHANGED vars
  <2>1. UNCHANGED <<run, approved, history>>
    BY <1>11 DEF Release, Heartbeat, Acquire, LeaseLapse, Crash, vars, registry
  <2>2. \A u \in Thread : thr'[u] = thr[u] \/ thr'[u].pc \in {"idle", "restore"}
    <3>1. CASE \E t \in Thread : Release(t)
      BY <1>0, <3>1 DEF Release, Idle
    <3>2. CASE \E t \in Thread, r \in Run : Acquire(t, r)
      BY <1>0, <3>2 DEF Acquire, Idle
    <3>3. CASE \E w \in Worker : Crash(w)
      BY <3>3 DEF Crash, Idle
    <3> QED BY <1>11, <3>1, <3>2, <3>3 DEF Heartbeat, LeaseLapse, vars
  <2> QED BY <1>8, <2>1, <2>2
<1> QED BY <1>0, <1>9, <1>10, <1>11 DEF Next

(* What goes out without an approval replaces the version it was made on,  *)
(* after any sequence of promotions, rollbacks, conflicts and revisions    *)
(* (storage.py, _promote; supervisor.py, _promote and decide).             *)
THEOREM ReleasesReplaceWhatTheyWereMadeOn ==
  ASSUME LeaseHonoured
  PROVE  Spec => []UnapprovedReleasesAreFresh
<1>1. Init => FreshInductive
  BY RegistryAssumption DEF Init, RegistryInit, RegistryAssumption, FreshInductive, PutUpFresh,
     UnapprovedReleasesAreFresh, Absent, Idle, At
<1>2. TypeOK /\ TypeOK' /\ Inductive /\ LeaseInductive /\ Settled /\ LateDrivers
        /\ ReleasesAreOwn /\ FreshInductive
        /\ [RegistryNext]_registry /\ [Next]_vars => FreshInductive'
  BY FreshSteps, SupervisorAssumption, RegistryAssumption
<1>3. FreshInductive => UnapprovedReleasesAreFresh
  BY DEF FreshInductive
<1>4. Spec => /\ [](TypeOK /\ Inductive /\ LeaseInductive) /\ []Settled /\ []LateDrivers
              /\ []ReleasesAreOwn /\ RegistrySpec
  BY LeaseHonoured, LeaseInvariant, SettledInvariant, LateInvariant, Implements,
     RegistryOwnership, PTL
<1> QED BY <1>1, <1>2, <1>3, <1>4, PTL DEF Spec, RegistrySpec
==============================================================================
