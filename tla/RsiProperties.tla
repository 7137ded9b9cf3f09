---------------------------- MODULE RsiProperties ----------------------------
(***************************************************************************)
(* What an experiment promises, stated over RsiExperiment.tla.             *)
(***************************************************************************)
EXTENDS RsiExperiment

RsiTypeOK ==
  /\ TypeOK
  /\ call \in [Thread -> CallRecord]
  /\ baseline \in [Run -> Version \cup {None}]
  /\ score \in [Version -> Score \cup {SeedScore}]
  /\ made \in [calls: Nat, commands: Nat]
  /\ skill \in Version \cup {None}
  /\ behind \subseteq {"overtaken", "failed", "commanded"}

(* An experiment, however its calls interleave, does nothing to runs,      *)
(* leases and releases that the supervisor's own specification does not    *)
(* allow: what is proved of the supervisor holds of it (rsi.py).           *)
ImplementsSupervisor == Spec

(* SKILL.md never shows a version that was not at some time the released   *)
(* one, not even the candidate start() takes as its baseline after its     *)
(* seed run lost a race (rsi.py, materialize_active_skill: "the currently  *)
(* approved LoopGraph version").                                           *)
SkillWasReleased == skill # None => skill \in Released(Ch)

(* What a candidate v is worth compared with version b (rsi-design.md,     *)
(* promotion invariant).                                                   *)
Beats(v, b) ==
  /\ score[v].overall > score[b].overall
  /\ score[v].holdout >= score[b].holdout /\ score[v].holdout >= MinHoldout

(* An approval nobody gave by hand is of a candidate that beat its         *)
(* baseline, with one exception, which the code does not look for: the run *)
(* went on to a later iteration since drive() returned, because a human    *)
(* revised it and another process drove it, and then its candidate is      *)
(* approved whatever the verifier said (rsi.py, drive with auto_approve).  *)
AutoApprovalFacesTheGate ==
  \A t \in Thread :
    LET r == call[t].run IN
    InCall(t, "decide") /\ call[t].op = "drive" =>
      \/ run[r].candidate # None /\ Beats(run[r].candidate, baseline[r])
      \/ run[r].iteration > call[t].awaits

(* What an evolver run released, after however many iterations, conflicts  *)
(* and revisions, beat the baseline frozen in that run: all but what       *)
(* failed verification and a human approved nevertheless.  So whenever the *)
(* baseline was still the released version the channel got better.         *)
ReleasesBeatTheirBaseline ==
  \A i \in DOMAIN history[Ch] :
    LET row == history[Ch][i] IN
    row.action = "promote" /\ row.run \in Evolver
      /\ ver[row.version].validation = "passed" => Beats(row.version, baseline[row.run])

(* Why SKILL.md may not show the active version when all calls are over:   *)
(* since it last did, a call was overtaken between its read and its        *)
(* replacement, or a call that owed a replacement died or raised before    *)
(* it, or a generic command moved the channel.  There is no fourth reason: *)
(* every call of an experiment that moves the channel and runs to its end  *)
(* brings the file up to date (rsi.py, materialize_active_skill and its    *)
(* callers).                                                               *)
SkillShowsActive ==
  (\A t \in Thread : InCall(t, "idle")) /\ skill # active[Ch] => behind # {}

------------------------------------------------------------------------------
(* rsi-design.md, promotion invariant: "the active channel still matches   *)
(* the recorded baseline version".  What an evolver run's promotion        *)
(* replaces is the version its candidates were compared with.              *)
PromotedOverBaseline ==
  \A i \in DOMAIN history[Ch] :
    LET row == history[Ch][i] IN
    row.action = "promote" /\ row.run \in Evolver => row.previous = baseline[row.run]

(* README.md, "rollback restores the old skill"; rsi-design.md, "rollback  *)
(* replaces it with the restored one": when all calls are over, and none   *)
(* failed or was overtaken, SKILL.md shows the active version.             *)
SkillFollowsChannel ==
  (\A t \in Thread : InCall(t, "idle")) /\ behind \subseteq {"commanded"} => skill = active[Ch]

==============================================================================
