-------------------------------- MODULE MCRsi --------------------------------
(***************************************************************************)
(* Instances of RsiExperiment.tla for TLC: two processes, each with its    *)
(* seed run and its evolver run, on one channel.                           *)
(***************************************************************************)
EXTENDS RsiProperties, SupervisorProperties, TLC

CONSTANTS t1, t2, w1, w2, s1, s2, e1, e2, ch

OwnWorkers == t1 :> w1 @@ t2 :> w2
Seeds == t1 :> s1 @@ t2 :> s2
Evolvers == t1 :> e1 @@ t2 :> e2

OneChannel == [r \in Run |-> ch]
ApprovalForEvolvers == [r \in Run |-> r \in {e1, e2}]
OneIteration == [r \in Run |-> 1]

Seed == [overall |-> 1, holdout |-> 1]

(* Both beat the seed; the first is not good enough on the holdout.        *)
Scorecards == {[overall |-> 2, holdout |-> 1], [overall |-> 3, holdout |-> 2]}

(* The two processes are interchangeable, with all that is theirs.         *)
Pairs == {<<t1, t2>>, <<w1, w2>>, <<s1, s2>>, <<e1, e2>>}
Processes ==
  {p \in Permutations({t1, t2, w1, w2, s1, s2, e1, e2}) :
     \/ \A x \in DOMAIN p : p[x] = x
     \/ \A pair \in Pairs : p[pair[1]] = pair[2] /\ p[pair[2]] = pair[1]}

==============================================================================
