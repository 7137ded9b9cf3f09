---------------------------- MODULE MCSupervisor ----------------------------
(***************************************************************************)
(* Instances of Supervisor.tla for TLC.                                    *)
(***************************************************************************)
EXTENDS SupervisorProperties, TLC

CONSTANTS t1, t2, w1, w2, r1, r2, ch

(* Two processes that drive, each with a worker id of its own; or two      *)
(* request threads of one API server, which share its supervisor's.        *)
OwnWorkers == t1 :> w1 @@ t2 :> w2
SharedWorker == t1 :> w1 @@ t2 :> w1
OneThread == t1 :> w1

(* The two processes of OwnWorkers are interchangeable, thread and worker. *)
Processes ==
  {p \in Permutations({t1, t2, w1, w2}) :
     {p[t1], p[t2]} = {t1, t2} /\ (p[t1] = t1 <=> p[w1] = w1)}

(* ... and two runs alike.                                                 *)
ProcessesAndRuns ==
  {p \in Permutations({t1, t2, w1, w2, r1, r2}) :
     /\ {p[t1], p[t2]} = {t1, t2} /\ {p[r1], p[r2]} = {r1, r2}
     /\ p[t1] = t1 <=> p[w1] = w1}

OneChannel == [r \in Run |-> ch]

Approval == [r \in Run |-> TRUE]
NoApproval == [r \in Run |-> FALSE]

OneIteration == [r \in Run |-> 1]
TwoIterations == [r \in Run |-> 2]

==============================================================================
