------------------------------ MODULE DurableRun ------------------------------
(***************************************************************************)
(* What the tables of one run promise, without events, digests or the      *)
(* steps of a verification: the states that transitions saved, in order,   *)
(* and the projection every command reads.  Whoever commits extends both;  *)
(* restoring makes the projection the newest saved state, never an older   *)
(* one.  Storage may damage the projection or lose a saved state.          *)
(***************************************************************************)
EXTENDS Naturals

CONSTANTS
  State,     \* states of a run, with their revision
  Position   \* where states are saved: sequence numbers

VARIABLES
  saved,   \* the saved states by position
  shown,   \* the projection
  faults   \* how often storage damaged something

Init ==
  /\ \E n \in Position, s \in State : saved = [i \in {n} |-> s] /\ shown = s
  /\ faults = 0

(* A transition is made of the projection, and saved above all others.     *)
Commit ==
  \E n \in Position, s \in State :
    /\ \A i \in DOMAIN saved : i < n
    /\ s.revision = shown.revision + 1
    /\ saved' = [i \in DOMAIN saved \cup {n} |-> IF i = n THEN s ELSE saved[i]]
    /\ shown' = s
    /\ UNCHANGED faults

Restore ==
  /\ \E n \in DOMAIN saved : (\A i \in DOMAIN saved : i <= n) /\ shown' = saved[n]
  /\ UNCHANGED <<saved, faults>>

Fault ==
  /\ faults' = faults + 1
  /\ \/ shown' \in State /\ UNCHANGED saved
     \/ \E n \in DOMAIN saved :
          saved' = [i \in DOMAIN saved \ {n} |-> saved[i]] /\ UNCHANGED shown

Next == Commit \/ Restore \/ Fault

Spec == Init /\ [][Next]_<<saved, shown, faults>>
==============================================================================
