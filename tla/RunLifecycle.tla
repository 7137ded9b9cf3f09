----------------------------- MODULE RunLifecycle -----------------------------
(***************************************************************************)
(* What the supervisor promises of the life of its runs, without threads,  *)
(* workers, leases or the graph: a run is between calls or has one call    *)
(* open; a call is answered once, or interrupted and then resolved by a    *)
(* human; a pause wanted during a call comes before the next one; and what *)
(* a channel has released changes only together with the end of a run.     *)
(***************************************************************************)
EXTENDS Naturals

CONSTANTS
  Run, Channel, Version, Step,
  ChannelOf,  \* the channel a run releases on
  None

VARIABLES
  status,   \* of each run
  call,     \* the step id of each run's open call, or None
  wish,     \* whether a pause is wanted at the end of the call
  outcome,  \* of each step id
  released  \* the version each channel has released

life == <<status, call, wish, outcome, released>>

Ended == {"succeeded", "failed", "rolled_back", "cancelled"}

Init ==
  /\ status = [r \in Run |-> "absent"]
  /\ call = [r \in Run |-> None]
  /\ wish = [r \in Run |-> FALSE]
  /\ outcome = [s \in Step |-> "unused"]
  /\ released = [c \in Channel |-> None]

Becomes(r, s) == status' = [status EXCEPT ![r] = s]
Forgets(r) == wish' = [wish EXCEPT ![r] = FALSE]

Create(r) ==
  /\ status[r] = "absent" /\ Becomes(r, "running") /\ Forgets(r)
  /\ UNCHANGED <<call, outcome, released>>

------------------------------------------------------------------------------
(* A call.                                                                 *)

Begin(r) ==
  /\ status[r] = "running" /\ call[r] = None /\ ~wish[r]
  /\ \E s \in Step :
       /\ outcome[s] = "unused"
       /\ call' = [call EXCEPT ![r] = s]
       /\ outcome' = [outcome EXCEPT ![s] = "started"]
  /\ UNCHANGED <<status, wish, released>>

(* The call ends, in one of the ways there are.                            *)
Close(r, how) ==
  /\ call[r] # None /\ outcome[call[r]] = "started"
  /\ call' = [call EXCEPT ![r] = None]
  /\ outcome' = [outcome EXCEPT ![call[r]] = how]
  /\ UNCHANGED released

Answer(r) ==
  /\ status[r] = "running"
  /\ Close(r, "completed") \/ Close(r, "failed")
  /\ Becomes(r, IF wish[r] THEN "paused" ELSE "running") /\ Forgets(r)

WantPause(r) ==
  /\ status[r] = "running" /\ call[r] # None
  /\ wish' = [wish EXCEPT ![r] = TRUE]
  /\ UNCHANGED <<status, call, outcome, released>>

Interrupt(r) ==
  /\ status[r] = "running" /\ call[r] # None
  /\ Becomes(r, "recovery_required")
  /\ UNCHANGED <<call, wish, outcome, released>>

Resolve(r) ==
  /\ status[r] = "recovery_required"
  /\ \/ Close(r, "retried") /\ Becomes(r, "running")
     \/ Close(r, "aborted") /\ Becomes(r, "failed")
  /\ UNCHANGED wish

------------------------------------------------------------------------------
(* Between calls.                                                          *)

Between(r) == status[r] # "absent" /\ call[r] = None

(* A driver that has read "running" may be late: operators may have paused *)
(* or cancelled the run since, and it does not look again.                 *)
Driven(r) == Between(r) /\ status[r] \in {"running", "paused", "cancelled"}

Pause(r) ==
  /\ Driven(r) /\ Becomes(r, "paused") /\ Forgets(r)
  /\ UNCHANGED <<call, outcome, released>>

Resume(r) ==
  /\ Between(r) /\ status[r] = "paused" /\ Becomes(r, "running") /\ Forgets(r)
  /\ UNCHANGED <<call, outcome, released>>

AskHuman(r) ==
  /\ Driven(r) /\ Becomes(r, "awaiting_human")
  /\ UNCHANGED <<call, wish, outcome, released>>

Decide(r) ==
  /\ Between(r) /\ status[r] = "awaiting_human"
  /\ \E s \in {"running", "failed"} : Becomes(r, s)
  /\ UNCHANGED <<call, wish, outcome, released>>

(* A promotion or a rollback: the run ends with it.                        *)
Release(r) ==
  /\ Driven(r) /\ \E s \in {"succeeded", "rolled_back"} : Becomes(r, s)
  /\ \E v \in Version : released' = [released EXCEPT ![ChannelOf[r]] = v]
  /\ UNCHANGED <<call, wish, outcome>>

(* A rollback may be asked of any run that has no call open, ended or not. *)
Reopen(r) ==
  /\ Between(r) /\ Becomes(r, "running") /\ Forgets(r)
  /\ UNCHANGED <<call, outcome, released>>

Cancel(r) ==
  /\ Between(r) /\ status[r] \notin Ended /\ Becomes(r, "cancelled") /\ Forgets(r)
  /\ UNCHANGED <<call, outcome, released>>

Next ==
  \E r \in Run :
    \/ Create(r)
    \/ Begin(r) \/ Answer(r) \/ WantPause(r) \/ Interrupt(r) \/ Resolve(r)
    \/ Pause(r) \/ Resume(r) \/ AskHuman(r) \/ Decide(r) \/ Release(r)
    \/ Reopen(r) \/ Cancel(r)

Spec == Init /\ [][Next]_life
==============================================================================
