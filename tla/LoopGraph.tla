------------------------------ MODULE LoopGraph ------------------------------
(***************************************************************************)
(* The control-flow graph the supervisor routes runs through (graph.py)    *)
(* and the enumerations of models.py it is built from.  Statuses and nodes *)
(* keep the values the program stores.                                     *)
(***************************************************************************)

RunStatus == {"running", "paused", "awaiting_human", "recovery_required",
              "succeeded", "failed", "cancelled", "rolled_back"}

Terminal == {"succeeded", "failed", "cancelled", "rolled_back"}

NodeName == {"execute", "verify", "hitl", "promote", "rollback", "done"}

(* The nodes whose work is one call to code outside the database.          *)
ExternalNode == {"execute", "verify"}

(* Mutated form of Graph: verification routes past the human gate.         *)
GraphWithoutGate(requireApproval) ==
  [execute  |-> [completed |-> "verify", retry |-> "execute", exhausted |-> "hitl"],
   verify   |-> [passed |-> "promote", retry |-> "execute", exhausted |-> "hitl"],
   hitl     |-> [approve |-> "promote", revise |-> "execute",
                 rollback |-> "rollback", reject |-> "done"],
   promote  |-> [promoted |-> "done", conflict |-> "hitl"],
   rollback |-> [rolled_back |-> "done"]]

(* Mutated form of Graph: an edge leads to a node that does not exist.     *)
GraphMisspelt(requireApproval) ==
  [execute  |-> [completed |-> "verify", retry |-> "execute", exhausted |-> "human"],
   verify   |-> [passed |-> IF requireApproval THEN "hitl" ELSE "promote",
                 retry |-> "execute", exhausted |-> "hitl"],
   hitl     |-> [approve |-> "promote", revise |-> "execute",
                 rollback |-> "rollback", reject |-> "done"],
   promote  |-> [promoted |-> "done", conflict |-> "hitl"],
   rollback |-> [rolled_back |-> "done"]]

(* LoopGraph(require_approval=...): Graph(a)[source][outcome] is the target *)
(* route() returns.  Only the edge out of a passed verification depends on *)
(* the run's configuration.                                                *)
Graph(requireApproval) ==
  [execute  |-> [completed |-> "verify", retry |-> "execute", exhausted |-> "hitl"],
   verify   |-> [passed    |-> IF requireApproval THEN "hitl" ELSE "promote",
                 retry     |-> "execute",
                 exhausted |-> "hitl"],
   hitl     |-> [approve |-> "promote", revise |-> "execute",
                 rollback |-> "rollback", reject |-> "done"],
   promote  |-> [promoted |-> "done", conflict |-> "hitl"],
   rollback |-> [rolled_back |-> "done"]]

==============================================================================
