------------------------------ MODULE PlanDag ------------------------------
(***************************************************************************)
(* The frozen plan graph of orchestration/dag.py and the outcome rules of  *)
(* orchestration/state_machine.py.  A graph is what                        *)
(* ExecutionDAG.from_steps lets through: its dependencies are known nodes  *)
(* and topological_order never runs out of ready nodes.                    *)
(***************************************************************************)
EXTENDS Naturals, FiniteSets

CONSTANTS Node,         \* the step ids of the plan
          Deps,         \* Deps[n]: the set of step ids n depends on
          ReadOnly,     \* the nodes whose tool is registered read_only
          NeedsApproval,\* the nodes whose tool is registered requires_approval
          MaxAttempts   \* DAGScheduler.max_attempts

ASSUME GraphAssumption ==
    /\ IsFiniteSet(Node) /\ Node # {}
    /\ Deps \in [Node -> SUBSET Node]
    /\ ReadOnly \subseteq Node
    /\ NeedsApproval \subseteq Node
    /\ MaxAttempts \in 1..3

(* from_steps: "dependency cycle" is raised unless every set of nodes left *)
(* to order has one whose dependencies are all outside the set.            *)
ASSUME AcyclicAssumption ==
    \A S \in SUBSET Node : S # {} => \E n \in S : Deps[n] \cap S = {}

FailedDependencies == {"failed", "rejected", "blocked", "uncertain", "cancelled"}

NodeStatus ==
    {"pending", "running", "waiting_approval", "succeeded"} \cup FailedDependencies

RunState == {"absent", "running", "waiting_approval", "completed", "cancelled",
             "failed", "needs_review"}

(* The statuses PlanRuntime.run returns without touching the run.          *)
Terminal == {"completed", "cancelled", "failed", "needs_review"}

NodeRecord == [status : NodeStatus, attempts : 0..MaxAttempts]

NewRecord == [status |-> "pending", attempts |-> 0]

(* Mutant of Ready: a running dependency counts as done.                   *)
ReadyWhileRunning(rec) ==
    {n \in Node : /\ rec[n].status = "pending"
                  /\ \A d \in Deps[n] : rec[d].status \in {"running", "succeeded"}}

(* ExecutionDAG.ready, as a set: its order is the order of the JSON steps. *)
Ready(rec) ==
    {n \in Node : /\ rec[n].status = "pending"
                  /\ \A d \in Deps[n] : rec[d].status = "succeeded"}

(* The pending nodes the fixed point of DAGScheduler.run turns to blocked. *)
Blockable(rec) ==
    {n \in Node : /\ rec[n].status = "pending"
                  /\ \E d \in Deps[n] : rec[d].status \in FailedDependencies}

(* state_machine.run_status: the first rule that applies decides.          *)
RunStatus(rec) ==
    LET states == {rec[n].status : n \in Node}
    IN  IF "uncertain" \in states THEN "needs_review"
        ELSE IF "cancelled" \in states THEN "cancelled"
        ELSE IF "waiting_approval" \in states THEN "waiting_approval"
        ELSE IF states \cap {"failed", "rejected", "blocked"} # {} THEN "failed"
        ELSE IF states = {"succeeded"} THEN "completed"
        ELSE "running"
=============================================================================
