---------------------------- MODULE PlanLedger ----------------------------
(***************************************************************************)
(* What the persisted record of one plan run promises, whoever writes it   *)
(* and however often the writer dies: the abstract specification of        *)
(* orchestration/.  There is no scheduler, no thread and no lock here,     *)
(* only the snapshot a reader of plan_runs can see.                        *)
(***************************************************************************)
EXTENDS PlanDag

VARIABLES run,   \* the run's status in plan_runs, "absent" before plan.created
          node   \* the node records of the snapshot

vars == <<run, node>>

Open == run \in {"running", "waiting_approval"}

SetStatus(n, s) == node' = [node EXCEPT ![n].status = s]

Init == /\ run = "absent"
        /\ node = [n \in Node |-> NewRecord]

Create == /\ run = "absent"
          /\ run' = "running"
          /\ UNCHANGED node

(* A node starts only when all it depends on has succeeded and its attempt *)
(* budget is not spent.                                                    *)
Start(n) == /\ Open
            /\ n \in Ready(node)
            /\ node[n].attempts < MaxAttempts
            /\ node' = [node EXCEPT ![n] = [status |-> "running",
                                            attempts |-> @.attempts + 1]]
            /\ UNCHANGED run

Settle(n) == /\ Open
             /\ node[n].status = "running"
             /\ \E s \in {"succeeded", "failed", "rejected", "waiting_approval"} :
                   SetStatus(n, s)
             /\ UNCHANGED run

Retry(n) == /\ Open
            /\ node[n].status = "failed"
            /\ n \in ReadOnly
            /\ node[n].attempts < MaxAttempts
            /\ SetStatus(n, "pending")
            /\ UNCHANGED run

(* An attempt whose end nobody recorded: only a read may be tried again.   *)
Recover(n) == /\ Open
              /\ node[n].status = "running"
              /\ \/ n \notin ReadOnly /\ SetStatus(n, "uncertain")
                 \/ /\ n \in ReadOnly
                    /\ node[n].attempts = MaxAttempts
                    /\ SetStatus(n, "failed")
                 \/ /\ n \in ReadOnly
                    /\ node[n].attempts < MaxAttempts
                    /\ SetStatus(n, "pending")
              /\ UNCHANGED run

Block(n) == /\ Open
            /\ n \in Blockable(node)
            /\ SetStatus(n, "blocked")
            /\ UNCHANGED run

Cancel(n) == /\ Open
             /\ node[n].status \in {"pending", "waiting_approval"}
             /\ SetStatus(n, "cancelled")
             /\ UNCHANGED run

(* A run is closed, or parked for an approval, only with a status that     *)
(* says so, when nothing runs and nothing could be started.                *)
Close == /\ Open
         /\ Ready(node) = {}
         /\ \A n \in Node : node[n].status # "running"
         /\ RunStatus(node) # "running"
         /\ run' = RunStatus(node)
         /\ UNCHANGED node

Next == \/ Create
        \/ Close
        \/ \E n \in Node : \/ Start(n) \/ Settle(n) \/ Retry(n)
                           \/ Recover(n) \/ Block(n) \/ Cancel(n)

Spec == Init /\ [][Next]_vars
=============================================================================
