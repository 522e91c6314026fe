--------------------------- MODULE PlanExecution ---------------------------
(***************************************************************************)
(* Execution of one frozen plan: PlanRuntime.run (orchestration/runtime.py)*)
(* over SQLitePlanStore (store.py), DAGScheduler.run (scheduler.py) and    *)
(* the tool threads that run ToolExecutor.execute.                         *)
(*                                                                         *)
(* Several runners (HTTP requests, processes) may call run for the same    *)
(* run_id.  Each one holds the snapshot it loaded in memory; every change  *)
(* of a record is followed by a save of the whole snapshot, and the two    *)
(* are one step here: nothing reads a record in between, and a failing     *)
(* save raises (Abort).  A runner can die anywhere (Crash) and loses its   *)
(* memory, its threads and the flock.                                      *)
(***************************************************************************)
EXTENDS PlanDag

CONSTANTS Runner,        \* the callers of PlanRuntime.run for this run_id
          MaxWorkers,    \* DAGScheduler.max_workers
          MaxInterrupts, \* bound: crashes and raised errors in a behaviour
          None           \* no runner, no node

ASSUME ExecutionAssumption ==
    /\ MaxWorkers \in 1..32
    /\ MaxInterrupts \in Nat
    /\ None \notin Runner
    /\ None \notin Node

VARIABLES
    run, node,       \* the snapshot in plan_runs: its status and its nodes
    lock,            \* the holder of the flock of this run_id
    cancelRequested, \* what cancel_requested() would answer
    pc,              \* where each runner is
    mem,             \* mem[r]: snapshot['nodes'] in the memory of r
    cancelled,       \* the scheduler's local flag
    current,         \* the node r is about to start, or to retry
    batch,           \* the done futures wait() returned and r has not handled
    fut,             \* fut[r][n]: the future of n in r's pool
    effects,         \* history: how often n's handler was called
    lateStarts,      \* history: attempts begun after a cancel was requested
    interrupts       \* how many crashes and errors there have been

stored   == <<run, node>>
volatile == <<pc, mem, cancelled, current, batch, fut>>
history  == <<effects, lateStarts>>
vars     == <<stored, lock, cancelRequested, volatile, history, interrupts>>

(* What a tool call ends with: "raised" is tool_execution_failed, the other *)
(* results are those a handler may build itself as a ToolExecutionResult.   *)
Outcome == {"succeeded", "raised", "failed", "rejected", "waiting_approval"}

OutcomeStatus(o) == IF o = "raised" THEN "failed" ELSE o

FutureState == {"none", "queued", "executing"} \cup Outcome

Pc == {"idle", "load", "recover", "poll", "cancel", "block", "start", "launch",
       "wait", "collect", "retry", "finish", "drain"}

NoFutures == [n \in Node |-> "none"]
Inflight(r) == {n \in Node : fut[r][n] # "none"}
Goto(r, l) == pc' = [pc EXCEPT ![r] = l]

(* record changed, then persist(kind, sid): store.save of r's snapshot.    *)
Persist(r, n, rec) ==
    /\ mem' = [mem EXCEPT ![r][n] = rec]
    /\ node' = mem'[r]
    /\ UNCHANGED run

PersistStatus(r, n, s) == Persist(r, n, [mem[r][n] EXCEPT !.status = s])

Init ==
    /\ run = "absent"
    /\ node = [n \in Node |-> NewRecord]
    /\ lock = None
    /\ cancelRequested = FALSE
    /\ pc = [r \in Runner |-> "idle"]
    /\ mem = [r \in Runner |-> [n \in Node |-> NewRecord]]
    /\ cancelled = [r \in Runner |-> FALSE]
    /\ current = [r \in Runner |-> None]
    /\ batch = [r \in Runner |-> {}]
    /\ fut = [r \in Runner |-> NoFutures]
    /\ effects = [n \in Node |-> 0]
    /\ lateStarts = 0
    /\ interrupts = 0
-----------------------------------------------------------------------------
(* PlanRuntime.run                                                         *)

(* store.exclusive: the flock, or PlanBusy and nothing happens.            *)
Acquire(r) ==
    /\ pc[r] = "idle"
    /\ lock = None
    /\ lock' = r
    /\ Goto(r, "load")
    /\ UNCHANGED <<stored, cancelRequested, mem, cancelled, current, batch, fut,
                   history, interrupts>>

(* The end of a call, by return or by an exception: the local state is     *)
(* gone and exclusive() unlocks.                                           *)
Leave(r) ==
    /\ lock' = None
    /\ Goto(r, "idle")
    /\ mem' = [mem EXCEPT ![r] = [n \in Node |-> NewRecord]]
    /\ cancelled' = [cancelled EXCEPT ![r] = FALSE]
    /\ current' = [current EXCEPT ![r] = None]
    /\ batch' = [batch EXCEPT ![r] = {}]
    /\ fut' = [fut EXCEPT ![r] = NoFutures]

(* Mutant of Settled: a run under review is opened again.                  *)
SettledButReview == \/ run \in Terminal \ {"needs_review"}
                    \/ run = "waiting_approval" /\ ~cancelRequested

Settled == \/ run \in Terminal
           \/ run = "waiting_approval" /\ ~cancelRequested

(* store.load: create the run, return a settled one, or go on with it.     *)
Load(r) ==
    /\ pc[r] = "load"
    /\ \/ /\ run = "absent"
          /\ run' = "running"
          /\ node' = mem[r]
          /\ Goto(r, "recover")
          /\ UNCHANGED <<lock, mem, cancelled, current, batch, fut>>
       \/ /\ run # "absent" /\ Settled
          /\ Leave(r)
          /\ UNCHANGED stored
       \/ /\ run # "absent" /\ ~Settled
          /\ mem' = [mem EXCEPT ![r] = node]
          /\ Goto(r, "recover")
          /\ UNCHANGED <<stored, lock, cancelled, current, batch, fut>>
    /\ UNCHANGED <<cancelRequested, history, interrupts>>

Interrupted(r) == {n \in Node : mem[r][n].status = "running"}

(* Mutant of RecoveredStatus: an interrupted write is replayed like a read. *)
RecoveredStatusReplaysWrites(r, n) ==
    IF mem[r][n].attempts >= MaxAttempts THEN "failed" ELSE "pending"

(* An attempt found running belongs to a runner that is gone.              *)
RecoveredStatus(r, n) ==
    IF n \notin ReadOnly THEN "uncertain"
    ELSE IF mem[r][n].attempts >= MaxAttempts THEN "failed" ELSE "pending"

Recover(r) ==
    /\ pc[r] = "recover"
    /\ \/ /\ \E n \in Interrupted(r) : PersistStatus(r, n, RecoveredStatus(r, n))
          /\ UNCHANGED pc
       \/ /\ Interrupted(r) = {}
          /\ Goto(r, "poll")
          /\ UNCHANGED <<stored, mem>>
    /\ UNCHANGED <<lock, cancelRequested, cancelled, current, batch, fut, history,
                   interrupts>>

(* The scheduler returned: save the run's status and leave.                *)
Finish(r) ==
    /\ pc[r] = "finish"
    /\ run' = RunStatus(mem[r])
    /\ node' = mem[r]
    /\ Leave(r)
    /\ UNCHANGED <<cancelRequested, history, interrupts>>
-----------------------------------------------------------------------------
(* DAGScheduler.run, one pass of its loop: poll, cancel, block, start      *)
(* (pick, then launch), wait, collect.                                     *)

Poll(r) ==
    /\ pc[r] = "poll"
    /\ cancelled' = [cancelled EXCEPT ![r] = @ \/ cancelRequested]
    /\ Goto(r, IF cancelled[r] \/ cancelRequested THEN "cancel" ELSE "block")
    /\ UNCHANGED <<stored, lock, cancelRequested, mem, current, batch, fut,
                   history, interrupts>>

(* Mutant of Cancellable: only the parked nodes.                           *)
CancellableParked(r) == {n \in Node : mem[r][n].status = "waiting_approval"}

Cancellable(r) == {n \in Node : mem[r][n].status \in {"pending", "waiting_approval"}}

CancelNodes(r) ==
    /\ pc[r] = "cancel"
    /\ \/ /\ \E n \in Cancellable(r) : PersistStatus(r, n, "cancelled")
          /\ UNCHANGED pc
       \/ /\ Cancellable(r) = {}
          /\ Goto(r, "block")
          /\ UNCHANGED <<stored, mem>>
    /\ UNCHANGED <<lock, cancelRequested, cancelled, current, batch, fut, history,
                   interrupts>>

BlockNodes(r) ==
    /\ pc[r] = "block"
    /\ \/ /\ \E n \in Blockable(mem[r]) : PersistStatus(r, n, "blocked")
          /\ UNCHANGED pc
       \/ /\ Blockable(mem[r]) = {}
          /\ Goto(r, IF cancelled[r] THEN "wait" ELSE "start")
          /\ UNCHANGED <<stored, mem>>
    /\ UNCHANGED <<lock, cancelRequested, cancelled, current, batch, fut, history,
                   interrupts>>

(* Mutant of PickNode: cancel_requested is not polled again in the loop.   *)
PickNodeUnpolled(r) ==
    /\ pc[r] = "start"
    /\ LET ready == Ready(mem[r])
           room  == Cardinality(Inflight(r)) < MaxWorkers
       IN  \/ /\ ready = {} \/ ~room
              /\ Goto(r, "wait")
              /\ UNCHANGED current
           \/ /\ room
              /\ \E n \in ready : current' = [current EXCEPT ![r] = n]
              /\ Goto(r, "launch")
    /\ UNCHANGED <<stored, lock, cancelRequested, cancelled, mem, batch, fut, history,
                   interrupts>>

(* The loop over graph.ready(...): room in the pool and one more look at   *)
(* cancel_requested before each node.                                      *)
PickNode(r) ==
    /\ pc[r] = "start"
    /\ LET ready == Ready(mem[r])
           room  == Cardinality(Inflight(r)) < MaxWorkers
       IN  \/ /\ ready = {} \/ ~room
              /\ Goto(r, "wait")
              /\ UNCHANGED <<cancelled, current>>
           \/ /\ ready # {} /\ room /\ cancelRequested
              /\ cancelled' = [cancelled EXCEPT ![r] = TRUE]
              /\ Goto(r, "wait")
              /\ UNCHANGED current
           \/ /\ room /\ ~cancelRequested
              /\ \E n \in ready : current' = [current EXCEPT ![r] = n]
              /\ Goto(r, "launch")
              /\ UNCHANGED cancelled
    /\ UNCHANGED <<stored, lock, cancelRequested, mem, batch, fut, history, interrupts>>

(* Mutant of LaunchNode: the side effect is submitted before the save.     *)
LaunchNodeUnsaved(r) ==
    /\ pc[r] = "launch"
    /\ LET n == current[r]
       IN  /\ mem' = [mem EXCEPT ![r][n].status = "running", ![r][n].attempts = @ + 1]
           /\ fut' = [fut EXCEPT ![r][n] = "queued"]
    /\ lateStarts' = IF cancelRequested THEN lateStarts + 1 ELSE lateStarts
    /\ current' = [current EXCEPT ![r] = None]
    /\ Goto(r, "start")
    /\ UNCHANGED <<stored, lock, cancelRequested, cancelled, batch, effects, interrupts>>

(* node.started is saved before the side effect is submitted.              *)
LaunchNode(r) ==
    /\ pc[r] = "launch"
    /\ LET n == current[r]
       IN  /\ Persist(r, n, [status |-> "running", attempts |-> mem[r][n].attempts + 1])
           /\ fut' = [fut EXCEPT ![r][n] = "queued"]
    /\ lateStarts' = IF cancelRequested THEN lateStarts + 1 ELSE lateStarts
    /\ current' = [current EXCEPT ![r] = None]
    /\ Goto(r, "start")
    /\ UNCHANGED <<lock, cancelRequested, cancelled, batch, effects, interrupts>>

(* Nothing in flight ends the loop, or sends it round to cancel what is    *)
(* left; otherwise wait() returns the futures done now, perhaps none.      *)
Wait(r) ==
    /\ pc[r] = "wait"
    /\ \/ /\ Inflight(r) = {}
          /\ Goto(r, IF cancelled[r] /\ \E n \in Node : mem[r][n].status = "pending"
                     THEN "poll" ELSE "finish")
          /\ UNCHANGED batch
       \/ /\ Inflight(r) # {}
          /\ batch' = [batch EXCEPT ![r] = {n \in Node : fut[r][n] \in Outcome}]
          /\ Goto(r, "collect")
    /\ UNCHANGED <<stored, lock, cancelRequested, mem, cancelled, current, fut,
                   history, interrupts>>

(* Mutant of RetryDue: one attempt more than the budget.                   *)
RetryDueOnceMore(r, n) == /\ fut[r][n] = "raised"
                          /\ n \in ReadOnly
                          /\ mem[r][n].attempts <= MaxAttempts

(* A read-only node that raised gets another attempt while it has one.     *)
RetryDue(r, n) == /\ fut[r][n] = "raised"
                  /\ n \in ReadOnly
                  /\ mem[r][n].attempts < MaxAttempts

CollectNode(r, n) ==
    /\ pc[r] = "collect"
    /\ n \in batch[r]
    /\ PersistStatus(r, n, OutcomeStatus(fut[r][n]))
    /\ batch' = [batch EXCEPT ![r] = @ \ {n}]
    /\ fut' = [fut EXCEPT ![r][n] = "none"]
    /\ IF RetryDue(r, n)
       THEN current' = [current EXCEPT ![r] = n] /\ Goto(r, "retry")
       ELSE UNCHANGED <<current, pc>>
    /\ UNCHANGED <<lock, cancelRequested, cancelled, history, interrupts>>

(* The second save of a retried node: a crash before it leaves "failed".   *)
RetryNode(r) ==
    /\ pc[r] = "retry"
    /\ PersistStatus(r, current[r], "pending")
    /\ current' = [current EXCEPT ![r] = None]
    /\ Goto(r, "collect")
    /\ UNCHANGED <<lock, cancelRequested, cancelled, batch, fut, history, interrupts>>

CollectDone(r) ==
    /\ pc[r] = "collect"
    /\ batch[r] = {}
    /\ Goto(r, "poll")
    /\ UNCHANGED <<stored, lock, cancelRequested, mem, cancelled, current, batch,
                   fut, history, interrupts>>
-----------------------------------------------------------------------------
(* A pool thread running ToolExecutor.execute.  The preflight checks have  *)
(* passed for the same scope and registry before the run was bound to them.*)

BeginTool(r, n) ==
    /\ fut[r][n] = "queued"
    /\ IF n \in NeedsApproval
       THEN /\ fut' = [fut EXCEPT ![r][n] = "waiting_approval"]
            /\ UNCHANGED effects
       ELSE /\ fut' = [fut EXCEPT ![r][n] = "executing"]
            /\ effects' = [effects EXCEPT ![n] = @ + 1]
    /\ UNCHANGED <<stored, lock, cancelRequested, pc, mem, cancelled, current, batch,
                   lateStarts, interrupts>>

EndTool(r, n) ==
    /\ fut[r][n] = "executing"
    /\ \E o \in Outcome : fut' = [fut EXCEPT ![r][n] = o]
    /\ UNCHANGED <<stored, lock, cancelRequested, pc, mem, cancelled, current, batch,
                   history, interrupts>>
-----------------------------------------------------------------------------
(* The environment                                                         *)

RequestCancel ==
    /\ ~cancelRequested
    /\ cancelRequested' = TRUE
    /\ UNCHANGED <<stored, lock, volatile, history, interrupts>>

(* Mutant of Abort: the lock is released before the threads are joined.    *)
AbortUnlocksFirst(r) ==
    /\ pc[r] \notin {"idle", "drain"}
    /\ interrupts < MaxInterrupts
    /\ interrupts' = interrupts + 1
    /\ Goto(r, "drain")
    /\ lock' = None
    /\ UNCHANGED <<stored, cancelRequested, mem, cancelled, current, batch, fut,
                   history>>

(* A save or an infrastructure error raises: `with pool` waits for the     *)
(* threads, whose results are dropped, before the lock is released.        *)
Abort(r) ==
    /\ pc[r] \notin {"idle", "drain"}
    /\ interrupts < MaxInterrupts
    /\ interrupts' = interrupts + 1
    /\ Goto(r, "drain")
    /\ UNCHANGED <<stored, lock, cancelRequested, mem, cancelled, current, batch,
                   fut, history>>

Drain(r) ==
    /\ pc[r] = "drain"
    /\ \A n \in Inflight(r) : fut[r][n] \in Outcome
    /\ Leave(r)
    /\ UNCHANGED <<stored, cancelRequested, history, interrupts>>

(* The process dies: the operating system drops its threads and its flock. *)
Crash(r) ==
    /\ pc[r] # "idle"
    /\ interrupts < MaxInterrupts
    /\ interrupts' = interrupts + 1
    /\ Leave(r)
    /\ UNCHANGED <<stored, cancelRequested, history>>

Schedule(r) == \/ Load(r) \/ Recover(r) \/ Finish(r)
               \/ Poll(r) \/ CancelNodes(r) \/ BlockNodes(r)
               \/ PickNode(r) \/ LaunchNode(r) \/ Wait(r)
               \/ \E n \in Node : CollectNode(r, n)
               \/ RetryNode(r) \/ CollectDone(r) \/ Drain(r)

Tool(r, n) == BeginTool(r, n) \/ EndTool(r, n)

Next == \/ RequestCancel
        \/ \E r \in Runner : \/ Acquire(r) \/ Schedule(r) \/ Abort(r) \/ Crash(r)
                             \/ \E n \in Node : Tool(r, n)

Spec == Init /\ [][Next]_vars

(* Threads run, handlers return, and a caller whose run is not settled     *)
(* submits the same plan version again.                                    *)
FairSpec == /\ Spec
            /\ \A r \in Runner : WF_vars(Schedule(r))
            /\ \A r \in Runner, n \in Node : WF_vars(Tool(r, n))
            /\ WF_vars(\E r \in Runner : Acquire(r))
-----------------------------------------------------------------------------
(* Properties                                                              *)

TypeOK ==
    /\ run \in RunState
    /\ node \in [Node -> NodeRecord]
    /\ lock \in Runner \cup {None}
    /\ cancelRequested \in BOOLEAN
    /\ pc \in [Runner -> Pc]
    /\ mem \in [Runner -> [Node -> NodeRecord]]
    /\ cancelled \in [Runner -> BOOLEAN]
    /\ current \in [Runner -> Node \cup {None}]
    /\ batch \in [Runner -> SUBSET Node]
    /\ fut \in [Runner -> [Node -> FutureState]]
    /\ effects \in [Node -> Nat]
    /\ lateStarts \in Nat
    /\ interrupts \in 0..MaxInterrupts

(* A write tool is called at most once, through any number of crashes,     *)
(* errors, retries and repeated submissions (runtime.py: an interrupted    *)
(* write becomes "uncertain" and is never replayed).                       *)
WriteAtMostOnce == \A n \in Node \ ReadOnly : effects[n] <= 1

(* No call of a handler is missing from the stored record: each one has an *)
(* attempt saved before it (scheduler.py: "Commit BEFORE submitting any    *)
(* side effect"), so the attempt budget bounds the calls as well.          *)
EffectsRecorded == \A n \in Node : effects[n] <= node[n].attempts

(* Only the holder of the flock has anything in its pool: a runner that    *)
(* gives up waits for its threads before another one may recover the run.  *)
ExclusiveExecution == \A r \in Runner : Inflight(r) # {} => lock = r

(* A handler that was ever called had all its dependencies succeeded, and  *)
(* they stay so: success is not revoked by a recovery, retry or cancel.    *)
DependenciesFirst ==
    \A n \in Node : effects[n] > 0 => \A d \in Deps[n] : node[d].status = "succeeded"

(* A cancel request lets at most the one node through that a runner had    *)
(* picked when it arrived, over all runners and restarts.                  *)
LateStartBound == lateStarts <= 1

(* The stored run evolves as PlanLedger promises.                          *)
Ledger == INSTANCE PlanLedger

LedgerSpec == Ledger!Spec

(* A call of PlanRuntime.run returns when its tools do, whatever fails,    *)
(* waits for approval or is cancelled: the loop does not spin.             *)
CallReturns == \A r \in Runner : (lock = r) ~> (lock # r)

(* A cancel request closes the run, also one parked for an approval.       *)
CancelSettles == cancelRequested ~> run \in Terminal
=============================================================================
