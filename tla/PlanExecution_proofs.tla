----------------------- MODULE PlanExecution_proofs -----------------------
(***************************************************************************)
(* Proofs about PlanExecution for every plan graph, every set of runners   *)
(* and all bounds.  IInv is the inductive invariant; its parts are named   *)
(* for the piece of the code's reasoning they stand for.                   *)
(***************************************************************************)
EXTENDS PlanExecution, FiniteSetTheorems, TLAPS

(* The places where a runner works on its own copy of the snapshot.        *)
Working == Pc \ {"idle", "load", "drain"}

(* The places inside DAGScheduler.run.                                     *)
Looping == Working \ {"recover"}

(* A runner is anywhere but idle exactly while it holds the flock.         *)
LockInv == \A r \in Runner : pc[r] # "idle" <=> lock = r

(* What a working runner remembers is what is stored, and the run is open. *)
CopyInv == \A r \in Runner : pc[r] \in Working =>
              mem[r] = node /\ run \in {"running", "waiting_approval"}

(* A runner that has not loaded anything holds the fresh records.          *)
FreshInv == /\ \A r \in Runner : pc[r] \in {"idle", "load"} =>
                  mem[r] = [n \in Node |-> NewRecord]
            /\ run = "absent" => node = [n \in Node |-> NewRecord]

(* A future exists for the nodes marked running, and for no other.         *)
FutureInv == \A r \in Runner :
    /\ pc[r] \in {"idle", "load", "recover"} => fut[r] = NoFutures
    /\ pc[r] \in Looping =>
          \A n \in Node : fut[r][n] # "none" <=> node[n].status = "running"
    /\ \A n \in Node : fut[r][n] # "none" => node[n].status = "running"

(* The node picked, or due for a retry, is still what it was picked for.   *)
CurrentInv == \A r \in Runner :
    /\ pc[r] = "launch" => current[r] \in Ready(node)
    /\ pc[r] = "retry" => /\ current[r] \in ReadOnly
                          /\ node[current[r]].status = "failed"
                          /\ node[current[r]].attempts < MaxAttempts
    /\ batch[r] \subseteq {n \in Node : fut[r][n] \in Outcome}

(* Attempts: a pending node has one left, a write has at most one.         *)
AttemptInv == \A n \in Node :
    /\ node[n].status = "pending" =>
          node[n].attempts < MaxAttempts /\ (n \notin ReadOnly => node[n].attempts = 0)
    /\ n \notin ReadOnly => node[n].attempts <= 1
    /\ node[n].attempts > 0 => \A d \in Deps[n] : node[d].status = "succeeded"

(* Every call of a handler is paid for by an attempt; a queued one is not  *)
(* spent yet.                                                              *)
EffectInv == \A n \in Node :
    /\ effects[n] <= node[n].attempts
    /\ \A r \in Runner : fut[r][n] = "queued" => effects[n] < node[n].attempts

(* What the phases of one pass leave behind: nothing to block after the    *)
(* fixed point, nothing to start when a wait finds nothing in flight.      *)
PhaseInv == \A r \in Runner :
    /\ pc[r] \in {"start", "launch", "wait", "finish"} => Blockable(node) = {}
    /\ pc[r] = "wait" => \/ cancelled[r]
                         \/ Ready(node) = {}
                         \/ Inflight(r) # {}
    /\ pc[r] = "finish" => /\ Ready(node) = {}
                           /\ \A n \in Node : node[n].status # "running"
    /\ pc[r] \in {"start", "launch"} => ~cancelled[r]

Rest == /\ LockInv /\ CopyInv /\ FreshInv /\ FutureInv
        /\ CurrentInv /\ AttemptInv /\ EffectInv /\ PhaseInv

IInv == TypeOK /\ Rest
-----------------------------------------------------------------------------
USE GraphAssumption, ExecutionAssumption

(* A save by a working runner changes one record, in memory and in store. *)
LEMMA PersistFacts ==
    ASSUME TypeOK, CopyInv, NEW r \in Runner, pc[r] \in Working,
           NEW n \in Node, NEW rec \in NodeRecord, Persist(r, n, rec)
    PROVE  /\ node' = [node EXCEPT ![n] = rec]
           /\ mem' = [mem EXCEPT ![r] = node']
           /\ run' = run
           /\ node' \in [Node -> NodeRecord]
           /\ mem' \in [Runner -> [Node -> NodeRecord]]
BY DEF TypeOK, CopyInv, Persist

(* A record with another status is still a record: the attempts are kept.  *)
LEMMA StatusRecord ==
    ASSUME TypeOK, NEW r \in Runner, NEW n \in Node, NEW s \in NodeStatus
    PROVE  [mem[r][n] EXCEPT !.status = s] \in NodeRecord
<1>1. mem[r][n] \in NodeRecord
    BY DEF TypeOK
<1> QED BY <1>1 DEF NodeRecord

(* Leaving resets the runner's local state and nothing else of a runner.   *)
LEMMA LeaveFacts ==
    ASSUME TypeOK, NEW r \in Runner, Leave(r)
    PROVE  /\ lock' \in Runner \cup {None}
           /\ pc' \in [Runner -> Pc]
           /\ mem' \in [Runner -> [Node -> NodeRecord]]
           /\ cancelled' \in [Runner -> BOOLEAN]
           /\ current' \in [Runner -> Node \cup {None}]
           /\ batch' \in [Runner -> SUBSET Node]
           /\ fut' \in [Runner -> [Node -> FutureState]]
<1>1. [n \in Node |-> NewRecord] \in [Node -> NodeRecord]
    BY DEF NewRecord, NodeRecord, NodeStatus
<1>2. NoFutures \in [Node -> FutureState]
    BY DEF NoFutures, FutureState
<1>3. "idle" \in Pc
    BY DEF Pc
<1> QED BY <1>1, <1>2, <1>3 DEF TypeOK, Leave, Goto

(* The saves of DAGScheduler.run and of the recovery keep the record type. *)
LEMMA PersistStatusFacts ==
    ASSUME TypeOK, CopyInv, NEW r \in Runner, pc[r] \in Working,
           NEW n \in Node, NEW s \in NodeStatus, PersistStatus(r, n, s)
    PROVE  /\ node' = [node EXCEPT ![n] = [node[n] EXCEPT !.status = s]]
           /\ mem' = [mem EXCEPT ![r] = node']
           /\ run' = run
           /\ node' \in [Node -> NodeRecord]
           /\ mem' \in [Runner -> [Node -> NodeRecord]]
<1>1. mem[r] = node
    BY DEF CopyInv
<1> QED BY <1>1, StatusRecord, PersistFacts DEF PersistStatus

(* A jump keeps the type of pc.                                            *)
LEMMA GotoFacts ==
    ASSUME TypeOK, NEW r \in Runner, NEW l \in Pc, Goto(r, l)
    PROVE  pc' \in [Runner -> Pc]
BY DEF TypeOK, Goto

(* Every action of runtime.py and scheduler.py keeps the types; the        *)
(* attempt budget is what AttemptInv leaves a pending node.                *)
LEMMA TypeStep == TypeOK /\ CopyInv /\ CurrentInv /\ AttemptInv /\ [Next]_vars => TypeOK'
<1> SUFFICES ASSUME TypeOK, CopyInv, CurrentInv, AttemptInv, [Next]_vars PROVE TypeOK'
    OBVIOUS
<1>1. CASE UNCHANGED vars
    BY <1>1 DEF TypeOK, vars, stored, volatile, history
<1>2. CASE RequestCancel
    BY <1>2 DEF TypeOK, RequestCancel, stored, volatile, history
<1>3. ASSUME NEW r \in Runner, Acquire(r) PROVE TypeOK'
    BY <1>3 DEF TypeOK, Acquire, Goto, stored, history, Pc
<1>4. ASSUME NEW r \in Runner, Load(r) PROVE TypeOK'
  <2>1. CASE Leave(r) /\ UNCHANGED stored
    BY <1>4, <2>1, LeaveFacts DEF TypeOK, Load, stored, history
  <2>2. ASSUME run' \in RunState, node' \in [Node -> NodeRecord],
               mem' \in [Runner -> [Node -> NodeRecord]], Goto(r, "recover"),
               UNCHANGED <<lock, cancelled, current, batch, fut>>
        PROVE  TypeOK'
    BY <1>4, <2>2 DEF TypeOK, Load, Goto, history, Pc
  <2>3. CASE run = "absent" /\ ~ (Leave(r) /\ UNCHANGED stored)
    BY <1>4, <2>2, <2>3 DEF TypeOK, Load, RunState
  <2>4. CASE run # "absent" /\ ~ (Leave(r) /\ UNCHANGED stored)
    <3>1. /\ mem' = [mem EXCEPT ![r] = node]
          /\ Goto(r, "recover")
          /\ UNCHANGED <<stored, lock, cancelled, current, batch, fut>>
        BY <1>4, <2>4 DEF Load
    <3> QED BY <2>2, <3>1 DEF TypeOK, stored
  <2> QED BY <2>1, <2>3, <2>4
<1>5. ASSUME NEW r \in Runner, Recover(r) PROVE TypeOK'
  <2> pc[r] \in Working
    BY <1>5 DEF Recover, Working, Pc
  <2>1. ASSUME NEW n \in Node, PersistStatus(r, n, RecoveredStatus(r, n)), UNCHANGED pc
        PROVE  TypeOK'
    <3>1. RecoveredStatus(r, n) \in NodeStatus
        BY DEF RecoveredStatus, NodeStatus, FailedDependencies
    <3> QED BY <1>5, <2>1, <3>1, PersistStatusFacts DEF Recover, TypeOK, history
  <2> QED BY <1>5, <2>1 DEF Recover, TypeOK, Interrupted, Goto, stored, history, Pc
<1>6. ASSUME NEW r \in Runner, Finish(r) PROVE TypeOK'
  <2>1. RunStatus(mem[r]) \in RunState
    BY DEF RunStatus, RunState
  <2> QED BY <1>6, <2>1, LeaveFacts DEF Finish, TypeOK, history
<1>7. ASSUME NEW r \in Runner, Poll(r) PROVE TypeOK'
    BY <1>7 DEF TypeOK, Poll, Goto, stored, history, Pc
<1>8. ASSUME NEW r \in Runner, CancelNodes(r) PROVE TypeOK'
  <2> pc[r] \in Working
    BY <1>8 DEF CancelNodes, Working, Pc
  <2>1. ASSUME NEW n \in Node, PersistStatus(r, n, "cancelled"), UNCHANGED pc
        PROVE  TypeOK'
    BY <1>8, <2>1, PersistStatusFacts
       DEF CancelNodes, TypeOK, history, NodeStatus, FailedDependencies
  <2> QED BY <1>8, <2>1 DEF CancelNodes, Cancellable, TypeOK, Goto, stored, history, Pc
<1>9. ASSUME NEW r \in Runner, BlockNodes(r) PROVE TypeOK'
  <2> pc[r] \in Working
    BY <1>9 DEF BlockNodes, Working, Pc
  <2>1. ASSUME NEW n \in Node, PersistStatus(r, n, "blocked"), UNCHANGED pc
        PROVE  TypeOK'
    BY <1>9, <2>1, PersistStatusFacts
       DEF BlockNodes, TypeOK, history, NodeStatus, FailedDependencies
  <2> QED BY <1>9, <2>1 DEF BlockNodes, Blockable, TypeOK, Goto, stored, history, Pc
<1>10. ASSUME NEW r \in Runner, PickNode(r) PROVE TypeOK'
  <2>1. /\ cancelled' \in [Runner -> BOOLEAN]
        /\ current' \in [Runner -> Node \cup {None}]
        /\ pc' \in [Runner -> Pc]
    <3>1. CASE Goto(r, "wait") /\ UNCHANGED <<cancelled, current>>
        BY <3>1, GotoFacts DEF TypeOK, Pc
    <3>2. CASE /\ cancelled' = [cancelled EXCEPT ![r] = TRUE]
               /\ Goto(r, "wait")
               /\ UNCHANGED current
        BY <3>2, GotoFacts DEF TypeOK, Pc
    <3>3. CASE /\ \E n \in Ready(mem[r]) : current' = [current EXCEPT ![r] = n]
               /\ Goto(r, "launch")
               /\ UNCHANGED cancelled
        BY <3>3, GotoFacts DEF TypeOK, Ready, Pc
    <3> QED BY <1>10, <3>1, <3>2, <3>3 DEF PickNode
  <2> QED BY <1>10, <2>1 DEF TypeOK, PickNode, stored, history
<1>11. ASSUME NEW r \in Runner, LaunchNode(r) PROVE TypeOK'
  <2>1. /\ pc[r] \in Working
        /\ current[r] \in Ready(node)
        /\ mem[r] = node
    BY <1>11 DEF LaunchNode, Working, Pc, CurrentInv, CopyInv
  <2>2. PICK n \in Node : n = current[r] /\ node[n].status = "pending"
    BY <2>1 DEF Ready
  <2>3. node[n].attempts < MaxAttempts /\ node[n] \in NodeRecord
    BY <2>2 DEF AttemptInv, TypeOK
  <2> DEFINE rec == [status |-> "running", attempts |-> mem[r][n].attempts + 1]
  <2>4. rec \in NodeRecord
    BY <2>1, <2>3 DEF NodeRecord, NodeStatus
  <2>5. Persist(r, n, rec)
    BY <1>11, <2>2 DEF LaunchNode
  <2> HIDE DEF rec
  <2>6. node' \in [Node -> NodeRecord] /\ mem' \in [Runner -> [Node -> NodeRecord]] /\ run' = run
    BY <2>1, <2>4, <2>5, PersistFacts
  <2>7. fut' \in [Runner -> [Node -> FutureState]]
    BY <1>11, <2>2 DEF LaunchNode, TypeOK, FutureState
  <2>8. /\ pc' \in [Runner -> Pc]
        /\ current' \in [Runner -> Node \cup {None}]
        /\ lateStarts' \in Nat
    BY <1>11 DEF LaunchNode, TypeOK, Goto, Pc
  <2> QED BY <1>11, <2>6, <2>7, <2>8 DEF LaunchNode, TypeOK
<1>12. ASSUME NEW r \in Runner, Wait(r) PROVE TypeOK'
  <2>1. batch' \in [Runner -> SUBSET Node] /\ pc' \in [Runner -> Pc]
    <3>1. CASE UNCHANGED batch /\ (Goto(r, "poll") \/ Goto(r, "finish"))
        BY <3>1, GotoFacts DEF TypeOK, Pc
    <3>2. CASE /\ batch' = [batch EXCEPT ![r] = {n \in Node : fut[r][n] \in Outcome}]
               /\ Goto(r, "collect")
        BY <3>2, GotoFacts DEF TypeOK, Pc
    <3> QED BY <1>12, <3>1, <3>2 DEF Wait
  <2> QED BY <1>12, <2>1 DEF TypeOK, Wait, stored, history
<1>13. ASSUME NEW r \in Runner, NEW n \in Node, CollectNode(r, n) PROVE TypeOK'
  <2>1. pc[r] \in Working /\ fut[r][n] \in Outcome
    BY <1>13 DEF CollectNode, Working, Pc, CurrentInv
  <2>2. OutcomeStatus(fut[r][n]) \in NodeStatus
    BY <2>1 DEF OutcomeStatus, Outcome, NodeStatus, FailedDependencies
  <2>3. node' \in [Node -> NodeRecord] /\ mem' \in [Runner -> [Node -> NodeRecord]] /\ run' = run
    BY <1>13, <2>1, <2>2, PersistStatusFacts DEF CollectNode
  <2>4. fut' \in [Runner -> [Node -> FutureState]]
    BY <1>13 DEF CollectNode, TypeOK, FutureState
  <2>5. /\ pc' \in [Runner -> Pc]
        /\ current' \in [Runner -> Node \cup {None}]
        /\ batch' \in [Runner -> SUBSET Node]
    <3>1. CASE RetryDue(r, n)
      <4>1. /\ current' = [current EXCEPT ![r] = n]
            /\ batch' = [batch EXCEPT ![r] = batch[r] \ {n}]
            /\ Goto(r, "retry")
        BY <1>13, <3>1 DEF CollectNode
      <4>2. pc' \in [Runner -> Pc]
        BY <4>1, GotoFacts DEF Pc
      <4> QED BY <4>1, <4>2 DEF TypeOK
    <3>2. CASE ~RetryDue(r, n)
        BY <1>13, <3>2 DEF CollectNode, TypeOK
    <3> QED BY <3>1, <3>2
  <2> QED BY <1>13, <2>3, <2>4, <2>5 DEF CollectNode, TypeOK, history
<1>14. ASSUME NEW r \in Runner, RetryNode(r) PROVE TypeOK'
  <2>1. pc[r] \in Working /\ current[r] \in Node
    BY <1>14 DEF RetryNode, Working, Pc, CurrentInv
  <2>2. node' \in [Node -> NodeRecord] /\ mem' \in [Runner -> [Node -> NodeRecord]] /\ run' = run
    BY <1>14, <2>1, PersistStatusFacts DEF RetryNode, NodeStatus
  <2> QED BY <1>14, <2>2 DEF RetryNode, TypeOK, Goto, history, Pc
<1>15. ASSUME NEW r \in Runner, CollectDone(r) PROVE TypeOK'
    BY <1>15 DEF TypeOK, CollectDone, Goto, stored, history, Pc
<1>16. ASSUME NEW r \in Runner, Drain(r) PROVE TypeOK'
    BY <1>16, LeaveFacts DEF TypeOK, Drain, stored, history
<1>17. ASSUME NEW r \in Runner, Abort(r) PROVE TypeOK'
    BY <1>17 DEF TypeOK, Abort, Goto, stored, history, Pc
<1>18. ASSUME NEW r \in Runner, Crash(r) PROVE TypeOK'
    BY <1>18, LeaveFacts DEF TypeOK, Crash, stored, history
<1>19. ASSUME NEW r \in Runner, NEW n \in Node, BeginTool(r, n) PROVE TypeOK'
  <2>1. \E o \in FutureState : fut' = [fut EXCEPT ![r][n] = o]
    BY <1>19 DEF BeginTool, FutureState, Outcome
  <2>2. fut' \in [Runner -> [Node -> FutureState]]
    BY <2>1 DEF TypeOK
  <2>3. \/ effects' = effects
        \/ effects' = [effects EXCEPT ![n] = effects[n] + 1]
    BY <1>19 DEF BeginTool
  <2>4. effects' \in [Node -> Nat]
    BY <2>3 DEF TypeOK
  <2> QED BY <1>19, <2>2, <2>4 DEF TypeOK, BeginTool, stored
<1>20. ASSUME NEW r \in Runner, NEW n \in Node, EndTool(r, n) PROVE TypeOK'
    BY <1>20 DEF TypeOK, EndTool, stored, history, FutureState
<1> QED BY <1>1, <1>2, <1>3, <1>4, <1>5, <1>6, <1>7, <1>8, <1>9, <1>10, <1>11,
           <1>12, <1>13, <1>14, <1>15, <1>16, <1>17, <1>18, <1>19, <1>20
        DEF Next, Schedule, Tool

(* While one runner is not idle, every other one is, and runs nothing.     *)
LEMMA Exclusive ==
    ASSUME IInv, NEW r \in Runner, pc[r] # "idle"
    PROVE  /\ lock = r
           /\ \A q \in Runner \ {r} : pc[q] = "idle" /\ fut[q] = NoFutures
BY DEF IInv, Rest, LockInv, FutureInv

(* Taking the flock: the runner that enters is the only one that is not    *)
(* idle.                                                                   *)
LEMMA AcquireRest ==
    ASSUME IInv, NEW r \in Runner, Acquire(r)
    PROVE  Rest'
<1> USE DEF IInv, Rest, TypeOK
<1>1. LockInv'
    BY Exclusive DEF Acquire, LockInv, Goto, stored, history
<1>2. CopyInv'
    BY Exclusive DEF Acquire, CopyInv, Goto, stored, history, Working, Pc
<1>3. FreshInv'
    BY Exclusive DEF Acquire, FreshInv, Goto, stored, history
<1>4. FutureInv'
    BY Exclusive DEF Acquire, FutureInv, Goto, stored, history, Looping, Working, Pc, NoFutures
<1>5. CurrentInv'
    BY Exclusive DEF Acquire, CurrentInv, Goto, stored, history
<1>6. AttemptInv'
    BY Exclusive DEF Acquire, AttemptInv, Goto, stored, history
<1>7. EffectInv'
    BY Exclusive DEF Acquire, EffectInv, Goto, stored, history
<1>8. PhaseInv'
    BY Exclusive DEF Acquire, PhaseInv, Goto, stored, history, Inflight
<1> QED BY <1>1, <1>2, <1>3, <1>4, <1>5, <1>6, <1>7, <1>8

(* Reading the cancel flag decides the next phase and writes nothing.      *)
LEMMA PollRest ==
    ASSUME IInv, NEW r \in Runner, Poll(r)
    PROVE  Rest'
<1> USE DEF IInv, Rest, TypeOK
<1>1. LockInv'
    BY Exclusive DEF Poll, LockInv, Goto, stored, history
<1>2. CopyInv'
    BY Exclusive DEF Poll, CopyInv, Goto, stored, history, Working, Pc
<1>3. FreshInv'
    BY Exclusive DEF Poll, FreshInv, Goto, stored, history
<1>4. FutureInv'
    BY Exclusive DEF Poll, FutureInv, Goto, stored, history, Looping, Working, Pc, NoFutures
<1>5. CurrentInv'
    BY Exclusive DEF Poll, CurrentInv, Goto, stored, history
<1>6. AttemptInv'
    BY Exclusive DEF Poll, AttemptInv, Goto, stored, history
<1>7. EffectInv'
    BY Exclusive DEF Poll, EffectInv, Goto, stored, history
<1>8. PhaseInv'
    BY Exclusive DEF Poll, PhaseInv, Goto, stored, history, Inflight
<1> QED BY <1>1, <1>2, <1>3, <1>4, <1>5, <1>6, <1>7, <1>8

(* When the batch of finished futures is empty the loop goes round.        *)
LEMMA CollectDoneRest ==
    ASSUME IInv, NEW r \in Runner, CollectDone(r)
    PROVE  Rest'
<1> USE DEF IInv, Rest, TypeOK
<1>1. LockInv'
    BY Exclusive DEF CollectDone, LockInv, Goto, stored, history
<1>2. CopyInv'
    BY Exclusive DEF CollectDone, CopyInv, Goto, stored, history, Working, Pc
<1>3. FreshInv'
    BY Exclusive DEF CollectDone, FreshInv, Goto, stored, history
<1>4. FutureInv'
    BY Exclusive DEF CollectDone, FutureInv, Goto, stored, history, Looping, Working, Pc, NoFutures
<1>5. CurrentInv'
    BY Exclusive DEF CollectDone, CurrentInv, Goto, stored, history
<1>6. AttemptInv'
    BY Exclusive DEF CollectDone, AttemptInv, Goto, stored, history
<1>7. EffectInv'
    BY Exclusive DEF CollectDone, EffectInv, Goto, stored, history
<1>8. PhaseInv'
    BY Exclusive DEF CollectDone, PhaseInv, Goto, stored, history, Inflight
<1> QED BY <1>1, <1>2, <1>3, <1>4, <1>5, <1>6, <1>7, <1>8

(* An error of the store: the runner keeps the flock until its tools have  *)
(* ended.                                                                  *)
LEMMA AbortRest ==
    ASSUME IInv, NEW r \in Runner, Abort(r)
    PROVE  Rest'
<1> USE DEF IInv, Rest, TypeOK
<1>1. LockInv'
    BY Exclusive DEF Abort, LockInv, Goto, stored, history
<1>2. CopyInv'
    BY Exclusive DEF Abort, CopyInv, Goto, stored, history, Working, Pc
<1>3. FreshInv'
    BY Exclusive DEF Abort, FreshInv, Goto, stored, history
<1>4. FutureInv'
    BY Exclusive DEF Abort, FutureInv, Goto, stored, history, Looping, Working, Pc, NoFutures
<1>5. CurrentInv'
    BY Exclusive DEF Abort, CurrentInv, Goto, stored, history
<1>6. AttemptInv'
    BY Exclusive DEF Abort, AttemptInv, Goto, stored, history
<1>7. EffectInv'
    BY Exclusive DEF Abort, EffectInv, Goto, stored, history
<1>8. PhaseInv'
    BY Exclusive DEF Abort, PhaseInv, Goto, stored, history, Inflight
<1> QED BY <1>1, <1>2, <1>3, <1>4, <1>5, <1>6, <1>7, <1>8

(* Returning, or dying: the flock is free and nothing of the runner is     *)
(* left.                                                                   *)
LEMMA LeaveRest ==
    ASSUME IInv, NEW r \in Runner, pc[r] # "idle", Leave(r),
           node' = node, run' = run \/ run' # "absent", effects' = effects
    PROVE  Rest'
<1> USE DEF IInv, Rest, TypeOK
<1>1. LockInv'
    BY Exclusive DEF LockInv, Leave, Goto
<1>2. CopyInv'
    BY Exclusive DEF CopyInv, Leave, Goto, Working, Pc
<1>3. FreshInv'
    BY Exclusive DEF FreshInv, Leave, Goto
<1>4. FutureInv'
    BY Exclusive DEF FutureInv, Leave, Goto, Looping, Working, Pc, NoFutures
<1>5. CurrentInv'
    BY Exclusive DEF CurrentInv, Leave, Goto, Outcome
<1>6. AttemptInv'
    BY Exclusive DEF AttemptInv, Leave, Goto
<1>7. EffectInv'
    BY Exclusive DEF EffectInv, Leave, Goto, NoFutures
<1>8. PhaseInv'
    BY Exclusive DEF PhaseInv, Leave, Goto, Inflight
<1> QED BY <1>1, <1>2, <1>3, <1>4, <1>5, <1>6, <1>7, <1>8

(* Recovery, one interrupted node: a write becomes uncertain, a read goes  *)
(* back or fails with its budget.                                          *)
LEMMA RecoverOneRest ==
    ASSUME IInv, NEW r \in Runner, Recover(r), NEW n \in Interrupted(r),
           PersistStatus(r, n, RecoveredStatus(r, n)), pc' = pc
    PROVE  Rest'
<1> USE DEF IInv, Rest, TypeOK
<1> DEFINE s == RecoveredStatus(r, n)
<1>1. n \in Node /\ pc[r] \in Working /\ s \in NodeStatus /\ run # "absent"
    BY DEF Recover, Interrupted, Working, Pc, CopyInv, RecoveredStatus, NodeStatus, FailedDependencies
<1>2. /\ mem[r] = node
      /\ node' = [node EXCEPT ![n] = [node[n] EXCEPT !.status = s]]
      /\ mem' = [mem EXCEPT ![r] = node']
      /\ run' = run
    BY <1>1, PersistStatusFacts DEF CopyInv
<1>3. /\ node[n].status = "running" /\ s \notin {"succeeded", "running"}
      /\ s = "pending" => n \in ReadOnly /\ node[n].attempts < MaxAttempts
    BY <1>1, <1>2 DEF Recover, Interrupted, RecoveredStatus, NodeRecord
<1> HIDE DEF s
<1>4. LockInv'
    BY <1>1, <1>2, <1>3, Exclusive DEF LockInv, Recover, Interrupted, history
<1>5. CopyInv'
    BY <1>1, <1>2, <1>3, Exclusive DEF CopyInv, Recover, Interrupted, history, Working, Pc
<1>6. FreshInv'
    BY <1>1, <1>2, <1>3, Exclusive DEF FreshInv, Recover, Interrupted, history, CopyInv
<1>7. FutureInv'
    BY SMTT(30), <1>1, <1>2, <1>3, Exclusive DEF FutureInv, Recover, Interrupted, history, Looping, Working, Pc, NoFutures, RecoveredStatus, NodeStatus, FailedDependencies, CopyInv
<1>8. CurrentInv'
    BY <1>1, <1>2, <1>3, Exclusive DEF CurrentInv, Recover, Interrupted, history
<1>9. AttemptInv'
    BY <1>1, <1>2, <1>3, Exclusive DEF AttemptInv, Recover, Interrupted, history, RecoveredStatus, NodeStatus, FailedDependencies, CopyInv
<1>10. EffectInv'
    BY <1>1, <1>2, <1>3, Exclusive DEF EffectInv, Recover, Interrupted, history
<1>11. PhaseInv'
    BY <1>1, <1>2, <1>3, Exclusive DEF PhaseInv, Recover, Interrupted, history, Inflight
<1> QED BY <1>4, <1>5, <1>6, <1>7, <1>8, <1>9, <1>10, <1>11

(* Recovery, nothing interrupted is left: from here a running node has a   *)
(* future.                                                                 *)
LEMMA RecoverDoneRest ==
    ASSUME IInv, NEW r \in Runner, Recover(r), Interrupted(r) = {}, UNCHANGED <<stored, mem>>
    PROVE  Rest'
<1> USE DEF IInv, Rest, TypeOK
<1>1. /\ mem[r] = node /\ pc[r] = "recover" /\ Interrupted(r) = {}
      /\ UNCHANGED <<run, node, mem, lock, cancelled, current, batch, fut, effects>>
    BY DEF Recover, CopyInv, Working, Pc, stored, history
<1>2. /\ pc' = [pc EXCEPT ![r] = pc'[r]]
      /\ pc'[r] \in {"poll"}
      /\ pc'[r] = "start" => ~cancelled[r]
      /\ pc'[r] = "wait" => cancelled[r]
    BY <1>1 DEF Recover, Interrupted, Goto, PersistStatus, Persist
<1>3. /\ pc[r] \in Working /\ pc'[r] \in Looping /\ "idle" \notin Looping
      /\ pc[r] = "recover"
      /\ pc'[r] \notin {"idle", "load", "recover"}
    BY <1>1, <1>2 DEF Looping, Working, Pc
<1>4. LockInv'
    BY <1>1, <1>2, <1>3, Exclusive DEF LockInv, Interrupted, NoFutures
<1>5. CopyInv'
    BY <1>1, <1>2, <1>3, Exclusive DEF CopyInv, Interrupted, NoFutures, Working, Pc
<1>6. FreshInv'
    BY <1>1, <1>2, <1>3, Exclusive DEF FreshInv, Interrupted, NoFutures
<1>7. FutureInv'
    BY <1>1, <1>2, <1>3, Exclusive DEF FutureInv, Interrupted, NoFutures
<1>8. CurrentInv'
    BY <1>1, <1>2, <1>3, Exclusive DEF CurrentInv, Interrupted, NoFutures
<1>9. AttemptInv'
    BY <1>1, <1>2, <1>3, Exclusive DEF AttemptInv, Interrupted, NoFutures
<1>10. EffectInv'
    BY <1>1, <1>2, <1>3, Exclusive DEF EffectInv, Interrupted, NoFutures
<1>11. PhaseInv'
    BY <1>1, <1>2, <1>3, Exclusive DEF PhaseInv, Interrupted, NoFutures, Inflight
<1> QED BY <1>4, <1>5, <1>6, <1>7, <1>8, <1>9, <1>10, <1>11

(* The cancel pass, one node: pending or parked nodes are cancelled.       *)
LEMMA CancelNodesOneRest ==
    ASSUME IInv, NEW r \in Runner, CancelNodes(r), NEW n \in Cancellable(r),
           PersistStatus(r, n, "cancelled"), pc' = pc
    PROVE  Rest'
<1> USE DEF IInv, Rest, TypeOK
<1> DEFINE s == "cancelled"
<1>1. n \in Node /\ pc[r] \in Working /\ s \in NodeStatus /\ run # "absent"
    BY DEF CancelNodes, Cancellable, Working, Pc, CopyInv, NodeStatus, FailedDependencies
<1>2. /\ mem[r] = node
      /\ node' = [node EXCEPT ![n] = [node[n] EXCEPT !.status = s]]
      /\ mem' = [mem EXCEPT ![r] = node']
      /\ run' = run
    BY <1>1, PersistStatusFacts DEF CopyInv
<1>3. node[n].status # "running" /\ node[n].status # "succeeded" /\ s \in FailedDependencies
    BY <1>1, <1>2 DEF CancelNodes, Cancellable, FailedDependencies
<1> HIDE DEF s
<1>4. LockInv'
    BY <1>1, <1>2, <1>3, Exclusive DEF LockInv, CancelNodes, Cancellable, history
<1>5. CopyInv'
    BY <1>1, <1>2, <1>3, Exclusive DEF CopyInv, CancelNodes, Cancellable, history, Working, Pc
<1>6. FreshInv'
    BY <1>1, <1>2, <1>3, Exclusive DEF FreshInv, CancelNodes, Cancellable, history, CopyInv
<1>7. FutureInv'
    BY <1>1, <1>2, <1>3, Exclusive DEF FutureInv, CancelNodes, Cancellable, history, Looping, Working, Pc, NoFutures, NodeStatus, FailedDependencies, CopyInv
<1>8. CurrentInv'
    BY <1>1, <1>2, <1>3, Exclusive DEF CurrentInv, CancelNodes, Cancellable, history
<1>9. AttemptInv'
    BY <1>1, <1>2, <1>3, Exclusive DEF AttemptInv, CancelNodes, Cancellable, history, NodeStatus, FailedDependencies, CopyInv
<1>10. EffectInv'
    BY <1>1, <1>2, <1>3, Exclusive DEF EffectInv, CancelNodes, Cancellable, history
<1>11. PhaseInv'
    BY <1>1, <1>2, <1>3, Exclusive DEF PhaseInv, CancelNodes, Cancellable, history, Inflight
<1> QED BY <1>4, <1>5, <1>6, <1>7, <1>8, <1>9, <1>10, <1>11

(* The cancel pass is over: no pending node is left to start.              *)
LEMMA CancelNodesDoneRest ==
    ASSUME IInv, NEW r \in Runner, CancelNodes(r), Cancellable(r) = {}, UNCHANGED <<stored, mem>>
    PROVE  Rest'
<1> USE DEF IInv, Rest, TypeOK
<1>1. /\ mem[r] = node /\ pc[r] = "cancel" /\ Cancellable(r) = {}
      /\ UNCHANGED <<run, node, mem, lock, cancelled, current, batch, fut, effects>>
    BY DEF CancelNodes, CopyInv, Working, Pc, stored, history
<1>2. /\ pc' = [pc EXCEPT ![r] = pc'[r]]
      /\ pc'[r] \in {"block"}
      /\ pc'[r] = "start" => ~cancelled[r]
      /\ pc'[r] = "wait" => cancelled[r]
    BY <1>1 DEF CancelNodes, Cancellable, Goto, PersistStatus, Persist
<1>3. /\ pc[r] \in Working /\ pc'[r] \in Looping /\ "idle" \notin Looping
      /\ pc[r] \in Looping
      /\ pc'[r] \notin {"idle", "load", "recover"}
    BY <1>1, <1>2 DEF Looping, Working, Pc
<1>4. LockInv'
    BY <1>1, <1>2, <1>3, Exclusive DEF LockInv, Looping
<1>5. CopyInv'
    BY <1>1, <1>2, <1>3, Exclusive DEF CopyInv, Looping, Working, Pc
<1>6. FreshInv'
    BY <1>1, <1>2, <1>3, Exclusive DEF FreshInv, Looping
<1>7. FutureInv'
    BY <1>1, <1>2, <1>3, Exclusive DEF FutureInv
<1>8. CurrentInv'
    BY <1>1, <1>2, <1>3, Exclusive DEF CurrentInv, Looping
<1>9. AttemptInv'
    BY <1>1, <1>2, <1>3, Exclusive DEF AttemptInv, Looping
<1>10. EffectInv'
    BY <1>1, <1>2, <1>3, Exclusive DEF EffectInv, Looping
<1>11. PhaseInv'
    BY <1>1, <1>2, <1>3, Exclusive DEF PhaseInv, Looping, Inflight
<1> QED BY <1>4, <1>5, <1>6, <1>7, <1>8, <1>9, <1>10, <1>11

(* The blocking pass, one node whose dependency has failed.                *)
LEMMA BlockNodesOneRest ==
    ASSUME IInv, NEW r \in Runner, BlockNodes(r), NEW n \in Blockable(mem[r]),
           PersistStatus(r, n, "blocked"), pc' = pc
    PROVE  Rest'
<1> USE DEF IInv, Rest, TypeOK
<1> DEFINE s == "blocked"
<1>1. n \in Node /\ pc[r] \in Working /\ s \in NodeStatus /\ run # "absent"
    BY DEF BlockNodes, Blockable, Working, Pc, CopyInv, NodeStatus, FailedDependencies
<1>2. /\ mem[r] = node
      /\ node' = [node EXCEPT ![n] = [node[n] EXCEPT !.status = s]]
      /\ mem' = [mem EXCEPT ![r] = node']
      /\ run' = run
    BY <1>1, PersistStatusFacts DEF CopyInv
<1>3. node[n].status # "running" /\ node[n].status # "succeeded" /\ s \in FailedDependencies
    BY <1>1, <1>2 DEF BlockNodes, Blockable, FailedDependencies
<1> HIDE DEF s
<1>4. LockInv'
    BY <1>1, <1>2, <1>3, Exclusive DEF LockInv, BlockNodes, Blockable, history
<1>5. CopyInv'
    BY <1>1, <1>2, <1>3, Exclusive DEF CopyInv, BlockNodes, Blockable, history, Working, Pc
<1>6. FreshInv'
    BY <1>1, <1>2, <1>3, Exclusive DEF FreshInv, BlockNodes, Blockable, history, CopyInv
<1>7. FutureInv'
    BY <1>1, <1>2, <1>3, Exclusive DEF FutureInv, BlockNodes, Blockable, history, Looping, Working, Pc, NoFutures, NodeStatus, FailedDependencies, CopyInv
<1>8. CurrentInv'
    BY <1>1, <1>2, <1>3, Exclusive DEF CurrentInv, BlockNodes, Blockable, history
<1>9. AttemptInv'
    BY <1>1, <1>2, <1>3, Exclusive DEF AttemptInv, BlockNodes, Blockable, history, NodeStatus, FailedDependencies, CopyInv
<1>10. EffectInv'
    BY <1>1, <1>2, <1>3, Exclusive DEF EffectInv, BlockNodes, Blockable, history
<1>11. PhaseInv'
    BY <1>1, <1>2, <1>3, Exclusive DEF PhaseInv, BlockNodes, Blockable, history, Inflight
<1> QED BY <1>4, <1>5, <1>6, <1>7, <1>8, <1>9, <1>10, <1>11

(* The blocking pass has reached its fixed point: nothing is blockable.    *)
LEMMA BlockNodesDoneRest ==
    ASSUME IInv, NEW r \in Runner, BlockNodes(r), Blockable(mem[r]) = {}, UNCHANGED <<stored, mem>>
    PROVE  Rest'
<1> USE DEF IInv, Rest, TypeOK
<1>1. /\ mem[r] = node /\ pc[r] = "block" /\ Blockable(node) = {}
      /\ UNCHANGED <<run, node, mem, lock, cancelled, current, batch, fut, effects>>
    BY DEF BlockNodes, CopyInv, Working, Pc, stored, history
<1>2. /\ pc' = [pc EXCEPT ![r] = pc'[r]]
      /\ pc'[r] \in {"wait", "start"}
      /\ pc'[r] = "start" => ~cancelled[r]
      /\ pc'[r] = "wait" => cancelled[r]
    BY <1>1 DEF BlockNodes, Blockable, Goto, PersistStatus, Persist
<1>3. /\ pc[r] \in Working /\ pc'[r] \in Looping /\ "idle" \notin Looping
      /\ pc[r] \in Looping
      /\ pc'[r] \notin {"idle", "load", "recover"}
    BY <1>1, <1>2 DEF Looping, Working, Pc
<1>4. LockInv'
    BY <1>1, <1>2, <1>3, Exclusive DEF LockInv
<1>5. CopyInv'
    BY <1>1, <1>2, <1>3, Exclusive DEF CopyInv, Working, Pc
<1>6. FreshInv'
    BY <1>1, <1>2, <1>3, Exclusive DEF FreshInv
<1>7. FutureInv'
  <2>1. FutureInv /\ pc \in [Runner -> Pc]
    OBVIOUS
  <2>2. \A q \in Runner \ {r} : pc[q] = "idle" /\ fut[q] = NoFutures
    BY <1>1, Exclusive
  <2> HIDE DEF IInv, Rest, TypeOK
  <2> QED BY <1>1, <1>2, <1>3, <2>1, <2>2 DEF FutureInv
<1>8. CurrentInv'
    BY <1>1, <1>2, <1>3, Exclusive DEF CurrentInv, Inflight
<1>9. AttemptInv'
    BY <1>1, <1>2, <1>3, Exclusive DEF AttemptInv, Inflight
<1>10. EffectInv'
    BY <1>1, <1>2, <1>3, Exclusive DEF EffectInv, Inflight
<1>11. PhaseInv'
    BY <1>1, <1>2, <1>3, Exclusive DEF PhaseInv, Inflight, Inflight
<1> QED BY <1>4, <1>5, <1>6, <1>7, <1>8, <1>9, <1>10, <1>11

(* The next ready node is picked after a last look at the cancel flag.     *)
LEMMA PickNodeRest ==
    ASSUME IInv, NEW r \in Runner, PickNode(r)
    PROVE  Rest'
<1> USE DEF IInv, Rest, TypeOK
<1>1. mem[r] = node /\ pc[r] = "start" /\ Blockable(node) = {}
    BY DEF CopyInv, Working, Pc, PickNode, PhaseInv
<1>2. \/ Ready(node) = {} \/ cancelled'[r] \/ Inflight(r) # {} \/ pc'[r] = "launch"
  <2>1. Cardinality({}) = 0
    BY FS_EmptySet
  <2>2. CASE Ready(node) = {} \/ Inflight(r) # {}
    BY <2>2
  <2>3. CASE Ready(node) # {} /\ Inflight(r) = {}
    <3>1. Cardinality(Inflight(r)) < MaxWorkers
        BY <2>1, <2>3
    <3>2. \/ cancelled' = [cancelled EXCEPT ![r] = TRUE]
          \/ Goto(r, "launch")
        BY <1>1, <2>3, <3>1 DEF PickNode
    <3> QED BY <3>2 DEF Goto
  <2> QED BY <2>2, <2>3
<1>3. /\ pc' = [pc EXCEPT ![r] = pc'[r]]
      /\ pc'[r] \in {"wait", "launch"}
      /\ pc'[r] = "launch" => current'[r] \in Ready(node) /\ ~cancelled'[r]
      /\ current' = [current EXCEPT ![r] = current'[r]]
      /\ cancelled' = [cancelled EXCEPT ![r] = cancelled'[r]]
    <2>1. CASE Goto(r, "wait") /\ UNCHANGED <<cancelled, current>>
        BY <1>1, <2>1 DEF Goto
    <2>2. CASE /\ cancelled' = [cancelled EXCEPT ![r] = TRUE]
               /\ Goto(r, "wait")
               /\ UNCHANGED current
        BY <1>1, <2>2 DEF Goto
    <2>3. CASE /\ \E n \in Ready(mem[r]) : current' = [current EXCEPT ![r] = n]
               /\ Goto(r, "launch")
               /\ UNCHANGED cancelled
        BY <1>1, <2>3 DEF Goto, PhaseInv
    <2> QED BY <2>1, <2>2, <2>3 DEF PickNode
<1>4. UNCHANGED <<run, node, lock, mem, batch, fut, effects>>
    BY DEF PickNode, stored, history
<1>5. (Inflight(r) # {})' <=> Inflight(r) # {}
    BY <1>4 DEF Inflight
<1>6. /\ pc[r] \in Looping /\ pc'[r] \in Looping /\ "idle" \notin Working
      /\ pc[r] \in Working /\ "idle" \notin Looping
      /\ pc'[r] \notin {"idle", "load", "recover"}
    BY <1>1, <1>3 DEF Looping, Working, Pc
<1>7. LockInv'
    BY <1>1, <1>2, <1>3, <1>4, <1>5, <1>6, Exclusive DEF LockInv, Goto
<1>8. CopyInv'
    BY <1>1, <1>2, <1>3, <1>4, <1>5, <1>6, Exclusive DEF CopyInv, Goto
<1>9. FreshInv'
    BY <1>1, <1>2, <1>3, <1>4, <1>5, <1>6, Exclusive DEF FreshInv, Goto
<1>10. FutureInv'
    BY <1>1, <1>2, <1>3, <1>4, <1>5, <1>6, Exclusive DEF FutureInv, Goto
<1>11. CurrentInv'
    BY <1>1, <1>2, <1>3, <1>4, <1>5, <1>6, Exclusive DEF CurrentInv, Goto
<1>12. AttemptInv'
    BY <1>1, <1>2, <1>3, <1>4, <1>5, <1>6, Exclusive DEF AttemptInv, Goto
<1>13. EffectInv'
    BY <1>1, <1>2, <1>3, <1>4, <1>5, <1>6, Exclusive DEF EffectInv, Goto
<1>14. PhaseInv'
    BY <1>1, <1>2, <1>3, <1>4, <1>5, <1>6, Exclusive DEF PhaseInv, Goto
<1> QED BY <1>7, <1>8, <1>9, <1>10, <1>11, <1>12, <1>13, <1>14

(* Waiting for the first futures to finish, or finding that nothing is     *)
(* left.                                                                   *)
LEMMA WaitRest ==
    ASSUME IInv, NEW r \in Runner, Wait(r)
    PROVE  Rest'
<1> USE DEF IInv, Rest, TypeOK
<1>1. mem[r] = node /\ pc[r] = "wait" /\ Blockable(node) = {}
    BY DEF CopyInv, Working, Pc, Wait, PhaseInv
<1>2. /\ pc' = [pc EXCEPT ![r] = pc'[r]]
      /\ pc'[r] \in {"poll", "finish", "collect"}
    BY <1>1 DEF Wait, Goto
<1>3. UNCHANGED <<run, node, lock, mem, cancelled, current, fut, effects>>
    BY DEF Wait, stored, history
<1>4. pc'[r] = "finish" => /\ Ready(node) = {}
                           /\ \A n \in Node : node[n].status # "running"
  <2> SUFFICES ASSUME pc'[r] = "finish"
               PROVE  /\ Ready(node) = {}
                      /\ \A n \in Node : node[n].status # "running"
    OBVIOUS
  <2>1. Inflight(r) = {} /\ ~(cancelled[r] /\ \E n \in Node : node[n].status = "pending")
    BY <1>1 DEF Wait, Goto
  <2>2. \A n \in Node : node[n].status # "running"
    BY <1>1, <2>1 DEF FutureInv, Inflight, Looping, Working, Pc
  <2>3. Ready(node) = {}
    BY <1>1, <2>1 DEF PhaseInv, Ready
  <2> QED BY <2>2, <2>3
<1>5. /\ batch' = [batch EXCEPT ![r] = batch'[r]]
      /\ batch'[r] \subseteq {n \in Node : fut[r][n] \in Outcome}
    BY DEF Wait, CurrentInv
<1>6. /\ pc[r] \in Looping /\ pc'[r] \in Looping /\ "idle" \notin Working
      /\ pc[r] \in Working /\ "idle" \notin Looping
      /\ pc'[r] \notin {"idle", "load", "recover"}
    BY <1>1, <1>2 DEF Looping, Working, Pc
<1>7. LockInv'
    BY <1>1, <1>2, <1>3, <1>4, <1>5, <1>6, Exclusive DEF LockInv, Goto
<1>8. CopyInv'
    BY <1>1, <1>2, <1>3, <1>4, <1>5, <1>6, Exclusive DEF CopyInv, Goto
<1>9. FreshInv'
    BY <1>1, <1>2, <1>3, <1>4, <1>5, <1>6, Exclusive DEF FreshInv, Goto
<1>10. FutureInv'
    BY <1>1, <1>2, <1>3, <1>4, <1>5, <1>6, Exclusive DEF FutureInv, Goto
<1>11. CurrentInv'
    BY <1>1, <1>2, <1>3, <1>4, <1>5, <1>6, Exclusive DEF CurrentInv, Goto
<1>12. AttemptInv'
    BY <1>1, <1>2, <1>3, <1>4, <1>5, <1>6, Exclusive DEF AttemptInv, Goto
<1>13. EffectInv'
    BY <1>1, <1>2, <1>3, <1>4, <1>5, <1>6, Exclusive DEF EffectInv, Goto
<1>14. PhaseInv'
    BY <1>1, <1>2, <1>3, <1>4, <1>5, <1>6, Exclusive DEF PhaseInv, Goto, Inflight
<1> QED BY <1>7, <1>8, <1>9, <1>10, <1>11, <1>12, <1>13, <1>14

(* One finished future is recorded; a raised read with budget is up for a  *)
(* retry.                                                                  *)
LEMMA CollectNodeRest ==
    ASSUME IInv, NEW r \in Runner, NEW n \in Node, CollectNode(r, n)
    PROVE  Rest'
<1> USE DEF IInv, Rest, TypeOK
<1> DEFINE s == OutcomeStatus(fut[r][n])
<1>1. /\ pc[r] = "collect" /\ run # "absent" /\ pc[r] \in Working /\ fut[r][n] \in Outcome
      /\ s \in {"succeeded", "failed", "rejected", "waiting_approval"} \cap NodeStatus
    BY DEF CollectNode, Working, Pc, CurrentInv, CopyInv, OutcomeStatus, Outcome,
           NodeStatus, FailedDependencies
<1>2. /\ mem[r] = node
      /\ node' = [node EXCEPT ![n] = [node[n] EXCEPT !.status = s]]
      /\ mem' = [mem EXCEPT ![r] = node']
      /\ run' = run
    BY <1>1, PersistStatusFacts DEF CopyInv, CollectNode
<1>3. /\ batch' = [batch EXCEPT ![r] = batch[r] \ {n}]
      /\ fut' = [fut EXCEPT ![r][n] = "none"]
      /\ UNCHANGED <<lock, cancelled, effects>>
    BY DEF CollectNode, history
<1>4. /\ pc' = [pc EXCEPT ![r] = pc'[r]]
      /\ pc'[r] \in {"collect", "retry"}
      /\ current' = [current EXCEPT ![r] = current'[r]]
    BY <1>1 DEF CollectNode, Goto
<1>5. pc'[r] = "retry" => /\ current'[r] = n /\ n \in ReadOnly
                          /\ node[n].attempts < MaxAttempts
                          /\ s = "failed"
    BY <1>1, <1>2 DEF CollectNode, Goto, RetryDue, OutcomeStatus
<1>6. node[n].status = "running"
    BY <1>1 DEF FutureInv, Outcome
<1> HIDE DEF s
<1>7. LockInv'
    BY <1>1, <1>2, <1>3, <1>4, <1>5, <1>6, Exclusive DEF LockInv, Outcome
<1>8. CopyInv'
    BY <1>1, <1>2, <1>3, <1>4, <1>5, <1>6, Exclusive DEF CopyInv, Outcome, Working, Pc
<1>9. FreshInv'
    BY <1>1, <1>2, <1>3, <1>4, <1>5, <1>6, Exclusive DEF FreshInv, Outcome
<1>10. FutureInv'
    BY <1>1, <1>2, <1>3, <1>4, <1>5, <1>6, Exclusive DEF FutureInv, Outcome, Looping, Working, Pc, NoFutures
<1>11. CurrentInv'
    BY <1>1, <1>2, <1>3, <1>4, <1>5, <1>6, Exclusive DEF CurrentInv, Outcome
<1>12. AttemptInv'
    BY <1>1, <1>2, <1>3, <1>4, <1>5, <1>6, Exclusive DEF AttemptInv, Outcome
<1>13. EffectInv'
    BY <1>1, <1>2, <1>3, <1>4, <1>5, <1>6, Exclusive DEF EffectInv, Outcome
<1>14. PhaseInv'
    BY <1>1, <1>2, <1>3, <1>4, <1>5, <1>6, Exclusive DEF PhaseInv, Outcome, Inflight
<1> QED BY <1>7, <1>8, <1>9, <1>10, <1>11, <1>12, <1>13, <1>14

(* The second save of a retry: the failed read is pending again.           *)
LEMMA RetryNodeRest ==
    ASSUME IInv, NEW r \in Runner, RetryNode(r)
    PROVE  Rest'
<1> USE DEF IInv, Rest, TypeOK
<1> DEFINE n == current[r]
<1>1. /\ pc[r] = "retry" /\ run # "absent" /\ pc[r] \in Working /\ n \in Node /\ n \in ReadOnly
      /\ node[n].status = "failed" /\ node[n].attempts < MaxAttempts
    BY DEF RetryNode, Working, Pc, CurrentInv, CopyInv
<1>2. /\ mem[r] = node
      /\ node' = [node EXCEPT ![n] = [node[n] EXCEPT !.status = "pending"]]
      /\ mem' = [mem EXCEPT ![r] = node']
      /\ run' = run
    BY <1>1, PersistStatusFacts DEF CopyInv, RetryNode, NodeStatus
<1>3. /\ current' = [current EXCEPT ![r] = None]
      /\ pc' = [pc EXCEPT ![r] = "collect"]
      /\ UNCHANGED <<lock, cancelled, effects, batch, fut>>
    BY DEF RetryNode, history, Goto
<1> HIDE DEF n
<1>4. LockInv'
    BY <1>1, <1>2, <1>3, Exclusive DEF LockInv, Outcome
<1>5. CopyInv'
    BY <1>1, <1>2, <1>3, Exclusive DEF CopyInv, Outcome, Working, Pc
<1>6. FreshInv'
    BY <1>1, <1>2, <1>3, Exclusive DEF FreshInv, Outcome
<1>7. FutureInv'
    BY <1>1, <1>2, <1>3, Exclusive DEF FutureInv, Outcome, Looping, Working, Pc, NoFutures
<1>8. CurrentInv'
    BY <1>1, <1>2, <1>3, Exclusive DEF CurrentInv, Outcome
<1>9. AttemptInv'
    BY <1>1, <1>2, <1>3, Exclusive DEF AttemptInv, Outcome
<1>10. EffectInv'
    BY <1>1, <1>2, <1>3, Exclusive DEF EffectInv, Outcome
<1>11. PhaseInv'
    BY <1>1, <1>2, <1>3, Exclusive DEF PhaseInv, Outcome, Inflight
<1> QED BY <1>4, <1>5, <1>6, <1>7, <1>8, <1>9, <1>10, <1>11

(* A node is saved as running, with its attempt, before its handler is     *)
(* submitted.                                                              *)
LEMMA LaunchNodeRest ==
    ASSUME IInv, NEW r \in Runner, LaunchNode(r)
    PROVE  Rest'
<1> USE DEF IInv, Rest, TypeOK
<1> DEFINE n == current[r]
<1>1. /\ pc[r] = "launch" /\ run # "absent" /\ pc[r] \in Working /\ n \in Ready(node) /\ mem[r] = node
      /\ n \in Node /\ node[n].status = "pending" /\ Blockable(node) = {} /\ ~cancelled[r]
      /\ \A d \in Deps[n] : node[d].status = "succeeded"
    BY DEF LaunchNode, Working, Pc, CurrentInv, CopyInv, Ready, PhaseInv
<1> DEFINE rec == [status |-> "running", attempts |-> node[n].attempts + 1]
<1>2. node[n] \in NodeRecord /\ node[n].attempts < MaxAttempts /\ rec \in NodeRecord
    BY <1>1 DEF AttemptInv, NodeRecord, NodeStatus
<1>3. Persist(r, n, rec)
    BY <1>1 DEF LaunchNode
<1> HIDE DEF rec
<1>4. /\ node' = [node EXCEPT ![n] = rec]
      /\ mem' = [mem EXCEPT ![r] = node']
      /\ run' = run
      /\ node' \in [Node -> NodeRecord]
    BY <1>1, <1>2, <1>3, PersistFacts
<1>5. /\ current' = [current EXCEPT ![r] = None]
      /\ fut' = [fut EXCEPT ![r][n] = "queued"]
      /\ pc' = [pc EXCEPT ![r] = "start"]
      /\ UNCHANGED <<lock, cancelled, effects, batch>>
    BY DEF LaunchNode, Goto
<1>6. rec.status = "running" /\ rec.attempts = node[n].attempts + 1
    BY DEF rec
<1>7. fut[r][n] = "none" /\ node[n].attempts \in Nat
    BY <1>1, <1>2 DEF FutureInv, NodeRecord
<1> HIDE DEF n
<1>8. LockInv'
    BY <1>1, <1>2, <1>4, <1>5, <1>6, <1>7, Exclusive DEF LockInv, Outcome
<1>9. CopyInv'
    BY <1>1, <1>2, <1>4, <1>5, <1>6, <1>7, Exclusive DEF CopyInv, Outcome, Working, Pc
<1>10. FreshInv'
    BY <1>1, <1>2, <1>4, <1>5, <1>6, <1>7, Exclusive DEF FreshInv, Outcome
<1>11. FutureInv'
    BY <1>1, <1>2, <1>4, <1>5, <1>6, <1>7, Exclusive DEF FutureInv, Outcome, Looping, Working, Pc, NoFutures
<1>12. CurrentInv'
    BY SMTT(30), <1>1, <1>2, <1>4, <1>5, <1>6, <1>7, Exclusive DEF CurrentInv, Outcome, FutureInv
<1>13. AttemptInv'
    BY <1>1, <1>2, <1>4, <1>5, <1>6, <1>7, Exclusive DEF AttemptInv, Outcome
<1>14. EffectInv'
    BY <1>1, <1>2, <1>4, <1>5, <1>6, <1>7, Exclusive DEF EffectInv, Outcome, NodeRecord
<1>15. PhaseInv'
    BY <1>1, <1>2, <1>4, <1>5, <1>6, <1>7, Exclusive DEF PhaseInv, Outcome, Inflight, Blockable, FailedDependencies
<1> QED BY <1>8, <1>9, <1>10, <1>11, <1>12, <1>13, <1>14, <1>15

(* The run is created or loaded; a settled one is returned untouched.      *)
LEMMA LoadRest ==
    ASSUME IInv, NEW r \in Runner, Load(r)
    PROVE  Rest'
<1>1. CASE Leave(r) /\ UNCHANGED stored
    BY <1>1, LeaveRest DEF Load, stored, history
<1>2. CASE ~ (Leave(r) /\ UNCHANGED stored)
  <2> USE DEF IInv, Rest, TypeOK
  <2>1. /\ pc[r] = "load" /\ fut[r] = NoFutures
        /\ pc' = [pc EXCEPT ![r] = "recover"]
        /\ mem[r] = [n \in Node |-> NewRecord]
        /\ UNCHANGED <<lock, cancelled, current, batch, fut, effects>>
    BY <1>2 DEF Load, Goto, history, FutureInv, FreshInv
  <2>2. /\ mem' = [mem EXCEPT ![r] = node']
        /\ node' = node
        /\ run' \in {"running", "waiting_approval"}
    <3>1. CASE run = "absent"
        BY <1>2, <2>1, <3>1 DEF Load, FreshInv
    <3>2. CASE run # "absent"
        BY <1>2, <3>2 DEF Load, stored, Settled, RunState, Terminal
    <3> QED BY <3>1, <3>2
  <2>3. /\ "recover" \in Working /\ "recover" \notin Looping
        /\ "idle" \notin Working /\ "idle" \notin Looping
    BY DEF Working, Looping, Pc
  <2>4. LockInv'
    BY <2>1, <2>2, <2>3, Exclusive DEF LockInv
  <2>5. CopyInv'
    BY <2>1, <2>2, <2>3, Exclusive DEF CopyInv
  <2>6. FreshInv'
    BY <2>1, <2>2, <2>3, Exclusive DEF FreshInv
  <2>7. FutureInv'
    BY <2>1, <2>2, <2>3, Exclusive DEF FutureInv
  <2>8. CurrentInv'
    BY <2>1, <2>2, <2>3, Exclusive DEF CurrentInv
  <2>9. AttemptInv'
    BY <2>1, <2>2, <2>3, Exclusive DEF AttemptInv
  <2>10. EffectInv'
    BY <2>1, <2>2, <2>3, Exclusive DEF EffectInv
  <2>11. PhaseInv'
    BY <2>1, <2>2, <2>3, Exclusive DEF PhaseInv
  <2> QED BY <2>4, <2>5, <2>6, <2>7, <2>8, <2>9, <2>10, <2>11
<1> QED BY <1>1, <1>2

(* A tool thread changes its future, and the count of calls at its start.  *)
LEMMA ToolRest ==
    ASSUME IInv, NEW r \in Runner, NEW n \in Node, Tool(r, n)
    PROVE  Rest'
<1> USE DEF IInv, Rest, TypeOK
<1>1. /\ fut[r][n] \in {"queued", "executing"}
      /\ fut' = [fut EXCEPT ![r][n] = fut'[r][n]]
      /\ fut'[r][n] \in Outcome \cup {"executing"}
      /\ UNCHANGED <<run, node, lock, pc, mem, cancelled, current, batch>>
  <2>1. CASE BeginTool(r, n)
    BY <2>1 DEF BeginTool, stored, Outcome
  <2>2. CASE EndTool(r, n)
    <3>1. PICK o \in Outcome : fut' = [fut EXCEPT ![r][n] = o]
        BY <2>2 DEF EndTool
    <3> QED BY <2>2, <3>1 DEF EndTool, stored
  <2> QED BY <2>1, <2>2 DEF Tool
<1>2. \/ effects' = effects
      \/ /\ effects' = [effects EXCEPT ![n] = effects[n] + 1]
         /\ fut[r][n] = "queued"
    BY DEF Tool, BeginTool, EndTool, history
<1>3. /\ pc[r] # "idle" /\ fut'[r][n] \notin {"none", "queued"} /\ fut[r][n] # "none"
      /\ fut[r][n] \notin Outcome
    BY <1>1 DEF FutureInv, NoFutures, Outcome
<1>4. node[n].attempts \in Nat /\ fut[r] # NoFutures
    BY <1>3 DEF NodeRecord, NoFutures
<1>5. LockInv'
    BY <1>1, <1>2, <1>3, <1>4, Exclusive DEF LockInv
<1>6. CopyInv'
    BY <1>1, <1>2, <1>3, <1>4, Exclusive DEF CopyInv
<1>7. FreshInv'
    BY <1>1, <1>2, <1>3, <1>4, Exclusive DEF FreshInv
<1>8. FutureInv'
    BY <1>1, <1>2, <1>3, <1>4, Exclusive DEF FutureInv
<1>9. CurrentInv'
  <2>1. \A q \in Runner : \A m \in Node : fut[q][m] \in Outcome => fut'[q][m] \in Outcome
    <3>1. fut \in [Runner -> [Node -> FutureState]]
        OBVIOUS
    <3> HIDE DEF IInv, Rest, TypeOK
    <3> QED BY <1>1, <1>3, <3>1
  <2> QED BY <1>1, <2>1 DEF CurrentInv
<1>10. AttemptInv'
    BY <1>1, <1>2, <1>3, <1>4, Exclusive DEF AttemptInv
<1>11. EffectInv'
  <2>1. \A m \in Node : /\ node[m].attempts \in Nat
                        /\ fut'[r][m] = "queued" => m # n /\ fut[r][m] = "queued"
    BY <1>1, <1>3 DEF NodeRecord
  <2>2. \A q \in Runner \ {r}, m \in Node : fut'[q][m] = "none"
    BY <1>1, <1>3, Exclusive DEF NoFutures
  <2>3. effects[n] < node[n].attempts \/ effects' = effects
    BY <1>2 DEF EffectInv
  <2>4. EffectInv /\ effects \in [Node -> Nat]
    OBVIOUS
  <2> HIDE DEF IInv, Rest, TypeOK
  <2> SUFFICES ASSUME NEW m \in Node
               PROVE  /\ effects'[m] <= node[m].attempts
                      /\ \A q \in Runner : fut'[q][m] = "queued" => effects'[m] < node[m].attempts
    BY <1>1 DEF EffectInv
  <2>5. \/ effects'[m] = effects[m]
        \/ m = n /\ effects'[m] = effects[m] + 1
    BY <1>2, <2>4
  <2>a. effects[m] \in Nat /\ node[m].attempts \in Nat /\ effects[m] <= node[m].attempts
    BY <2>1, <2>4 DEF EffectInv
  <2>b. effects'[n] = effects[n] + 1 => effects[n] < node[n].attempts
    BY <2>3, <2>4
  <2>6. effects'[m] <= node[m].attempts
    BY <2>5, <2>a, <2>b
  <2>7. ASSUME fut'[r][m] = "queued" PROVE effects'[m] < node[m].attempts
    <3>1. m # n /\ fut[r][m] = "queued"
        BY <2>1, <2>7
    <3> QED BY <2>4, <2>5, <3>1 DEF EffectInv
  <2> QED BY <2>2, <2>6, <2>7
<1>12. PhaseInv'
    BY <1>1, <1>2, <1>3, <1>4, Exclusive DEF PhaseInv, Inflight
<1> QED BY <1>5, <1>6, <1>7, <1>8, <1>9, <1>10, <1>11, <1>12

(* Every step preserves the inductive invariant, action by action.         *)
LEMMA RestStep == IInv /\ [Next]_vars => Rest'
<1> SUFFICES ASSUME IInv, [Next]_vars PROVE Rest'
    OBVIOUS
<1>1. CASE UNCHANGED vars
    BY <1>1 DEF vars, stored, volatile, history, IInv, Rest, LockInv, CopyInv, FreshInv,
       FutureInv, CurrentInv, AttemptInv, EffectInv, PhaseInv, Inflight
<1>2. CASE RequestCancel
    BY <1>2 DEF RequestCancel, stored, volatile, history, IInv, Rest, LockInv, CopyInv,
       FreshInv, FutureInv, CurrentInv, AttemptInv, EffectInv, PhaseInv, Inflight
<1>3. ASSUME NEW r \in Runner, Finish(r) PROVE Rest'
  <2>1. mem[r] = node
    BY <1>3 DEF Finish, IInv, Rest, CopyInv, Working, Pc
  <2>2. RunStatus(mem[r]) # "absent"
    BY DEF RunStatus
  <2> QED BY <1>3, <2>1, <2>2, LeaveRest DEF Finish, history
<1>4. ASSUME NEW r \in Runner, Drain(r) PROVE Rest'
    BY <1>4, LeaveRest DEF Drain, stored, history
<1>5. ASSUME NEW r \in Runner, Crash(r) PROVE Rest'
    BY <1>5, LeaveRest DEF Crash, stored, history
<1>6. ASSUME NEW r \in Runner, Recover(r) PROVE Rest'
    BY <1>6, RecoverOneRest, RecoverDoneRest DEF Recover
<1>7. ASSUME NEW r \in Runner, CancelNodes(r) PROVE Rest'
    BY <1>7, CancelNodesOneRest, CancelNodesDoneRest DEF CancelNodes
<1>8. ASSUME NEW r \in Runner, BlockNodes(r) PROVE Rest'
    BY <1>8, BlockNodesOneRest, BlockNodesDoneRest DEF BlockNodes
<1> QED BY <1>1, <1>2, <1>3, <1>4, <1>5, <1>6, <1>7, <1>8, AcquireRest, LoadRest,
           PollRest, PickNodeRest, LaunchNodeRest, WaitRest, CollectNodeRest,
           RetryNodeRest, CollectDoneRest, AbortRest, ToolRest
        DEF Next, Schedule

(* The inductive invariant holds at the start.                             *)
LEMMA InitIInv == Init => IInv
<1> SUFFICES ASSUME Init PROVE IInv
    OBVIOUS
<1>1. NewRecord \in NodeRecord /\ NewRecord.status = "pending" /\ NewRecord.attempts = 0
    BY DEF NewRecord, NodeRecord, NodeStatus
<1>2. TypeOK
  <2>1. NoFutures \in [Node -> FutureState] /\ "idle" \in Pc /\ "absent" \in RunState
    BY DEF NoFutures, FutureState, Pc, RunState
  <2>2. /\ run \in RunState /\ node \in [Node -> NodeRecord]
        /\ lock \in Runner \cup {None} /\ cancelRequested \in BOOLEAN
        /\ pc \in [Runner -> Pc] /\ mem \in [Runner -> [Node -> NodeRecord]]
    BY <1>1, <2>1 DEF Init
  <2>3. /\ cancelled \in [Runner -> BOOLEAN]
        /\ current \in [Runner -> Node \cup {None}]
        /\ batch \in [Runner -> SUBSET Node]
        /\ fut \in [Runner -> [Node -> FutureState]]
    BY <2>1 DEF Init
  <2>4. /\ effects \in [Node -> Nat] /\ lateStarts \in Nat
        /\ interrupts \in 0..MaxInterrupts
    BY DEF Init
  <2> QED BY <2>2, <2>3, <2>4 DEF TypeOK
<1>3. LockInv /\ CopyInv /\ FreshInv /\ FutureInv
    BY <1>1 DEF Init, LockInv, CopyInv, FreshInv, FutureInv, Working, Looping, Pc, NoFutures
<1>4. CurrentInv /\ AttemptInv /\ EffectInv /\ PhaseInv
    BY <1>1 DEF Init, CurrentInv, AttemptInv, EffectInv, PhaseInv, NoFutures
<1> QED BY <1>2, <1>3, <1>4 DEF IInv, Rest

(* The inductive invariant holds in every behaviour: the parts above are   *)
(* what the code of runtime.py and scheduler.py relies on at each line.    *)
THEOREM Invariance == Spec => []IInv
<1>1. IInv /\ [Next]_vars => IInv'
    BY TypeStep, RestStep DEF IInv, Rest
<1> QED BY <1>1, InitIInv, PTL DEF Spec

(* The variables keep their types: attempts stay within MaxAttempts,       *)
(* through every crash, retry and recovery.                                *)
THEOREM TypeCorrect == Spec => []TypeOK
<1>1. IInv => TypeOK
    BY DEF IInv
<1> QED BY <1>1, Invariance, PTL

(* A write tool is called at most once, however often the run is retried,  *)
(* interrupted and submitted again.                                        *)
THEOREM WritesHappenAtMostOnce == Spec => []WriteAtMostOnce
<1>1. IInv => WriteAtMostOnce
    BY DEF IInv, Rest, TypeOK, EffectInv, AttemptInv, WriteAtMostOnce, NodeRecord
<1> QED BY <1>1, Invariance, PTL

(* Every call of a handler was saved as an attempt before it was made.     *)
THEOREM CallsAreRecorded == Spec => []EffectsRecorded
<1>1. IInv => EffectsRecorded
    BY DEF IInv, Rest, EffectInv, EffectsRecorded
<1> QED BY <1>1, Invariance, PTL

(* Only the holder of the flock has tools running.                         *)
THEOREM ExecutionIsExclusive == Spec => []ExclusiveExecution
<1>1. IInv => ExclusiveExecution
    BY DEF IInv, Rest, LockInv, FutureInv, ExclusiveExecution, Inflight, NoFutures
<1> QED BY <1>1, Invariance, PTL

(* What was called had its dependencies succeeded, and they stay so.       *)
THEOREM DependenciesComeFirst == Spec => []DependenciesFirst
<1>1. IInv => DependenciesFirst
  <2> SUFFICES ASSUME IInv, NEW n \in Node, effects[n] > 0, NEW d \in Deps[n]
               PROVE  node[d].status = "succeeded"
    BY DEF DependenciesFirst
  <2>1. node[n].attempts \in Nat /\ effects[n] \in Nat /\ effects[n] <= node[n].attempts
    BY DEF IInv, Rest, TypeOK, EffectInv, NodeRecord
  <2> QED BY <2>1 DEF IInv, Rest, AttemptInv
<1> QED BY <1>1, Invariance, PTL
-----------------------------------------------------------------------------
(* A late start uses up the only runner that had picked its node before    *)
(* the request came.                                                       *)
LateInv == /\ lateStarts <= 1
           /\ lateStarts > 0 => cancelRequested /\ \A r \in Runner : pc[r] # "launch"

(* The bound on late starts is kept: one node is picked between two looks  *)
(* at the cancel flag.                                                     *)
LEMMA LateStep == IInv /\ LateInv /\ [Next]_vars => LateInv'
<1> SUFFICES ASSUME IInv, LateInv, [Next]_vars PROVE LateInv'
    OBVIOUS
<1> USE DEF LateInv
<1>0. pc \in [Runner -> Pc] /\ lateStarts \in Nat
    BY DEF IInv, TypeOK
<1>1. ASSUME NEW r \in Runner, LaunchNode(r) PROVE LateInv'
  <2>1. /\ pc[r] = "launch" /\ lateStarts = 0
        /\ \A q \in Runner \ {r} : pc[q] = "idle"
    BY <1>0, <1>1, Exclusive DEF LaunchNode
  <2> QED BY <1>0, <1>1, <2>1 DEF LaunchNode, Goto
<1>2. ASSUME NEW r \in Runner, PickNode(r) PROVE LateInv'
  <2>1. \/ Goto(r, "wait")
        \/ Goto(r, "launch") /\ ~cancelRequested
    BY <1>2 DEF PickNode
  <2>2. UNCHANGED <<lateStarts, cancelRequested>>
    BY <1>2 DEF PickNode, history
  <2> QED BY <1>0, <2>1, <2>2 DEF Goto
<1>3. CASE /\ lateStarts' = lateStarts
           /\ cancelRequested => cancelRequested'
           /\ \A r \in Runner : pc'[r] = "launch" => pc[r] = "launch"
    BY <1>3
<1>4. CASE RequestCancel \/ UNCHANGED vars
    BY <1>3, <1>4 DEF RequestCancel, vars, volatile, history
<1>5. ASSUME NEW r \in Runner, NEW l \in Pc \ {"launch"}, pc' = [pc EXCEPT ![r] = l],
             UNCHANGED <<lateStarts, cancelRequested>>
      PROVE  LateInv'
    BY <1>0, <1>5
<1>6. ASSUME UNCHANGED <<pc, lateStarts, cancelRequested>> PROVE LateInv'
    BY <1>6
<1>7. ASSUME NEW r \in Runner, Schedule(r), ~PickNode(r), ~LaunchNode(r) PROVE LateInv'
  <2>1. CASE Load(r) \/ Finish(r) \/ Drain(r)
    BY <1>5, <2>1 DEF Load, Finish, Drain, Leave, Goto, history, Pc
  <2>2. CASE Recover(r)
    BY <1>5, <1>6, <2>2 DEF Recover, Goto, history, Pc
  <2>3. CASE CancelNodes(r)
    BY <1>5, <1>6, <2>3 DEF CancelNodes, Goto, history, Pc
  <2>4. CASE BlockNodes(r)
    <3>1. \/ pc' = pc
          \/ pc' = [pc EXCEPT ![r] = "wait"]
          \/ pc' = [pc EXCEPT ![r] = "start"]
        BY <2>4 DEF BlockNodes, Goto
    <3> QED BY <1>5, <1>6, <2>4, <3>1 DEF BlockNodes, history, Pc
  <2>5. CASE Poll(r)
    <3>1. \/ pc' = [pc EXCEPT ![r] = "cancel"]
          \/ pc' = [pc EXCEPT ![r] = "block"]
        BY <2>5 DEF Poll, Goto
    <3> QED BY <1>5, <2>5, <3>1 DEF Poll, history, Pc
  <2>6. CASE Wait(r)
    <3>1. \E l \in {"poll", "finish", "collect"} : pc' = [pc EXCEPT ![r] = l]
        BY <2>6 DEF Wait, Goto
    <3> QED BY <1>5, <2>6, <3>1 DEF Wait, history, Pc
  <2>7. CASE RetryNode(r) \/ CollectDone(r)
    BY <1>5, <2>7 DEF RetryNode, CollectDone, Goto, history, Pc
  <2>8. ASSUME NEW n \in Node, CollectNode(r, n) PROVE LateInv'
    <3>1. \/ pc' = pc
          \/ pc' = [pc EXCEPT ![r] = "retry"]
        BY <2>8 DEF CollectNode, Goto
    <3> QED BY <1>5, <1>6, <2>8, <3>1 DEF CollectNode, history, Pc
  <2> QED BY <1>7, <2>1, <2>2, <2>3, <2>4, <2>5, <2>6, <2>7, <2>8 DEF Schedule
<1>8. ASSUME NEW r \in Runner, Acquire(r) \/ Abort(r) \/ Crash(r) PROVE LateInv'
    BY <1>5, <1>8 DEF Acquire, Abort, Crash, Leave, Goto, history, Pc
<1>9. ASSUME NEW r \in Runner, NEW n \in Node, Tool(r, n) PROVE LateInv'
    BY <1>6, <1>9 DEF Tool, BeginTool, EndTool, history
<1> QED BY <1>1, <1>2, <1>4, <1>7, <1>8, <1>9 DEF Next

(* After a cancel request at most one more attempt is started.             *)
THEOREM LateStartsAreBounded == Spec => []LateStartBound
<1>1. Init => LateInv
    BY DEF Init, LateInv
<1>2. LateInv => LateStartBound
    BY DEF LateInv, LateStartBound
<1> QED BY <1>1, <1>2, LateStep, Invariance, PTL DEF Spec
-----------------------------------------------------------------------------
(* The scheduler never gives up with work it could do: with nothing        *)
(* running, startable or to be blocked, the graph being acyclic, the       *)
(* run's status is a decision.                                             *)
LEMMA StuckIsDecided ==
    ASSUME node \in [Node -> NodeRecord], Ready(node) = {}, Blockable(node) = {},
           \A n \in Node : node[n].status # "running"
    PROVE  RunStatus(node) # "running"
<1> DEFINE P == {n \in Node : node[n].status = "pending"}
           states == {node[n].status : n \in Node}
<1>1. CASE P = {}
  <2>1. states \subseteq NodeStatus \ {"pending", "running"}
    BY <1>1 DEF NodeRecord
  <2>2. states # {}
    BY SMTT(30), GraphAssumption
  <2>3. states = {"succeeded"} \/ states \cap (FailedDependencies \cup {"waiting_approval"}) # {}
    BY <2>1, <2>2 DEF NodeStatus
  <2> QED BY <2>3 DEF RunStatus, FailedDependencies
<1>2. CASE P # {}
  <2>1. PICK n \in P : Deps[n] \cap P = {}
    BY <1>2, AcyclicAssumption
  <2>2. PICK d \in Deps[n] : node[d].status # "succeeded"
    BY <2>1 DEF Ready
  <2>3. d \in Node /\ node[d].status \notin FailedDependencies
    BY <2>1, <2>2, GraphAssumption DEF Blockable
  <2>4. node[d].status \in NodeStatus \ {"pending", "running", "succeeded"}
    BY <2>1, <2>2, <2>3 DEF NodeRecord
  <2>5. node[d].status = "waiting_approval"
    BY <2>3, <2>4 DEF NodeStatus
  <2>6. "waiting_approval" \in states
    BY <2>3, <2>5
  <2> QED BY <2>6 DEF RunStatus
<1> QED BY <1>1, <1>2

(* The graph operators of the ledger are those of the execution.           *)
LEMMA LedgerGraph ==
    /\ Ledger!Ready(node) = Ready(node)
    /\ Ledger!Blockable(node) = Blockable(node)
    /\ Ledger!RunStatus(node) = RunStatus(node)
    /\ Ledger!NewRecord = NewRecord
BY DEF Ledger!Ready, Ready, Ledger!Blockable, Blockable, Ledger!FailedDependencies,
       FailedDependencies, Ledger!RunStatus, RunStatus, Ledger!NewRecord, NewRecord

(* Every step of the detailed specification is a step of the ledger or a   *)
(* stutter.                                                                *)
LEMMA LedgerStep == IInv /\ [Next]_vars => [Ledger!Next]_(Ledger!vars)
<1> SUFFICES ASSUME IInv, Next PROVE Ledger!Next \/ UNCHANGED stored
    BY DEF vars, stored, Ledger!vars
<1> USE DEF Ledger!Next, Ledger!Open, Ledger!SetStatus
<1>1. ASSUME NEW r \in Runner, NEW n \in Node, NEW s \in NodeStatus,
             pc[r] \in Working, PersistStatus(r, n, s)
      PROVE  /\ Ledger!Open /\ Ledger!SetStatus(n, s) /\ run' = run /\ mem[r] = node
    BY <1>1, PersistStatusFacts DEF IInv, Rest, CopyInv
<1>2. ASSUME NEW r \in Runner, Load(r) PROVE Ledger!Next \/ UNCHANGED stored
  <2>1. CASE run = "absent"
    BY <1>2, <2>1 DEF Load, IInv, Rest, FreshInv, Ledger!Create
  <2>2. CASE run # "absent"
    BY <1>2, <2>2 DEF Load
  <2> QED BY <2>1, <2>2
<1>3. ASSUME NEW r \in Runner, Finish(r) PROVE Ledger!Next \/ UNCHANGED stored
  <2>1. /\ mem[r] = node /\ Ledger!Open
        /\ Ready(node) = {} /\ Blockable(node) = {}
        /\ \A n \in Node : node[n].status # "running"
    BY <1>3 DEF Finish, IInv, Rest, CopyInv, PhaseInv, Working, Pc
  <2>2. RunStatus(node) # "running"
    BY <2>1, StuckIsDecided DEF IInv, TypeOK
  <2> QED BY <1>3, <2>1, <2>2, LedgerGraph DEF Finish, Ledger!Close
<1>4. ASSUME NEW r \in Runner, Recover(r) PROVE Ledger!Next \/ UNCHANGED stored
  <2>1. CASE UNCHANGED stored
    BY <2>1
  <2>2. CASE \E n \in Interrupted(r) : PersistStatus(r, n, RecoveredStatus(r, n))
    <3>1. PICK n \in Node : /\ mem[r][n].status = "running"
                            /\ PersistStatus(r, n, RecoveredStatus(r, n))
        BY <2>2 DEF Interrupted
    <3>2. pc[r] \in Working /\ RecoveredStatus(r, n) \in NodeStatus
        BY <1>4 DEF Recover, Working, Pc, RecoveredStatus, NodeStatus, FailedDependencies
    <3>3. /\ Ledger!Open /\ Ledger!SetStatus(n, RecoveredStatus(r, n)) /\ run' = run
          /\ node[n].status = "running" /\ node[n].attempts \in 0..MaxAttempts
          /\ mem[r] = node
        BY <1>1, <3>1, <3>2 DEF IInv, TypeOK, NodeRecord
    <3>4. CASE n \notin ReadOnly
        BY <3>3, <3>4 DEF RecoveredStatus, Ledger!Recover
    <3>5. CASE n \in ReadOnly /\ node[n].attempts = MaxAttempts
      <4>1. mem[r][n].attempts \in Nat /\ MaxAttempts \in Nat
        BY <3>3
      <4>2. RecoveredStatus(r, n) = "failed"
        BY <3>3, <3>5, <4>1 DEF RecoveredStatus
      <4> QED BY <3>3, <3>5, <4>2 DEF Ledger!Recover
    <3>6. CASE n \in ReadOnly /\ node[n].attempts < MaxAttempts
      <4>1. mem[r][n].attempts \in Nat /\ MaxAttempts \in Nat
        BY <3>3
      <4>2. RecoveredStatus(r, n) = "pending"
        BY <3>3, <3>6, <4>1 DEF RecoveredStatus
      <4> QED BY <3>3, <3>6, <4>2 DEF Ledger!Recover
    <3> QED BY <3>3, <3>4, <3>5, <3>6
  <2> QED BY <1>4, <2>1, <2>2 DEF Recover
<1>5. ASSUME NEW r \in Runner, CancelNodes(r) PROVE Ledger!Next \/ UNCHANGED stored
  <2>1. CASE UNCHANGED stored
    BY <2>1
  <2>2. CASE \E n \in Cancellable(r) : PersistStatus(r, n, "cancelled")
    BY <1>1, <1>5, <2>2
       DEF CancelNodes, Cancellable, Working, Pc, NodeStatus, FailedDependencies, Ledger!Cancel
  <2> QED BY <1>5, <2>1, <2>2 DEF CancelNodes
<1>6. ASSUME NEW r \in Runner, BlockNodes(r) PROVE Ledger!Next \/ UNCHANGED stored
  <2>1. CASE UNCHANGED stored
    BY <2>1
  <2>2. CASE \E n \in Blockable(mem[r]) : PersistStatus(r, n, "blocked")
    <3>1. PICK n \in Blockable(mem[r]) : PersistStatus(r, n, "blocked")
        BY <2>2
    <3>2. n \in Node /\ pc[r] \in Working /\ "blocked" \in NodeStatus
        BY <1>6, <3>1 DEF Blockable, BlockNodes, Working, Pc, NodeStatus, FailedDependencies
    <3> QED BY <1>1, <3>1, <3>2, LedgerGraph DEF Ledger!Block
  <2> QED BY <1>6, <2>1, <2>2 DEF BlockNodes
<1>7. ASSUME NEW r \in Runner, LaunchNode(r) PROVE Ledger!Next
  <2> DEFINE n == current[r]
             rec == [status |-> "running", attempts |-> node[n].attempts + 1]
  <2>1. /\ pc[r] \in Working /\ n \in Ready(node) /\ n \in Node
        /\ mem[r] = node /\ Ledger!Open
    BY <1>7 DEF LaunchNode, Working, Pc, IInv, Rest, CurrentInv, CopyInv, Ready
  <2>2. node[n] \in NodeRecord /\ node[n].attempts < MaxAttempts
    BY <2>1 DEF Ready, IInv, TypeOK, Rest, AttemptInv
  <2>3. rec \in NodeRecord
    BY <2>2 DEF NodeRecord, NodeStatus
  <2>4. node' = [node EXCEPT ![n] = rec] /\ run' = run
    BY <1>7, <2>1, <2>3, PersistFacts DEF LaunchNode, IInv, Rest
  <2> QED BY <2>1, <2>2, <2>4, LedgerGraph DEF Ledger!Start
<1>8. ASSUME NEW r \in Runner, NEW n \in Node, CollectNode(r, n) PROVE Ledger!Next
  <2> DEFINE s == OutcomeStatus(fut[r][n])
  <2>1. fut[r][n] \in Outcome /\ pc[r] \in Working
    BY <1>8 DEF CollectNode, Working, Pc, IInv, Rest, CurrentInv
  <2>2. s \in {"succeeded", "failed", "rejected", "waiting_approval"} \cap NodeStatus
    BY <2>1 DEF OutcomeStatus, Outcome, NodeStatus, FailedDependencies
  <2>3. node[n].status = "running"
    BY <2>1 DEF Outcome, IInv, Rest, FutureInv
  <2>4. PersistStatus(r, n, s)
    BY <1>8 DEF CollectNode
  <2> HIDE DEF s
  <2>5. Ledger!Open /\ Ledger!SetStatus(n, s) /\ run' = run
    BY <1>1, <2>1, <2>2, <2>4
  <2> QED BY <2>2, <2>3, <2>5 DEF Ledger!Settle
<1>9. ASSUME NEW r \in Runner, RetryNode(r) PROVE Ledger!Next
  <2>1. /\ current[r] \in Node /\ current[r] \in ReadOnly /\ pc[r] \in Working
        /\ node[current[r]].status = "failed"
        /\ node[current[r]].attempts < MaxAttempts
    BY <1>9 DEF RetryNode, IInv, Rest, CurrentInv, Working, Pc
  <2>2. /\ Ledger!Open /\ Ledger!SetStatus(current[r], "pending") /\ run' = run
    BY <1>1, <1>9, <2>1 DEF RetryNode, NodeStatus
  <2> QED BY <2>1, <2>2 DEF Ledger!Retry
<1>10. ASSUME NEW r \in Runner,
              \/ Acquire(r) \/ Poll(r) \/ PickNode(r) \/ Wait(r) \/ CollectDone(r)
              \/ Drain(r) \/ Abort(r) \/ Crash(r) \/ \E n \in Node : Tool(r, n)
       PROVE  UNCHANGED stored
    BY <1>10 DEF Acquire, Poll, PickNode, Wait, CollectDone, Drain, Abort, Crash, Tool,
                 BeginTool, EndTool
<1>11. CASE RequestCancel
    BY <1>11 DEF RequestCancel
<1> QED BY <1>2, <1>3, <1>4, <1>5, <1>6, <1>7, <1>8, <1>9, <1>10, <1>11 DEF Next, Schedule

(* The store of PlanRuntime implements PlanLedger: whoever reads plan_runs *)
(* sees only the transitions it allows, and a finished run never changes.  *)
THEOREM ImplementsLedger == Spec => LedgerSpec
<1>1. Init => Ledger!Init
    BY LedgerGraph DEF Init, Ledger!Init
<1> QED BY <1>1, LedgerStep, Invariance, PTL DEF Spec, LedgerSpec, Ledger!Spec
=============================================================================
