---------------------------- MODULE RuntimeLoop ----------------------------
(***************************************************************************)
(* The model runtime of one session: RuntimeEngine.run and the RuntimeLoop *)
(* below it, which asks the model for a reply, makes the tool calls the    *)
(* reply plans, and saves a checkpoint when the turn is over.              *)
(*                                                                         *)
(* A cancel request arrives from another thread at any time; the process   *)
(* may die between any two steps, and the session is then resumed from its *)
(* latest checkpoint.  What the model replies, and how a tool call ends,   *)
(* is free.  An exception may leave the loop: the run then has no result.  *)
(***************************************************************************)
EXTENDS Naturals, Sequences

CONSTANTS
    Invocation,    \* _invocation_key: tool, target and arguments of a call
    Denied,        \* invocations that ToolExecutor.preflight rejects
    Gated,         \* invocations of tools that require approval
    Reading,       \* invocations whose success pins sources: read_source and
                   \* read_evidence
    Evidence,      \* those of read_evidence, which leaves out what is pinned
    Plan,          \* the replies a model may give: sequences of tasks, each
                   \* the sequence of its planned invocations
    MaxTurns, MaxTasks, MaxToolCalls, MaxTotalToolCalls, \* RuntimeConfig
    MaxResumes     \* bound: how often the session is resumed

ASSUME RuntimeAssumption ==
    /\ Denied \subseteq Invocation /\ Gated \subseteq Invocation
    /\ Evidence \subseteq Reading /\ Reading \subseteq Invocation
    /\ Plan \subseteq Seq(Seq(Invocation)) \ {<<>>}
    /\ MaxTurns \in 1..32 /\ MaxTasks \in 1..8 /\ MaxToolCalls \in 1..8
    /\ MaxTotalToolCalls \in 1..64
    /\ MaxResumes \in Nat

VARIABLES
    pc,        \* where the loop is; "stopped" once it has returned, "raised"
               \* once an exception has left it, "dead" once its process has
               \* ended
    outcome,   \* RuntimeResult.status
    session,   \* Session.status
    turn,      \* Turn.status of the last turn; the earlier ones are completed
    turnCount, \* len(turns), the restored ones included
    turnNumber,\* turn_number, the counter of this run
    plan,      \* the tasks of the reply that have not begun
    todo,      \* the invocations left in the current task
    tasks,     \* Task.status of every task of the session, the current one last
    calls,     \* every tool call of the session: its invocation and status;
               \* one that succeeded with nothing but reused_pins is "reused"
    done,      \* the keys of completed_invocations
    called,    \* turn_had_tool_call
    fresh,     \* turn_had_fresh_tool_call
    duplicateOnly, \* duplicate_only_turns
    cancel,    \* what cancel_requested() answers
    saved,     \* the latest RuntimeSnapshot in the checkpoint store
    resumes,   \* how often the session was resumed
    late,      \* history: tools run since the cancel request
    effects    \* history: how often each invocation ran with success

turnVars == <<turn, turnCount, turnNumber>>
workVars == <<plan, todo, tasks, calls, done>>
flagVars == <<called, fresh, duplicateOnly>>
history == <<late, effects>>
vars == <<pc, outcome, session, turnVars, workVars, flagVars, cancel, saved, resumes, history>>

OpenTask == {"pending", "running", "waiting_tool", "waiting_approval"}
NothingSaved == [turnCount |-> 0, tasks |-> <<>>, calls |-> <<>>, done |-> {}]

TypeOK ==
    /\ pc \in {"start", "turn", "model", "task", "call", "tool", "record", "turn_end", "stopped", "raised", "dead"}
    /\ outcome \in {"none", "completed", "failed", "cancelled", "waiting_approval"}
    /\ session \in {"active", "waiting", "completed", "failed", "cancelled"}
    /\ turn \in {"none", "pending", "running", "waiting_tool", "completed", "failed"}
    /\ turnNumber \in 1..MaxTurns + 1
    /\ turnCount \in 0..MaxTurns * (MaxResumes + 1)
    /\ plan \in Seq(Seq(Invocation)) /\ todo \in Seq(Invocation)
    /\ tasks \in Seq(OpenTask \cup {"succeeded", "failed", "cancelled"})
    /\ calls \in Seq([inv : Invocation, status : {"running", "succeeded", "reused", "failed", "denied"}])
    /\ Len(calls) <= MaxTotalToolCalls
    /\ done \subseteq Invocation
    /\ called \in BOOLEAN /\ fresh \in BOOLEAN /\ cancel \in BOOLEAN
    /\ duplicateOnly \in 0..2
    /\ resumes \in 0..MaxResumes
    /\ DOMAIN saved = {"turnCount", "tasks", "calls", "done"}
    /\ late \in Nat /\ effects \in [Invocation -> Nat]

Init ==
    /\ pc = "start" /\ outcome = "none" /\ session = "active"
    /\ turn = "none" /\ turnCount = 0 /\ turnNumber = 1
    /\ plan = <<>> /\ todo = <<>> /\ tasks = <<>> /\ calls = <<>> /\ done = {}
    /\ called = FALSE /\ fresh = FALSE /\ duplicateOnly = 0
    /\ cancel = FALSE /\ saved = NothingSaved /\ resumes = 0
    /\ late = 0 /\ effects = [i \in Invocation |-> 0]

-----------------------------------------------------------------------------
(* The ways a run ends.                                                    *)

Return(status) == pc' = "stopped" /\ outcome' = status

(* _fail(): the tasks and the calls stay as they are.                      *)
Fail ==
    /\ Return("failed")
    /\ turn' = IF turn \in {"running", "waiting_tool"} THEN "failed" ELSE turn
    /\ session' = IF session \in {"active", "waiting"} THEN "failed" ELSE session

(* Mutant: the running task is left as it is.                              *)
CancelPendingTasks == tasks' = [k \in DOMAIN tasks |-> IF tasks[k] = "pending" THEN "cancelled" ELSE tasks[k]]

(* The tasks that cancellation_result() settles.                           *)
CancelOpenTasks == tasks' = [k \in DOMAIN tasks |-> IF tasks[k] \in OpenTask THEN "cancelled" ELSE tasks[k]]

(* cancellation_result(): settles the turn and every task that is open.    *)
Cancelled ==
    /\ Return("cancelled")
    /\ CancelOpenTasks
    /\ turn' = IF turn \in {"running", "waiting_tool"} THEN "completed" ELSE turn
    /\ session' = IF session \in {"active", "waiting"} THEN "cancelled" ELSE session

-----------------------------------------------------------------------------
(* A turn.                                                                 *)

(* The system message has to fit the budget; if not, the run fails with a  *)
(* bootstrap turn that never started and is not of the session.            *)
Preflight ==
    /\ pc = "start"
    /\ \/ pc' = "turn" /\ UNCHANGED <<outcome, session, turn>>
       \/ Fail
    /\ UNCHANGED <<turnCount, turnNumber, workVars, flagVars, cancel, saved, resumes, history>>

TurnsAreLeft == turnNumber <= MaxTurns

StartTurn ==
    /\ pc = "turn" /\ TurnsAreLeft
    /\ turnCount' = turnCount + 1
    /\ called' = FALSE /\ fresh' = FALSE
    /\ \/ ~cancel /\ pc' = "model" /\ turn' = "running" /\ UNCHANGED <<outcome, session, tasks>>
       \/ /\ cancel /\ Return("cancelled") /\ CancelOpenTasks
          /\ turn' = "completed" /\ session' = "cancelled"
    /\ UNCHANGED <<turnNumber, plan, todo, calls, done, duplicateOnly, cancel, saved, resumes, history>>

TurnsExhausted ==
    /\ pc = "turn" /\ ~TurnsAreLeft
    /\ Fail
    /\ UNCHANGED <<turnCount, turnNumber, workVars, flagVars, cancel, saved, resumes, history>>

(* The context does not fit, the model times out or fails, or its reply    *)
(* cannot be parsed: the cancel flag is not looked at.                     *)
ModelFails ==
    /\ pc = "model"
    /\ Fail
    /\ UNCHANGED <<turnCount, turnNumber, workVars, flagVars, cancel, saved, resumes, history>>

(* What memory_context_provider raises is no ValueError, and not caught.   *)
ContextRaises ==
    /\ pc = "model"
    /\ pc' = "raised"
    /\ UNCHANGED <<outcome, session, turnVars, workVars, flagVars, cancel, saved, resumes, history>>

(* A final answer completes the session; its tasks are settled by now.     *)
ModelConcludes ==
    /\ pc = "model"
    /\ \/ cancel /\ Cancelled
       \/ /\ ~cancel /\ Return("completed")
          /\ turn' = "completed" /\ session' = "completed" /\ UNCHANGED tasks
    /\ UNCHANGED <<turnCount, turnNumber, plan, todo, calls, done, flagVars, cancel, saved, resumes, history>>

ModelPlans ==
    /\ pc = "model"
    /\ \E p \in Plan :
         \/ cancel /\ Cancelled /\ UNCHANGED plan
         \/ ~cancel /\ Len(p) > MaxTasks /\ Fail /\ UNCHANGED <<plan, tasks>>
         \/ /\ ~cancel /\ Len(p) <= MaxTasks
            /\ pc' = "task" /\ plan' = p
            /\ UNCHANGED <<outcome, session, turn, tasks>>
    /\ UNCHANGED <<turnCount, turnNumber, todo, calls, done, flagVars, cancel, saved, resumes, history>>

StartTask ==
    /\ pc = "task"
    /\ tasks' = Append(tasks, "running")
    /\ plan' = Tail(plan)
    /\ \/ /\ Len(Head(plan)) <= MaxToolCalls
          /\ pc' = "call" /\ todo' = Head(plan) /\ UNCHANGED <<outcome, session, turn>>
       \/ Len(Head(plan)) > MaxToolCalls /\ Fail /\ UNCHANGED todo
    /\ UNCHANGED <<turnCount, turnNumber, calls, done, flagVars, cancel, saved, resumes, history>>

(* Mutant: the first task of the session is closed.                        *)
CloseFirstTask(status) == [tasks EXCEPT ![1] = IF @ = "running" THEN status ELSE @]

CloseTask(status) == [tasks EXCEPT ![Len(tasks)] = IF @ = "running" THEN status ELSE @]

(* After its last call the task succeeds, unless a call has failed it.     *)
EndTask ==
    /\ pc = "call" /\ todo = <<>>
    /\ tasks' = CloseTask("succeeded")
    /\ pc' = IF plan = <<>> THEN "turn_end" ELSE "task"
    /\ UNCHANGED <<outcome, session, turnVars, plan, todo, calls, done, flagVars, cancel, saved, resumes, history>>

-----------------------------------------------------------------------------
(* A tool call.                                                            *)

(* Mutants: only checkpointed successes count; or only after a call that ran. *)
CheckpointedOnly(i) == i \in saved.done
FreshAlready(i) == i \in done /\ fresh

(* The key is in completed_invocations.                                    *)
Duplicate(i) == i \in done

(* Mutant: the limit may be passed by one.                                 *)
OneTooMany == Len(calls) <= MaxTotalToolCalls

BudgetLeft == Len(calls) < MaxTotalToolCalls

(* Mutant: asked before the first call of a turn only.                     *)
StopBeforeFirstCall == cancel /\ ~called

StopBeforeCall == cancel

(* Sources are pinned, and the candidates of i may be among them.  Which   *)
(* ones are, and which pins were dropped for newer ones, is left open.     *)
MayBePinned(i) == i \in Evidence /\ done \cap Reading # {}

(* The checks before a call.  A call that is denied, that already          *)
(* completed, or that has no room left beside what is pinned, is rejected: *)
(* it fails, and fails its task, without running.                          *)
StartCall ==
    /\ pc = "call" /\ todo # <<>>
    /\ \/ StopBeforeCall /\ Cancelled /\ UNCHANGED <<todo, calls, called, fresh>>
       \/ /\ ~StopBeforeCall /\ ~BudgetLeft
          /\ Fail /\ UNCHANGED <<todo, tasks, calls, called, fresh>>
       \/ /\ ~StopBeforeCall /\ BudgetLeft /\ called' = TRUE
          /\ \/ /\ Head(todo) \in Denied \/ Duplicate(Head(todo)) \/ MayBePinned(Head(todo))
                /\ calls' = Append(calls, [inv |-> Head(todo), status |-> "failed"])
                /\ tasks' = CloseTask("failed")
                /\ todo' = Tail(todo)
                /\ UNCHANGED <<pc, fresh>>
             \/ /\ Head(todo) \notin Denied /\ ~Duplicate(Head(todo))
                /\ calls' = Append(calls, [inv |-> Head(todo), status |-> "running"])
                /\ pc' = "tool" /\ fresh' = TRUE
                /\ UNCHANGED <<todo, tasks>>
          /\ UNCHANGED <<outcome, session, turn>>
    /\ UNCHANGED <<turnCount, turnNumber, plan, done, duplicateOnly, cancel, saved, resumes, history>>

(* A call of read_evidence whose candidates are all pinned succeeds with   *)
(* its pins, and nothing runs; that it has completed is not asked before.  *)
ReusePins ==
    /\ pc = "call" /\ todo # <<>> /\ ~StopBeforeCall /\ BudgetLeft
    /\ Head(todo) \notin Denied /\ MayBePinned(Head(todo))
    /\ calls' = Append(calls, [inv |-> Head(todo), status |-> "reused"])
    /\ done' = done \cup {Head(todo)}
    /\ todo' = Tail(todo)
    /\ called' = TRUE
    /\ UNCHANGED <<pc, outcome, session, turnVars, plan, tasks, fresh, duplicateOnly, cancel, saved, resumes, history>>

CloseCall(status) == [calls EXCEPT ![Len(calls)].status = status]

(* Mutant: the run waits for the approval where it is.                     *)
WaitInPlace ==
    /\ pc = "tool" /\ Head(todo) \in Gated
    /\ turn' = "waiting_tool" /\ session' = "waiting"
    /\ UNCHANGED <<pc, outcome, turnCount, turnNumber, workVars, flagVars, cancel, saved, resumes, history>>

(* ToolExecutor.execute() of a gated tool: nothing runs, the session waits *)
(* for an approval and the run returns.                                    *)
AwaitApproval ==
    /\ pc = "tool" /\ Head(todo) \in Gated
    /\ tasks[Len(tasks)] = "running"
    /\ Return("waiting_approval")
    /\ calls' = CloseCall("denied")
    /\ tasks' = [tasks EXCEPT ![Len(tasks)] = "waiting_approval"]
    /\ turn' = "waiting_tool" /\ session' = "waiting"
    /\ UNCHANGED <<turnCount, turnNumber, plan, todo, done, flagVars, cancel, saved, resumes, history>>

(* Task.wait_for_approval() refuses a task that an earlier call has        *)
(* failed, after the call was denied and before the turn and the session   *)
(* wait: nothing catches it.                                               *)
ApprovalRaises ==
    /\ pc = "tool" /\ Head(todo) \in Gated
    /\ tasks[Len(tasks)] # "running"
    /\ calls' = CloseCall("denied")
    /\ pc' = "raised"
    /\ UNCHANGED <<outcome, session, turnVars, plan, todo, tasks, done, flagVars, cancel, saved, resumes, history>>

(* The handler runs; if it raises, execute() makes a failure of it.        *)
ToolSucceeds ==
    /\ pc = "tool" /\ Head(todo) \notin Gated
    /\ effects' = [effects EXCEPT ![Head(todo)] = @ + 1]
    /\ late' = IF cancel THEN late + 1 ELSE late
    /\ pc' = "record"
    /\ UNCHANGED <<outcome, session, turnVars, workVars, flagVars, cancel, saved, resumes>>

RecordSuccess ==
    /\ pc = "record"
    /\ calls' = CloseCall("succeeded")
    /\ done' = done \cup {Head(todo)}
    /\ todo' = Tail(todo)
    /\ pc' = "call"
    /\ UNCHANGED <<outcome, session, turnVars, plan, tasks, flagVars, cancel, saved, resumes, history>>

ToolFails ==
    /\ pc = "tool" /\ Head(todo) \notin Gated
    /\ late' = IF cancel THEN late + 1 ELSE late
    /\ calls' = CloseCall("failed")
    /\ tasks' = CloseTask("failed")
    /\ todo' = Tail(todo)
    /\ pc' = "call"
    /\ UNCHANGED <<outcome, session, turnVars, plan, done, flagVars, cancel, saved, resumes, effects>>

-----------------------------------------------------------------------------
(* The end of a turn: it is the only place where a checkpoint is saved.    *)

OnlyDuplicates == called /\ ~fresh
Snapshot == [turnCount |-> turnCount, tasks |-> tasks, calls |-> calls, done |-> done]

EndTurn ==
    /\ pc = "turn_end"
    /\ \/ cancel /\ Cancelled /\ UNCHANGED <<turnNumber, duplicateOnly, saved>>
       \/ /\ ~cancel
          /\ duplicateOnly' = IF OnlyDuplicates THEN duplicateOnly + 1 ELSE 0
          /\ \/ /\ duplicateOnly' >= 2
                /\ Fail /\ UNCHANGED <<turnNumber, saved>>
             \/ /\ duplicateOnly' < 2
                /\ turn' = "completed"
                /\ saved' = Snapshot
                /\ turnNumber' = turnNumber + 1
                /\ pc' = "turn"
                /\ UNCHANGED <<outcome, session>>
          /\ UNCHANGED tasks
    /\ UNCHANGED <<turnCount, plan, todo, calls, done, called, fresh, cancel, resumes, history>>

-----------------------------------------------------------------------------
(* The outside: a cancel request, the death of the process, a resumption.  *)

Running == pc \notin {"stopped", "raised", "dead"}

RequestCancel ==
    /\ Running /\ ~cancel
    /\ cancel' = TRUE /\ late' = 0
    /\ UNCHANGED <<pc, outcome, session, turnVars, workVars, flagVars, saved, resumes, effects>>

Crash ==
    /\ Running
    /\ pc' = "dead"
    /\ UNCHANGED <<outcome, session, turnVars, workVars, flagVars, cancel, saved, resumes, history>>

(* Mutant: completed_invocations is not restored.                          *)
ForgetsInvocations == [saved EXCEPT !.done = {}]

(* RuntimeEngine.run(resume=True): after the process has died or the run   *)
(* has raised, or after a failure that left a checkpoint.  The turns,      *)
(* tasks, calls and completed invocations are restored; the turn numbers   *)
(* and the count of duplicate turns begin anew, and the cancel flag is     *)
(* that of the new run.                                                    *)
Restored == saved

Resume ==
    /\ resumes < MaxResumes
    /\ pc \in {"dead", "raised"} \/ (outcome = "failed" /\ saved # NothingSaved)
    /\ resumes' = resumes + 1
    /\ pc' = "start" /\ outcome' = "none" /\ session' = "active"
    /\ turnCount' = Restored.turnCount /\ turnNumber' = 1
    /\ turn' = IF Restored.turnCount = 0 THEN "none" ELSE "completed"
    /\ tasks' = Restored.tasks /\ calls' = Restored.calls /\ done' = Restored.done
    /\ plan' = <<>> /\ todo' = <<>>
    /\ called' = FALSE /\ fresh' = FALSE /\ duplicateOnly' = 0
    /\ cancel' = FALSE /\ late' = 0
    /\ UNCHANGED <<saved, effects>>

Loop == \/ Preflight \/ StartTurn \/ TurnsExhausted
        \/ ModelFails \/ ContextRaises \/ ModelConcludes \/ ModelPlans
        \/ StartTask \/ EndTask
        \/ StartCall \/ ReusePins
        \/ AwaitApproval \/ ApprovalRaises \/ ToolSucceeds \/ ToolFails \/ RecordSuccess
        \/ EndTurn

Next == Loop \/ RequestCancel \/ Crash \/ Resume

Spec == Init /\ [][Next]_vars

(* The model and the tools answer (their adapters time out), so the thread *)
(* of a run that has not died takes its next step.                         *)
FairSpec == Spec /\ WF_vars(Loop)

-----------------------------------------------------------------------------
(* completed_invocations and the list of tool calls are two records of the *)
(* same thing: a key is in the one exactly when the other has a call of it *)
(* that succeeded; and of one key at most one call succeeded by running    *)
(* its tool, resumptions included.  What succeeded with pins has a key     *)
(* that read_evidence was asked with, and may have succeeded before.       *)
Ended(i, status) == {k \in DOMAIN calls : calls[k] = [inv |-> i, status |-> status]}

OneSuccessPerInvocation ==
    \A i \in Invocation :
        /\ i \in done <=> Ended(i, "succeeded") \cup Ended(i, "reused") # {}
        /\ \A k, l \in Ended(i, "succeeded") : k = l
        /\ Ended(i, "reused") # {} => i \in Evidence

(* A call whose success is in the checkpoint is not made again by any run  *)
(* that comes after it (RuntimeEngine.run, completed_invocations).         *)
CheckpointedCallsAreNotRepeated ==
    pc = "tool" => Head(todo) \notin saved.done

(* A tool has run with success once, and once more at most for every time  *)
(* the session was resumed from before it.                                 *)
RepeatsNeedAResumption ==
    \A i \in Invocation : effects[i] <= 1 + resumes

(* cancel_requested() is asked before every call: after a cancel request   *)
(* no tool runs but the one whose check had already been passed.           *)
LateCallsAreBounded == late <= 1

(* The result, the session, the turn, the tasks and the calls of a run     *)
(* that has returned tell the same story.  An exception that left the loop *)
(* has settled none of them but the calls: the caller finds an active      *)
(* session (_run_session() fails it) and a turn that runs.                 *)
ResultAgrees ==
    /\ pc = "stopped" =>
          /\ session = IF outcome = "waiting_approval" THEN "waiting" ELSE outcome
          /\ turn \in {"none", "completed", "failed", "waiting_tool"}
          /\ turn = "waiting_tool" <=> outcome = "waiting_approval"
          /\ outcome \in {"completed", "cancelled"} =>
                 \A k \in DOMAIN tasks : tasks[k] \notin OpenTask
    /\ pc = "raised" => outcome = "none" /\ session = "active" /\ turn = "running"
    /\ pc \in {"stopped", "raised"} => \A k \in DOMAIN calls : calls[k].status # "running"

(* A checkpoint is taken between turns: nothing in it is in flight, and    *)
(* what it holds as completed is what its calls say succeeded, so that a   *)
(* resumption has nothing to settle.                                       *)
CheckpointIsSettled ==
    /\ \A k \in DOMAIN saved.tasks : saved.tasks[k] \in {"succeeded", "failed"}
    /\ \A k \in DOMAIN saved.calls : saved.calls[k].status \in {"succeeded", "reused", "failed"}
    /\ saved.done = {saved.calls[k].inv : k \in {l \in DOMAIN saved.calls : saved.calls[l].status \in {"succeeded", "reused"}}}

(* A run ends: max_turns, the limits on tasks and calls and the answer of  *)
(* the model leave no way to go on for ever.                               *)
RunEnds == Running ~> ~Running
=============================================================================
