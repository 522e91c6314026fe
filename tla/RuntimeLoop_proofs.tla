------------------------ MODULE RuntimeLoop_proofs ------------------------
(***************************************************************************)
(* Proofs about RuntimeLoop for every set of invocations and replies and   *)
(* all limits.  IInv is the inductive invariant; each part of it says what *)
(* one piece of loop.py may rely on at each of its lines.                  *)
(* SkillCatalog, SkillRuntime and SourcePins follow.                       *)
(***************************************************************************)
EXTENDS RuntimeLoop, FiniteSetTheorems, SequenceTheorems, TLAPS

TaskStatus == OpenTask \cup {"succeeded", "failed", "cancelled"}
CallRecord == [inv : Invocation, status : {"running", "succeeded", "reused", "failed", "denied"}]
SnapshotRecord == [turnCount : Nat, tasks : Seq(TaskStatus), calls : Seq(CallRecord),
                   done : SUBSET Invocation]

(* The places inside a turn, and those between the calls of a turn.        *)
InTurn == {"model", "task", "call", "tool", "record", "turn_end"}
BetweenCalls == {"start", "turn", "model", "task", "call", "turn_end"}

(* A checkpoint is a record of what its session held when it was taken.    *)
SavedInv == saved \in SnapshotRecord /\ Len(saved.calls) <= MaxTotalToolCalls

(* A run counts its own turns; the session counts those of all its runs.   *)
Earlier == MaxTurns * resumes

CountInv ==
    /\ pc \in InTurn => turnNumber <= MaxTurns /\ turnCount <= Earlier + turnNumber
    /\ pc \in {"start", "turn"} => turnCount < Earlier + turnNumber
    /\ turnCount <= Earlier + MaxTurns
    /\ saved.turnCount <= Earlier + MaxTurns
    /\ pc \notin {"stopped", "raised", "dead"} => duplicateOnly <= 1

(* A session that runs is active, and so is its turn; an exception that    *)
(* leaves the loop leaves them so.                                         *)
PhaseInv ==
    /\ Running => outcome = "none" /\ session = "active"
    /\ pc \in InTurn => turn = "running"
    /\ pc \in {"start", "turn"} => turn \in {"none", "completed"}
    /\ pc = "raised" => outcome = "none" /\ session = "active" /\ turn = "running"

(* There is a task to begin; the call that is being made is the last one,  *)
(* and it is a new one.                                                    *)
CallInv ==
    /\ pc = "task" => plan # <<>>
    /\ pc \in {"tool", "record"} =>
          /\ todo # <<>> /\ calls # <<>>
          /\ calls[Len(calls)] = [inv |-> Head(todo), status |-> "running"]
          /\ Head(todo) \notin done

(* All calls but the one being made, and all tasks but the current one,    *)
(* have ended.                                                             *)
EndedCall == {"succeeded", "reused", "failed"}

EndedInv ==
    /\ \A k \in DOMAIN calls :
          \/ pc \in {"stopped", "raised", "dead"}
          \/ pc \in {"tool", "record"} /\ k = Len(calls)
          \/ calls[k].status \in EndedCall
    /\ \A k \in DOMAIN tasks :
          \/ pc \in {"stopped", "raised", "dead"}
          \/ pc \in {"call", "tool", "record"} /\ k = Len(tasks) /\ tasks[k] \in {"running", "failed"}
          \/ tasks[k] \in {"succeeded", "failed"}
    /\ pc \in {"call", "tool", "record"} => tasks # <<>>
    /\ \A k \in DOMAIN saved.calls : saved.calls[k].status \in EndedCall
    /\ \A k \in DOMAIN saved.tasks : saved.tasks[k] \in {"succeeded", "failed"}

(* The keys of completed_invocations d are the invocations of the calls cs *)
(* that succeeded, each of them by its tool once; only read_evidence is    *)
(* answered from pins.                                                     *)
Answered == {"succeeded", "reused"}

Agree(cs, d) ==
    /\ \A k \in DOMAIN cs : cs[k].status \in Answered => cs[k].inv \in d
    /\ \A i \in d : \E k \in DOMAIN cs : cs[k].inv = i /\ cs[k].status \in Answered
    /\ \A k, l \in DOMAIN cs :
          /\ cs[k].status = "succeeded" /\ cs[l].status = "succeeded"
          /\ cs[k].inv = cs[l].inv
          => k = l
    /\ \A k \in DOMAIN cs : cs[k].status = "reused" => cs[k].inv \in Evidence

SuccessInv ==
    /\ Agree(calls, done)
    /\ Agree(saved.calls, saved.done)
    /\ saved.done \subseteq done

(* A success that is on record is paid for; one that is not was lost with  *)
(* a process, and the resumption pays for it.                              *)
EffectInv ==
    \A i \in Invocation :
        /\ effects[i] <= resumes + 1
        /\ Running /\ i \notin done /\ ~(pc = "record" /\ i = Head(todo)) => effects[i] <= resumes

(* No tool has run late before the flag is up or while one is being run.   *)
LateInv == /\ late <= 1
           /\ ~cancel \/ pc = "tool" => late = 0

Rest == /\ SavedInv /\ CountInv /\ PhaseInv /\ CallInv
        /\ EndedInv /\ SuccessInv /\ EffectInv /\ LateInv /\ ResultAgrees

IInv == TypeOK /\ Rest
-----------------------------------------------------------------------------
USE RuntimeAssumption

(* The last element of a sequence is replaced, the others stay.            *)
LEMMA ReplaceLast ==
    ASSUME NEW S, NEW s \in Seq(S), s # <<>>, NEW e \in S, NEW t, t = [s EXCEPT ![Len(s)] = e]
    PROVE  /\ t \in Seq(S) /\ Len(t) = Len(s) /\ DOMAIN t = DOMAIN s /\ Len(s) \in DOMAIN s
           /\ t[Len(s)] = e
           /\ \A k \in DOMAIN s : k # Len(s) => t[k] = s[k]
<1>1. Len(s) \in 1..Len(s) /\ DOMAIN s = 1..Len(s)
    BY EmptySeq, LenProperties
<1> QED BY <1>1, ExceptSeq, LenProperties

(* A sequence grows by one element at its end.                             *)
LEMMA Grow ==
    ASSUME NEW S, NEW s \in Seq(S), NEW e \in S, NEW t, t = Append(s, e)
    PROVE  /\ t \in Seq(S) /\ Len(t) = Len(s) + 1 /\ t # <<>>
           /\ DOMAIN t = DOMAIN s \cup {Len(t)} /\ Len(t) \notin DOMAIN s
           /\ t[Len(t)] = e
           /\ \A k \in DOMAIN s : t[k] = s[k]
<1>1. Len(s) \in Nat /\ DOMAIN s = 1..Len(s)
    BY LenProperties
<1>2. t \in Seq(S) /\ Len(t) = Len(s) + 1
    OBVIOUS
<1>3. DOMAIN t = 1..Len(t)
    BY <1>2, LenProperties
<1>4. t[Len(t)] = e /\ \A k \in 1..Len(s) : t[k] = s[k]
    BY <1>1, <1>2
<1> QED BY <1>1, <1>2, <1>3, <1>4

(* A call that did not succeed is added to the list.                       *)
LEMMA AgreeGrow ==
    ASSUME NEW cs \in Seq(CallRecord), NEW d, Agree(cs, d), NEW e \in CallRecord,
           e.status \notin Answered
    PROVE  Agree(Append(cs, e), d)
<1> DEFINE t == Append(cs, e)
<1>1. /\ DOMAIN t = DOMAIN cs \cup {Len(t)} /\ Len(t) \notin DOMAIN cs
      /\ t[Len(t)] = e /\ \A k \in DOMAIN cs : t[k] = cs[k]
    BY Grow
<1> HIDE DEF t
<1> SUFFICES Agree(t, d)
    BY DEF t
<1>2. t[Len(t)].status \notin Answered
    BY <1>1
<1>3. \A k \in DOMAIN t : t[k].status \in Answered => k \in DOMAIN cs /\ t[k] = cs[k]
    BY <1>1, <1>2
<1>4. \A k \in DOMAIN cs : k \in DOMAIN t /\ t[k] = cs[k]
    BY <1>1
<1> QED BY <1>3, <1>4 DEF Agree, Answered

(* A call that its pins answered is added to the list, and its key kept.   *)
LEMMA AgreeReuse ==
    ASSUME NEW cs \in Seq(CallRecord), NEW d, Agree(cs, d), NEW i \in Evidence
    PROVE  Agree(Append(cs, [inv |-> i, status |-> "reused"]), d \cup {i})
<1> DEFINE e == [inv |-> i, status |-> "reused"]
           t == Append(cs, e)
<1>0. e \in CallRecord /\ e.inv = i /\ e.status = "reused"
    BY DEF CallRecord
<1> HIDE DEF e
<1>1. /\ DOMAIN t = DOMAIN cs \cup {Len(t)} /\ Len(t) \notin DOMAIN cs
      /\ t[Len(t)] = e /\ \A k \in DOMAIN cs : t[k] = cs[k]
    BY <1>0, Grow
<1> HIDE DEF t
<1> SUFFICES Agree(t, d \cup {i})
    BY DEF t, e
<1>2. \A k \in DOMAIN t : t[k] = e \/ (k \in DOMAIN cs /\ t[k] = cs[k])
    BY <1>1
<1>3. \A k \in DOMAIN t : t[k].status = "succeeded" => k \in DOMAIN cs /\ t[k] = cs[k]
    BY <1>0, <1>2
<1>4. Len(t) \in DOMAIN t /\ \A k \in DOMAIN cs : k \in DOMAIN t /\ t[k] = cs[k]
    BY <1>1
<1>5. \A k \in DOMAIN t : t[k].status \in Answered => t[k].inv \in d \cup {i}
    BY <1>0, <1>2 DEF Agree
<1>6. \A j \in d \cup {i} : \E k \in DOMAIN t : t[k].inv = j /\ t[k].status \in Answered
  <2>1. t[Len(t)].inv = i /\ t[Len(t)].status \in Answered
    BY <1>0, <1>1 DEF Answered
  <2> QED BY <1>4, <2>1 DEF Agree
<1>7. \A k \in DOMAIN t : t[k].status = "reused" => t[k].inv \in Evidence
    BY <1>0, <1>2 DEF Agree
<1>8. \A k, l \in DOMAIN t :
          t[k].status = "succeeded" /\ t[l].status = "succeeded" /\ t[k].inv = t[l].inv => k = l
    BY <1>3 DEF Agree
<1> QED BY <1>5, <1>6, <1>7, <1>8 DEF Agree

(* The call that runs ends without success.                                *)
LEMMA AgreeFail ==
    ASSUME NEW cs \in Seq(CallRecord), NEW d, Agree(cs, d), cs # <<>>,
           cs[Len(cs)].status = "running", NEW e \in CallRecord, e.status \notin Answered
    PROVE  Agree([cs EXCEPT ![Len(cs)] = e], d)
<1> DEFINE t == [cs EXCEPT ![Len(cs)] = e]
<1>1. /\ DOMAIN t = DOMAIN cs /\ Len(cs) \in DOMAIN cs /\ t[Len(cs)] = e
      /\ \A k \in DOMAIN cs : k # Len(cs) => t[k] = cs[k]
    BY ReplaceLast
<1> HIDE DEF t
<1> SUFFICES Agree(t, d)
    BY DEF t
<1>2. "running" \notin Answered /\ "succeeded" \in Answered /\ "reused" \in Answered
    BY DEF Answered
<1>3. \A k \in DOMAIN cs : cs[k].status \in Answered => t[k] = cs[k]
    BY <1>1, <1>2
<1>4. \A k \in DOMAIN cs : t[k].status \in Answered => t[k] = cs[k]
    BY <1>1
<1> QED BY <1>1, <1>2, <1>3, <1>4 DEF Agree

(* The call that runs succeeds, and its invocation is a new one.           *)
LEMMA AgreeSucceed ==
    ASSUME NEW cs \in Seq(CallRecord), NEW d, Agree(cs, d), cs # <<>>, NEW i \in Invocation,
           cs[Len(cs)] = [inv |-> i, status |-> "running"], i \notin d
    PROVE  Agree([cs EXCEPT ![Len(cs)] = [inv |-> i, status |-> "succeeded"]], d \cup {i})
<1> DEFINE e == [inv |-> i, status |-> "succeeded"]
           t == [cs EXCEPT ![Len(cs)] = e]
<1>0. e \in CallRecord
    BY DEF CallRecord
<1>1. /\ DOMAIN t = DOMAIN cs /\ Len(cs) \in DOMAIN cs /\ t[Len(cs)] = e
      /\ \A k \in DOMAIN cs : k # Len(cs) => t[k] = cs[k]
    BY <1>0, ReplaceLast
<1>2. cs[Len(cs)].status = "running" /\ e.inv = i /\ e.status = "succeeded"
    OBVIOUS
<1> HIDE DEF t, e
<1> SUFFICES Agree(t, d \cup {i})
    BY DEF t, e
<1>3. "running" \notin Answered /\ "succeeded" \in Answered
    BY DEF Answered
<1>4. \A k \in DOMAIN t : t[k].status \in Answered => t[k].inv \in d \cup {i}
    BY <1>1, <1>2 DEF Agree
<1>5. \A j \in d \cup {i} : \E k \in DOMAIN t : t[k].inv = j /\ t[k].status \in Answered
  <2>1. \A k \in DOMAIN cs : cs[k].status \in Answered => k # Len(cs)
    BY <1>2, <1>3
  <2>2. \A j \in d : \E k \in DOMAIN t : t[k].inv = j /\ t[k].status \in Answered
    BY <1>1, <2>1 DEF Agree
  <2>3. t[Len(cs)].inv = i /\ t[Len(cs)].status \in Answered
    BY <1>1, <1>2, <1>3
  <2> QED BY <1>1, <2>2, <2>3
<1>6. \A k, l \in DOMAIN t :
          t[k].status = "succeeded" /\ t[l].status = "succeeded" /\ t[k].inv = t[l].inv => k = l
  <2>1. \A k \in DOMAIN cs : k # Len(cs) /\ t[k].status = "succeeded" => t[k] = cs[k] /\ t[k].inv # i
    BY <1>1, <1>3 DEF Agree
  <2> QED BY <1>1, <1>2, <2>1 DEF Agree
<1>7. \A k \in DOMAIN t : t[k].status = "reused" => t[k].inv \in Evidence
    BY <1>1, <1>2 DEF Agree
<1> QED BY <1>4, <1>5, <1>6, <1>7 DEF Agree

(* What TypeOK says of the sequences, under their names here.              *)
LEMMA SequenceTypes ==
    ASSUME TypeOK
    PROVE  /\ tasks \in Seq(TaskStatus) /\ calls \in Seq(CallRecord)
           /\ plan \in Seq(Seq(Invocation)) /\ todo \in Seq(Invocation)
           /\ plan # <<>> => Head(plan) \in Seq(Invocation) /\ Tail(plan) \in Seq(Seq(Invocation))
           /\ todo # <<>> => Head(todo) \in Invocation /\ Tail(todo) \in Seq(Invocation)
<1>1. tasks \in Seq(TaskStatus) /\ calls \in Seq(CallRecord)
    BY DEF TypeOK, TaskStatus, CallRecord
<1>2. plan \in Seq(Seq(Invocation)) /\ todo \in Seq(Invocation)
    BY DEF TypeOK
<1> QED BY <1>1, <1>2, HeadTailProperties

(* Cancelling the open tasks keeps their sequence.                         *)
LEMMA CancelledTasks ==
    ASSUME TypeOK, CancelOpenTasks
    PROVE  /\ tasks' \in Seq(TaskStatus) /\ DOMAIN tasks' = DOMAIN tasks
           /\ \A k \in DOMAIN tasks : tasks'[k] \notin OpenTask
<1>1. tasks \in Seq(TaskStatus)
    BY SequenceTypes
<1>2. Len(tasks) \in Nat /\ DOMAIN tasks = 1..Len(tasks) /\ \A k \in DOMAIN tasks : tasks[k] \in TaskStatus
    BY <1>1, LenProperties, ElementOfSeq
<1>3. /\ tasks' \in [1..Len(tasks) -> TaskStatus]
      /\ \A k \in DOMAIN tasks : tasks'[k] \notin OpenTask
    BY <1>2 DEF CancelOpenTasks, TaskStatus, OpenTask
<1> QED BY <1>2, <1>3, SeqDef

(* Closing the current task changes it only when it is running.            *)
LEMMA ClosedTask ==
    ASSUME TypeOK, tasks # <<>>, NEW s \in {"succeeded", "failed"}, tasks' = CloseTask(s)
    PROVE  /\ tasks' \in Seq(TaskStatus) /\ tasks' # <<>>
           /\ DOMAIN tasks' = DOMAIN tasks /\ Len(tasks') = Len(tasks) /\ Len(tasks) \in DOMAIN tasks
           /\ \A k \in DOMAIN tasks : k # Len(tasks) => tasks'[k] = tasks[k]
           /\ tasks'[Len(tasks)] = IF tasks[Len(tasks)] = "running" THEN s ELSE tasks[Len(tasks)]
<1>1. tasks \in Seq(TaskStatus)
    BY SequenceTypes
<1> DEFINE e == IF tasks[Len(tasks)] = "running" THEN s ELSE tasks[Len(tasks)]
<1>2. Len(tasks) \in 1..Len(tasks) /\ e \in TaskStatus
    BY <1>1, EmptySeq, ElementOfSeq DEF TaskStatus
<1>3. tasks' = [tasks EXCEPT ![Len(tasks)] = e]
    BY DEF CloseTask
<1> HIDE DEF e
<1>4. /\ tasks' \in Seq(TaskStatus) /\ Len(tasks') = Len(tasks)
      /\ DOMAIN tasks' = DOMAIN tasks /\ Len(tasks) \in DOMAIN tasks
      /\ tasks'[Len(tasks)] = e
      /\ \A k \in DOMAIN tasks : k # Len(tasks) => tasks'[k] = tasks[k]
    BY <1>1, <1>2, <1>3, ReplaceLast
<1>5. tasks' # <<>>
    BY <1>2, <1>4
<1> QED BY <1>4, <1>5 DEF e

(* Ending the current call changes its status.                             *)
LEMMA ClosedCall ==
    ASSUME TypeOK, calls # <<>>, NEW s \in {"succeeded", "failed", "denied"}, NEW i \in Invocation,
           calls[Len(calls)] = [inv |-> i, status |-> "running"], calls' = CloseCall(s)
    PROVE  /\ calls' = [calls EXCEPT ![Len(calls)] = [inv |-> i, status |-> s]]
           /\ calls' \in Seq(CallRecord) /\ Len(calls') = Len(calls)
           /\ DOMAIN calls' = DOMAIN calls /\ Len(calls) \in DOMAIN calls
           /\ calls'[Len(calls)] = [inv |-> i, status |-> s]
           /\ \A k \in DOMAIN calls : k # Len(calls) => calls'[k] = calls[k]
<1>1. calls \in Seq(CallRecord)
    BY SequenceTypes
<1>2. [inv |-> i, status |-> s] \in CallRecord
    BY DEF CallRecord
<1>3. calls' = [calls EXCEPT ![Len(calls)] = [inv |-> i, status |-> s]]
  <2>1. CloseCall(s) = [calls EXCEPT ![Len(calls)] = [calls[Len(calls)] EXCEPT !.status = s]]
    BY DEF CloseCall
  <2>2. [calls[Len(calls)] EXCEPT !.status = s] = [inv |-> i, status |-> s]
    OBVIOUS
  <2> QED BY <2>1, <2>2
<1> QED BY <1>1, <1>2, <1>3, ReplaceLast

(* The turns of the session: each run adds at most MaxTurns, and a         *)
(* resumption starts from a checkpoint of an earlier run.                  *)
LEMMA CountStep ==
    ASSUME TypeOK, SavedInv, CountInv, [Next]_vars
    PROVE  CountInv'
<1> DEFINE base == Earlier
<1>0. /\ base \in Nat
      /\ resumes' = resumes => base' = base
      /\ resumes' = resumes + 1 => base' = base + MaxTurns
  <2>1. resumes \in Nat /\ MaxTurns \in Nat
    BY DEF TypeOK
  <2>2. MaxTurns * (resumes + 1) = MaxTurns * resumes + MaxTurns
    BY <2>1
  <2> QED BY <2>1, <2>2 DEF Earlier
<1> HIDE DEF base
<1> USE <1>0 DEF TypeOK, SavedInv, SnapshotRecord, CountInv, InTurn
<1>a. base = Earlier
    BY DEF base
<1>b. base' = Earlier'
    BY DEF base
<1> USE <1>a, <1>b
<1>1. CASE Preflight
    BY <1>1 DEF Preflight, Return, Fail, workVars, flagVars, history
<1>2. CASE StartTurn
  <2>1. /\ turnCount < base + turnNumber /\ turnNumber <= MaxTurns /\ turnCount' = turnCount + 1
        /\ UNCHANGED <<turnNumber, duplicateOnly, saved, resumes>>
        /\ pc = "turn" /\ pc' \in {"model", "stopped"} /\ duplicateOnly <= 1
    BY <1>2 DEF StartTurn, Return, TurnsAreLeft
  <2>2. turnCount' <= base' + turnNumber' /\ turnNumber' \in Nat /\ base' = base
    BY <2>1
  <2>3. turnCount' <= base' + MaxTurns /\ saved'.turnCount <= base' + MaxTurns /\ turnNumber' <= MaxTurns
    BY <2>1, <2>2
  <2> QED BY <2>1, <2>2, <2>3
<1>3. CASE TurnsExhausted
    BY <1>3 DEF TurnsExhausted, Return, Fail, TurnsAreLeft, workVars, flagVars, history
<1>4. CASE ModelFails
    BY <1>4 DEF ModelFails, Return, Fail, workVars, flagVars, history
<1>5. CASE ModelConcludes
    BY <1>5 DEF ModelConcludes, Return, Cancelled, CancelOpenTasks, flagVars, history
<1>6. CASE ModelPlans
    BY <1>6 DEF ModelPlans, Return, Fail, Cancelled, CancelOpenTasks, flagVars, history
<1>7. CASE StartTask
    BY <1>7 DEF StartTask, Return, Fail, flagVars, history
<1>8. CASE EndTask
    BY <1>8 DEF EndTask, turnVars, flagVars, history
<1>9. CASE StartCall
    BY <1>9 DEF StartCall, Return, Fail, Cancelled, CancelOpenTasks, StopBeforeCall, history
<1>10. CASE AwaitApproval
    BY <1>10 DEF AwaitApproval, Return, flagVars, history
<1>11. CASE ToolSucceeds
    BY <1>11 DEF ToolSucceeds, turnVars, workVars, flagVars
<1>12. CASE RecordSuccess
    BY <1>12 DEF RecordSuccess, turnVars, flagVars, history
<1>13. CASE ToolFails
    BY <1>13 DEF ToolFails, turnVars, flagVars
<1>14. CASE EndTurn
  <2>1. /\ turnNumber <= MaxTurns /\ turnCount <= base + turnNumber
        /\ UNCHANGED <<turnCount, resumes>>
        /\ pc' \in {"turn", "stopped"}
    BY <1>14 DEF EndTurn, Return, Cancelled, Fail
  <2>2. /\ saved' = saved \/ saved' = Snapshot
        /\ pc' = "turn" => turnNumber' = turnNumber + 1 /\ duplicateOnly' <= 1
    <3>1. CASE cancel
      BY <1>14, <3>1 DEF EndTurn, Return, Cancelled
    <3>2. CASE ~cancel /\ duplicateOnly' >= 2
      BY <1>14, <3>2 DEF EndTurn, Return, Fail
    <3>3. CASE ~cancel /\ duplicateOnly' < 2
      BY <1>14, <3>3 DEF EndTurn, OnlyDuplicates
    <3> QED BY <1>14, <3>1, <3>2, <3>3 DEF EndTurn
  <2>3. base' = base /\ turnNumber \in Nat /\ saved'.turnCount <= base + MaxTurns
    BY <2>1, <2>2 DEF Snapshot
  <2> QED BY <2>1, <2>2, <2>3
<1>15. CASE RequestCancel
    BY <1>15 DEF RequestCancel, Running, turnVars, workVars, flagVars
<1>16. CASE Crash
    BY <1>16 DEF Crash, Running, turnVars, workVars, flagVars, history
<1>17. CASE Resume
    BY <1>17 DEF Resume, Restored
<1>18. CASE UNCHANGED vars
    BY <1>18 DEF vars, turnVars, workVars, flagVars, history
<1>19. CASE ReusePins
    BY <1>19 DEF ReusePins, turnVars, history
<1>20. CASE ApprovalRaises
    BY <1>20 DEF ApprovalRaises, turnVars, flagVars, history
<1>21. CASE ContextRaises
    BY <1>21 DEF ContextRaises, turnVars, workVars, flagVars, history
<1> QED BY <1>1, <1>2, <1>3, <1>4, <1>5, <1>6, <1>7, <1>8, <1>9, <1>10, <1>11, <1>12, <1>13, <1>14, <1>15, <1>16, <1>17, <1>18,
           <1>19, <1>20, <1>21 DEF Next, Loop

(* The status of the session and of the turn follow the place in the loop. *)
LEMMA PhaseStep ==
    ASSUME TypeOK, PhaseInv, [Next]_vars
    PROVE  PhaseInv'
<1> USE DEF PhaseInv, Running, InTurn
<1>1. CASE Preflight
    BY <1>1 DEF Preflight, Return, Fail, workVars, flagVars, history
<1>2. CASE StartTurn
    BY <1>2 DEF StartTurn, Return, history
<1>3. CASE TurnsExhausted
    BY <1>3 DEF TurnsExhausted, Return, Fail, workVars, flagVars, history
<1>4. CASE ModelFails
    BY <1>4 DEF ModelFails, Return, Fail, workVars, flagVars, history
<1>5. CASE ModelConcludes
    BY <1>5 DEF ModelConcludes, Return, Cancelled, flagVars, history
<1>6. CASE ModelPlans
    BY <1>6 DEF ModelPlans, Return, Fail, Cancelled, flagVars, history
<1>7. CASE StartTask
    BY <1>7 DEF StartTask, Return, Fail, flagVars, history
<1>8. CASE EndTask
    BY <1>8 DEF EndTask, turnVars, flagVars, history
<1>9. CASE StartCall
    BY <1>9 DEF StartCall, Return, Fail, Cancelled, StopBeforeCall, history
<1>10. CASE AwaitApproval
    BY <1>10 DEF AwaitApproval, Return, flagVars, history
<1>11. CASE ToolSucceeds
    BY <1>11 DEF ToolSucceeds, turnVars, workVars, flagVars
<1>12. CASE RecordSuccess
    BY <1>12 DEF RecordSuccess, turnVars, flagVars, history
<1>13. CASE ToolFails
    BY <1>13 DEF ToolFails, turnVars, flagVars
<1>14. CASE EndTurn
    BY <1>14 DEF EndTurn, Return, Fail, Cancelled, history
<1>15. CASE RequestCancel
    BY <1>15 DEF RequestCancel, turnVars, workVars, flagVars
<1>16. CASE Crash
    BY <1>16 DEF Crash, turnVars, workVars, flagVars, history
<1>17. CASE Resume
    BY <1>17 DEF Resume
<1>18. CASE UNCHANGED vars
    BY <1>18 DEF vars, turnVars, workVars, flagVars, history
<1>19. CASE ReusePins
    BY <1>19 DEF ReusePins, turnVars, history
<1>20. CASE ApprovalRaises
    BY <1>20 DEF ApprovalRaises, turnVars, flagVars, history
<1>21. CASE ContextRaises
    BY <1>21 DEF ContextRaises, turnVars, workVars, flagVars, history
<1> QED BY <1>1, <1>2, <1>3, <1>4, <1>5, <1>6, <1>7, <1>8, <1>9, <1>10, <1>11, <1>12, <1>13, <1>14, <1>15, <1>16, <1>17, <1>18,
           <1>19, <1>20, <1>21 DEF Next, Loop

(* The flag is looked at before every call.                                *)
LEMMA LateStep ==
    ASSUME TypeOK, LateInv, [Next]_vars
    PROVE  LateInv'
<1> USE DEF TypeOK, LateInv
<1>1. CASE Preflight
    BY <1>1 DEF Preflight, Return, Fail, workVars, flagVars, history
<1>2. CASE StartTurn
    BY <1>2 DEF StartTurn, Return, history
<1>3. CASE TurnsExhausted
    BY <1>3 DEF TurnsExhausted, Return, Fail, workVars, flagVars, history
<1>4. CASE ModelFails
    BY <1>4 DEF ModelFails, Return, Fail, workVars, flagVars, history
<1>5. CASE ModelConcludes
    BY <1>5 DEF ModelConcludes, Return, Cancelled, flagVars, history
<1>6. CASE ModelPlans
    BY <1>6 DEF ModelPlans, Return, Fail, Cancelled, flagVars, history
<1>7. CASE StartTask
    BY <1>7 DEF StartTask, Return, Fail, flagVars, history
<1>8. CASE EndTask
    BY <1>8 DEF EndTask, turnVars, flagVars, history
<1>9. CASE StartCall
    BY <1>9 DEF StartCall, Return, Fail, Cancelled, StopBeforeCall, history
<1>10. CASE AwaitApproval
    BY <1>10 DEF AwaitApproval, Return, flagVars, history
<1>11. CASE ToolSucceeds
    BY <1>11 DEF ToolSucceeds, turnVars, workVars, flagVars
<1>12. CASE RecordSuccess
    BY <1>12 DEF RecordSuccess, turnVars, flagVars, history
<1>13. CASE ToolFails
    BY <1>13 DEF ToolFails, turnVars, flagVars
<1>14. CASE EndTurn
    BY <1>14 DEF EndTurn, Return, Fail, Cancelled, history
<1>15. CASE RequestCancel
    BY <1>15 DEF RequestCancel, turnVars, workVars, flagVars
<1>16. CASE Crash
    BY <1>16 DEF Crash, turnVars, workVars, flagVars, history
<1>17. CASE Resume
    BY <1>17 DEF Resume
<1>18. CASE UNCHANGED vars
    BY <1>18 DEF vars, turnVars, workVars, flagVars, history
<1>19. CASE ReusePins
    BY <1>19 DEF ReusePins, turnVars, history
<1>20. CASE ApprovalRaises
    BY <1>20 DEF ApprovalRaises, turnVars, flagVars, history
<1>21. CASE ContextRaises
    BY <1>21 DEF ContextRaises, turnVars, workVars, flagVars, history
<1> QED BY <1>1, <1>2, <1>3, <1>4, <1>5, <1>6, <1>7, <1>8, <1>9, <1>10, <1>11, <1>12, <1>13, <1>14, <1>15, <1>16, <1>17, <1>18,
           <1>19, <1>20, <1>21 DEF Next, Loop

(* A task is begun only if there is one, and the call that runs is the     *)
(* last of the list.                                                       *)
LEMMA CallStep ==
    ASSUME TypeOK, CallInv, [Next]_vars
    PROVE  CallInv'
<1> USE SequenceTypes DEF CallInv
<1>1. CASE Preflight
    BY <1>1 DEF Preflight, Return, Fail, workVars, flagVars, history
<1>2. CASE StartTurn
    BY <1>2 DEF StartTurn, Return, history
<1>3. CASE TurnsExhausted
    BY <1>3 DEF TurnsExhausted, Return, Fail, workVars, flagVars, history
<1>4. CASE ModelFails
    BY <1>4 DEF ModelFails, Return, Fail, workVars, flagVars, history
<1>5. CASE ModelConcludes
    BY <1>5 DEF ModelConcludes, Return, Cancelled, flagVars, history
<1>6. CASE ModelPlans
    BY <1>6 DEF ModelPlans, Return, Fail, Cancelled, flagVars, history
<1>7. CASE StartTask
    BY <1>7 DEF StartTask, Return, Fail, flagVars, history
<1>8. CASE EndTask
    BY <1>8 DEF EndTask, turnVars, flagVars, history
<1>9. CASE StartCall
    BY <1>9 DEF StartCall, Return, Fail, Cancelled, StopBeforeCall, BudgetLeft, Duplicate, history
<1>10. CASE AwaitApproval
    BY <1>10 DEF AwaitApproval, Return, flagVars, history
<1>11. CASE ToolSucceeds
    BY <1>11 DEF ToolSucceeds, turnVars, workVars, flagVars
<1>12. CASE RecordSuccess
    BY <1>12 DEF RecordSuccess, turnVars, flagVars, history
<1>13. CASE ToolFails
    BY <1>13 DEF ToolFails, turnVars, flagVars
<1>14. CASE EndTurn
    BY <1>14 DEF EndTurn, Return, Fail, Cancelled, history
<1>15. CASE RequestCancel
    BY <1>15 DEF RequestCancel, turnVars, workVars, flagVars
<1>16. CASE Crash
    BY <1>16 DEF Crash, turnVars, workVars, flagVars, history
<1>17. CASE Resume
    BY <1>17 DEF Resume
<1>18. CASE UNCHANGED vars
    BY <1>18 DEF vars, turnVars, workVars, flagVars, history
<1>19. CASE ReusePins
    BY <1>19 DEF ReusePins, turnVars, history
<1>20. CASE ApprovalRaises
    BY <1>20 DEF ApprovalRaises, turnVars, flagVars, history
<1>21. CASE ContextRaises
    BY <1>21 DEF ContextRaises, turnVars, workVars, flagVars, history
<1> QED BY <1>1, <1>2, <1>3, <1>4, <1>5, <1>6, <1>7, <1>8, <1>9, <1>10, <1>11, <1>12, <1>13, <1>14, <1>15, <1>16, <1>17, <1>18,
           <1>19, <1>20, <1>21 DEF Next, Loop

(* A checkpoint holds the turns, tasks, calls and keys of its moment.      *)
LEMMA SavedStep ==
    ASSUME TypeOK, SavedInv, [Next]_vars
    PROVE  SavedInv'
<1>0. tasks \in Seq(TaskStatus) /\ calls \in Seq(CallRecord) /\ Len(calls) <= MaxTotalToolCalls
      /\ done \in SUBSET Invocation /\ turnCount \in Nat
    BY SequenceTypes DEF TypeOK
<1>a. SavedInv /\ Snapshot \in SnapshotRecord /\ Snapshot.calls = calls
    BY <1>0 DEF Snapshot, SnapshotRecord
<1>b. saved' = saved \/ saved' = Snapshot => SavedInv'
    BY <1>0, <1>a DEF SavedInv
<1> USE <1>b
<1>1. CASE Preflight
    BY <1>1 DEF Preflight, Return, Fail, workVars, flagVars, history
<1>2. CASE StartTurn
    BY <1>2 DEF StartTurn, Return, history
<1>3. CASE TurnsExhausted
    BY <1>3 DEF TurnsExhausted, Return, Fail, workVars, flagVars, history
<1>4. CASE ModelFails
    BY <1>4 DEF ModelFails, Return, Fail, workVars, flagVars, history
<1>5. CASE ModelConcludes
    BY <1>5 DEF ModelConcludes, Return, Cancelled, flagVars, history
<1>6. CASE ModelPlans
    BY <1>6 DEF ModelPlans, Return, Fail, Cancelled, flagVars, history
<1>7. CASE StartTask
    BY <1>7 DEF StartTask, Return, Fail, flagVars, history
<1>8. CASE EndTask
    BY <1>8 DEF EndTask, turnVars, flagVars, history
<1>9. CASE StartCall
    BY <1>9 DEF StartCall, Return, Fail, Cancelled, StopBeforeCall, history
<1>10. CASE AwaitApproval
    BY <1>10 DEF AwaitApproval, Return, flagVars, history
<1>11. CASE ToolSucceeds
    BY <1>11 DEF ToolSucceeds, turnVars, workVars, flagVars
<1>12. CASE RecordSuccess
    BY <1>12 DEF RecordSuccess, turnVars, flagVars, history
<1>13. CASE ToolFails
    BY <1>13 DEF ToolFails, turnVars, flagVars
<1>14. CASE EndTurn
    BY <1>14 DEF EndTurn, Return, Fail, Cancelled, history
<1>15. CASE RequestCancel
    BY <1>15 DEF RequestCancel, turnVars, workVars, flagVars
<1>16. CASE Crash
    BY <1>16 DEF Crash, turnVars, workVars, flagVars, history
<1>17. CASE Resume
    BY <1>17 DEF Resume
<1>18. CASE UNCHANGED vars
    BY <1>18 DEF vars, turnVars, workVars, flagVars, history
<1>19. CASE ReusePins
    BY <1>19 DEF ReusePins, turnVars, history
<1>20. CASE ApprovalRaises
    BY <1>20 DEF ApprovalRaises, turnVars, flagVars, history
<1>21. CASE ContextRaises
    BY <1>21 DEF ContextRaises, turnVars, workVars, flagVars, history
<1> QED BY <1>1, <1>2, <1>3, <1>4, <1>5, <1>6, <1>7, <1>8, <1>9, <1>10, <1>11, <1>12, <1>13, <1>14, <1>15, <1>16, <1>17, <1>18,
           <1>19, <1>20, <1>21 DEF Next, Loop

(* Between two calls every call has ended, and a return leaves it so.      *)
LEMMA CancelledAgrees ==
    ASSUME TypeOK, PhaseInv, EndedInv, pc \in BetweenCalls, calls' = calls,
           Return("cancelled"), CancelOpenTasks, turn' = "completed", session' = "cancelled"
    PROVE  ResultAgrees'
<1>1. \A k \in DOMAIN calls : calls[k].status # "running"
    BY DEF EndedInv, EndedCall, BetweenCalls
<1>2. \A k \in DOMAIN tasks' : tasks'[k] \notin OpenTask
    BY CancelledTasks
<1> QED BY <1>1, <1>2 DEF ResultAgrees, Return

(* The same for a cancellation inside a turn.                              *)
LEMMA CancelAgrees ==
    ASSUME TypeOK, PhaseInv, EndedInv, pc \in BetweenCalls \ {"start", "turn"}, calls' = calls,
           Cancelled
    PROVE  ResultAgrees'
<1>1. turn = "running" /\ session = "active"
    BY DEF PhaseInv, BetweenCalls, InTurn, Running
<1> QED BY <1>1, CancelledAgrees DEF Cancelled, BetweenCalls

(* A failure settles the turn, if one has begun, and the session.          *)
LEMMA FailAgrees ==
    ASSUME TypeOK, PhaseInv, EndedInv, pc \in BetweenCalls, calls' = calls, Fail
    PROVE  ResultAgrees'
<1>1. \A k \in DOMAIN calls : calls[k].status # "running"
    BY DEF EndedInv, EndedCall, BetweenCalls
<1>2. session = "active" /\ turn \in {"none", "completed", "running"}
    BY DEF PhaseInv, BetweenCalls, InTurn, Running
<1> QED BY <1>1, <1>2 DEF ResultAgrees, Return, Fail

(* A run that has returned tells one story.                                *)
LEMMA ResultStep ==
    ASSUME TypeOK, PhaseInv, EndedInv, CallInv, ResultAgrees, [Next]_vars
    PROVE  ResultAgrees'
<1>a. pc' \notin {"stopped", "raised"} => ResultAgrees'
    BY DEF ResultAgrees
<1>d. ASSUME pc = "tool", calls # <<>>, Head(todo) \in Invocation, calls' = CloseCall("denied"),
             calls[Len(calls)] = [inv |-> Head(todo), status |-> "running"]
      PROVE  \A k \in DOMAIN calls' : calls'[k].status # "running"
  <2>1. /\ DOMAIN calls' = DOMAIN calls
        /\ calls'[Len(calls)] = [inv |-> Head(todo), status |-> "denied"]
        /\ \A k \in DOMAIN calls : k # Len(calls) => calls'[k] = calls[k]
    BY <1>d, ClosedCall
  <2>2. \A k \in DOMAIN calls : k # Len(calls) => calls[k].status # "running"
    BY <1>d DEF EndedInv, EndedCall
  <2> QED BY <2>1, <2>2
<1> USE <1>a
<1>1. CASE Preflight
    BY <1>1, FailAgrees DEF Preflight, BetweenCalls, workVars
<1>2. CASE StartTurn
    BY <1>2, CancelledAgrees DEF StartTurn, BetweenCalls
<1>3. CASE TurnsExhausted
    BY <1>3, FailAgrees DEF TurnsExhausted, BetweenCalls, workVars
<1>4. CASE ModelFails
    BY <1>4, FailAgrees DEF ModelFails, BetweenCalls, workVars
<1>5. CASE ModelConcludes
  <2>1. CASE cancel
    BY <1>5, <2>1, CancelAgrees DEF ModelConcludes, BetweenCalls
  <2>2. CASE ~cancel
    <3>1. /\ \A k \in DOMAIN calls : calls[k].status # "running"
          /\ \A k \in DOMAIN tasks : tasks[k] \notin OpenTask
      BY <1>5 DEF ModelConcludes, EndedInv, EndedCall, OpenTask
    <3> QED BY <1>5, <2>2, <3>1 DEF ModelConcludes, ResultAgrees, Return
  <2> QED BY <2>1, <2>2
<1>6. CASE ModelPlans
    BY <1>6, CancelAgrees, FailAgrees DEF ModelPlans, BetweenCalls
<1>7. CASE StartTask
    BY <1>7, FailAgrees DEF StartTask, BetweenCalls
<1>8. CASE EndTask
    BY <1>8 DEF EndTask
<1>9. CASE StartCall
    BY <1>9, CancelAgrees, FailAgrees DEF StartCall, BetweenCalls, StopBeforeCall
<1>10. CASE AwaitApproval
  <2>1. /\ calls # <<>> /\ Head(todo) \in Invocation
        /\ calls[Len(calls)] = [inv |-> Head(todo), status |-> "running"]
    BY <1>10, SequenceTypes DEF AwaitApproval, CallInv
  <2>2. \A k \in DOMAIN calls' : calls'[k].status # "running"
    BY <1>10, <2>1, <1>d DEF AwaitApproval
  <2> QED BY <1>10, <2>2 DEF AwaitApproval, ResultAgrees, Return
<1>11. CASE ToolSucceeds
    BY <1>11 DEF ToolSucceeds
<1>12. CASE RecordSuccess
    BY <1>12 DEF RecordSuccess
<1>13. CASE ToolFails
    BY <1>13 DEF ToolFails
<1>14. CASE EndTurn
    BY <1>14, CancelAgrees, FailAgrees DEF EndTurn, BetweenCalls
<1>15. CASE RequestCancel
    BY <1>15 DEF RequestCancel, Running
<1>16. CASE Crash
    BY <1>16 DEF Crash
<1>17. CASE Resume
    BY <1>17 DEF Resume
<1>18. CASE UNCHANGED vars
    BY <1>18 DEF vars, turnVars, workVars, flagVars, history, ResultAgrees
<1>19. CASE ReusePins
    BY <1>19 DEF ReusePins
<1>20. CASE ApprovalRaises
  <2>1. /\ calls # <<>> /\ Head(todo) \in Invocation
        /\ calls[Len(calls)] = [inv |-> Head(todo), status |-> "running"]
    BY <1>20, SequenceTypes DEF ApprovalRaises, CallInv
  <2>2. \A k \in DOMAIN calls' : calls'[k].status # "running"
    BY <1>20, <2>1, <1>d DEF ApprovalRaises
  <2>3. pc' = "raised" /\ outcome' = "none" /\ session' = "active" /\ turn' = "running"
    BY <1>20 DEF ApprovalRaises, turnVars, PhaseInv, Running, InTurn
  <2> QED BY <2>2, <2>3 DEF ResultAgrees
<1>21. CASE ContextRaises
  <2>1. \A k \in DOMAIN calls' : calls'[k].status # "running"
    BY <1>21 DEF ContextRaises, workVars, EndedInv, EndedCall
  <2>2. pc' = "raised" /\ outcome' = "none" /\ session' = "active" /\ turn' = "running"
    BY <1>21 DEF ContextRaises, turnVars, PhaseInv, Running, InTurn
  <2> QED BY <2>1, <2>2 DEF ResultAgrees
<1> QED BY <1>1, <1>2, <1>3, <1>4, <1>5, <1>6, <1>7, <1>8, <1>9, <1>10, <1>11, <1>12, <1>13, <1>14, <1>15, <1>16, <1>17, <1>18,
           <1>19, <1>20, <1>21 DEF Next, Loop

(* What ran with success and is not on record was lost with its process.   *)
LEMMA EffectStep ==
    ASSUME TypeOK, CallInv, EffectInv, SavedInv, [Next]_vars
    PROVE  EffectInv'
<1> USE SequenceTypes DEF EffectInv, CallInv, TypeOK, Running
<1>1. CASE Preflight
    BY <1>1 DEF Preflight, Return, Fail, workVars, flagVars, history
<1>2. CASE StartTurn
    BY <1>2 DEF StartTurn, Return, history
<1>3. CASE TurnsExhausted
    BY <1>3 DEF TurnsExhausted, Return, Fail, workVars, flagVars, history
<1>4. CASE ModelFails
    BY <1>4 DEF ModelFails, Return, Fail, workVars, flagVars, history
<1>5. CASE ModelConcludes
    BY <1>5 DEF ModelConcludes, Return, Cancelled, flagVars, history
<1>6. CASE ModelPlans
    BY <1>6 DEF ModelPlans, Return, Fail, Cancelled, flagVars, history
<1>7. CASE StartTask
    BY <1>7 DEF StartTask, Return, Fail, flagVars, history
<1>8. CASE EndTask
    BY <1>8 DEF EndTask, turnVars, flagVars, history
<1>9. CASE StartCall
    BY <1>9 DEF StartCall, Return, Fail, Cancelled, StopBeforeCall, BudgetLeft, Duplicate, history
<1>10. CASE AwaitApproval
    BY <1>10 DEF AwaitApproval, Return, flagVars, history
<1>11. CASE ToolSucceeds
    BY SMTT(30), <1>11 DEF ToolSucceeds, turnVars, workVars, flagVars
<1>12. CASE RecordSuccess
    BY <1>12 DEF RecordSuccess, turnVars, flagVars, history
<1>13. CASE ToolFails
    BY <1>13 DEF ToolFails, turnVars, flagVars
<1>14. CASE EndTurn
    BY <1>14 DEF EndTurn, Return, Fail, Cancelled, history
<1>15. CASE RequestCancel
    BY <1>15 DEF RequestCancel, turnVars, workVars, flagVars
<1>16. CASE Crash
    BY <1>16 DEF Crash, turnVars, workVars, flagVars, history
<1>17. CASE Resume
    BY <1>17 DEF Resume
<1>18. CASE UNCHANGED vars
    BY <1>18 DEF vars, turnVars, workVars, flagVars, history
<1>19. CASE ReusePins
    BY <1>19 DEF ReusePins, turnVars, history
<1>20. CASE ApprovalRaises
    BY <1>20 DEF ApprovalRaises, turnVars, flagVars, history
<1>21. CASE ContextRaises
    BY <1>21 DEF ContextRaises, turnVars, workVars, flagVars, history
<1> QED BY <1>1, <1>2, <1>3, <1>4, <1>5, <1>6, <1>7, <1>8, <1>9, <1>10, <1>11, <1>12, <1>13, <1>14, <1>15, <1>16, <1>17, <1>18,
           <1>19, <1>20, <1>21 DEF Next, Loop

(* The list of calls and the keys of completed_invocations stay the same   *)
(* record, and a checkpoint never knows of more than the session does.     *)
LEMMA SuccessStep ==
    ASSUME TypeOK, CallInv, SuccessInv, SavedInv, [Next]_vars
    PROVE  SuccessInv'
<1>a. calls \in Seq(CallRecord)
    BY SequenceTypes
<1>b. UNCHANGED <<calls, done, saved>> => SuccessInv'
    BY DEF SuccessInv, Agree
<1>c. UNCHANGED <<done, saved>> /\ Agree(calls', done) => SuccessInv'
    BY DEF SuccessInv, Agree
<1>d. ASSUME calls # <<>>, Head(todo) \in Invocation, NEW st \in {"failed", "denied"}, calls' = CloseCall(st),
             calls[Len(calls)] = [inv |-> Head(todo), status |-> "running"]
      PROVE  Agree(calls', done)
  <2>1. calls' = [calls EXCEPT ![Len(calls)] = [inv |-> Head(todo), status |-> st]]
    BY <1>d, ClosedCall
  <2>2. [inv |-> Head(todo), status |-> st] \in CallRecord /\ st \notin Answered
    BY <1>d DEF CallRecord, Answered
  <2> DEFINE e == [inv |-> Head(todo), status |-> st]
  <2>3. e \in CallRecord /\ e.status \notin Answered /\ calls[Len(calls)].status = "running"
    BY <1>d, <2>2
  <2> HIDE DEF e
  <2>4. Agree([calls EXCEPT ![Len(calls)] = e], done)
    BY <1>a, <1>d, <2>3, AgreeFail DEF SuccessInv
  <2> QED BY <2>1, <2>4 DEF e
<1> USE <1>b
<1>1. CASE Preflight
    BY <1>1 DEF Preflight, workVars
<1>2. CASE StartTurn
    BY <1>2 DEF StartTurn
<1>3. CASE TurnsExhausted
    BY <1>3 DEF TurnsExhausted, workVars
<1>4. CASE ModelFails
    BY <1>4 DEF ModelFails, workVars
<1>5. CASE ModelConcludes
    BY <1>5 DEF ModelConcludes
<1>6. CASE ModelPlans
    BY <1>6 DEF ModelPlans
<1>7. CASE StartTask
    BY <1>7 DEF StartTask
<1>8. CASE EndTask
    BY <1>8 DEF EndTask
<1>9. CASE StartCall
  <2>1. CASE UNCHANGED <<calls, done, saved>>
    BY <2>1
  <2>2. CASE \E st \in {"failed", "running"} :
                 calls' = Append(calls, [inv |-> Head(todo), status |-> st]) /\ UNCHANGED <<done, saved>>
    <3>1. PICK st \in {"failed", "running"} :
              calls' = Append(calls, [inv |-> Head(todo), status |-> st]) /\ UNCHANGED <<done, saved>>
      BY <2>2
    <3>2. [inv |-> Head(todo), status |-> st] \in CallRecord /\ st \notin Answered
      BY <1>9, <3>1, SequenceTypes DEF StartCall, CallRecord, StopBeforeCall, Answered
    <3> QED BY <1>a, <1>c, <3>1, <3>2, AgreeGrow DEF SuccessInv
  <2> QED BY <1>9, <2>1, <2>2 DEF StartCall
<1>10. CASE AwaitApproval
  <2>1. /\ calls # <<>> /\ Head(todo) \in Invocation
        /\ calls[Len(calls)] = [inv |-> Head(todo), status |-> "running"]
        /\ calls' = CloseCall("denied") /\ UNCHANGED <<done, saved>>
    BY <1>10, SequenceTypes DEF AwaitApproval, CallInv
  <2>2. Agree(calls', done)
    BY <2>1, <1>d
  <2> QED BY <1>c, <2>1, <2>2
<1>11. CASE ToolSucceeds
    BY <1>11 DEF ToolSucceeds, workVars
<1>12. CASE RecordSuccess
  <2>1. /\ calls # <<>> /\ Head(todo) \in Invocation /\ Head(todo) \notin done
        /\ calls[Len(calls)] = [inv |-> Head(todo), status |-> "running"]
        /\ calls' = CloseCall("succeeded") /\ done' = done \cup {Head(todo)} /\ saved' = saved
    BY <1>12, SequenceTypes DEF RecordSuccess, CallInv
  <2>2. calls' = [calls EXCEPT ![Len(calls)] = [inv |-> Head(todo), status |-> "succeeded"]]
    BY <2>1, ClosedCall
  <2>3. Agree(calls', done')
    BY <1>a, <2>1, <2>2, AgreeSucceed DEF SuccessInv
  <2> QED BY <2>1, <2>3 DEF SuccessInv
<1>13. CASE ToolFails
  <2>1. /\ calls # <<>> /\ Head(todo) \in Invocation
        /\ calls[Len(calls)] = [inv |-> Head(todo), status |-> "running"]
        /\ calls' = CloseCall("failed") /\ UNCHANGED <<done, saved>>
    BY <1>13, SequenceTypes DEF ToolFails, CallInv
  <2>2. Agree(calls', done)
    BY <2>1, <1>d
  <2> QED BY <1>c, <2>1, <2>2
<1>14. CASE EndTurn
  <2>1. UNCHANGED <<calls, done>> /\ (saved' = saved \/ saved' = Snapshot)
    <3>1. CASE cancel
      BY <1>14, <3>1 DEF EndTurn
    <3>2. CASE ~cancel /\ duplicateOnly' >= 2
      BY <1>14, <3>2 DEF EndTurn
    <3>3. CASE ~cancel /\ duplicateOnly' < 2
      BY <1>14, <3>3 DEF EndTurn
    <3> QED BY <1>14, <3>1, <3>2, <3>3 DEF EndTurn
  <2>2. saved' = Snapshot => saved'.calls = calls /\ saved'.done = done
    BY DEF Snapshot
  <2> QED BY <2>1, <2>2 DEF SuccessInv
<1>15. CASE RequestCancel
    BY <1>15 DEF RequestCancel, workVars
<1>16. CASE Crash
    BY <1>16 DEF Crash, workVars
<1>17. CASE Resume
    BY <1>17 DEF Resume, Restored, SuccessInv
<1>18. CASE UNCHANGED vars
    BY <1>18 DEF vars, turnVars, workVars, flagVars, history
<1>19. CASE ReusePins
  <2>1. /\ Head(todo) \in Invocation /\ Head(todo) \in Evidence
        /\ calls' = Append(calls, [inv |-> Head(todo), status |-> "reused"])
        /\ done' = done \cup {Head(todo)} /\ saved' = saved
    BY <1>19, SequenceTypes DEF ReusePins, MayBePinned
  <2>2. Agree(calls', done')
    BY <1>a, <2>1, AgreeReuse DEF SuccessInv
  <2> QED BY <2>1, <2>2 DEF SuccessInv
<1>20. CASE ApprovalRaises
  <2>1. /\ calls # <<>> /\ Head(todo) \in Invocation
        /\ calls[Len(calls)] = [inv |-> Head(todo), status |-> "running"]
        /\ calls' = CloseCall("denied") /\ UNCHANGED <<done, saved>>
    BY <1>20, SequenceTypes DEF ApprovalRaises, CallInv
  <2>2. Agree(calls', done)
    BY <2>1, <1>d
  <2> QED BY <1>c, <2>1, <2>2
<1>21. CASE ContextRaises
    BY <1>21 DEF ContextRaises, workVars
<1> QED BY <1>1, <1>2, <1>3, <1>4, <1>5, <1>6, <1>7, <1>8, <1>9, <1>10, <1>11, <1>12, <1>13, <1>14, <1>15, <1>16, <1>17, <1>18,
           <1>19, <1>20, <1>21 DEF Next, Loop

(* Calls and tasks end before the next one begins, and a checkpoint is     *)
(* taken when they all have.                                               *)
LEMMA EndedStep ==
    ASSUME TypeOK, CallInv, EndedInv, [Next]_vars
    PROVE  EndedInv'
<1>a. tasks \in Seq(TaskStatus) /\ calls \in Seq(CallRecord)
    BY SequenceTypes
<1>s. pc' \in {"stopped", "raised", "dead"} /\ saved' = saved => EndedInv'
    BY DEF EndedInv
<1>k. /\ UNCHANGED <<tasks, calls, saved>>
      /\ pc \in {"start", "turn", "model"} /\ pc' \in {"turn", "model", "task"}
      => EndedInv'
    BY DEF EndedInv
<1>1. CASE Preflight
    BY <1>1, <1>s, <1>k DEF Preflight, workVars, Fail, Return
<1>2. CASE StartTurn
    BY <1>2, <1>s, <1>k DEF StartTurn, Return
<1>3. CASE TurnsExhausted
    BY <1>3, <1>s DEF TurnsExhausted, Fail, Return
<1>4. CASE ModelFails
    BY <1>4, <1>s DEF ModelFails, Fail, Return
<1>5. CASE ModelConcludes
    BY <1>5, <1>s DEF ModelConcludes, Cancelled, Return
<1>6. CASE ModelPlans
  <2>1. CASE pc' = "stopped"
    BY <1>6, <2>1, <1>s DEF ModelPlans
  <2>2. CASE pc' = "task"
    BY <1>6, <2>2, <1>k DEF ModelPlans, Return, Fail, Cancelled
  <2> QED BY <1>6, <2>1, <2>2 DEF ModelPlans, Return, Fail, Cancelled
<1>7. CASE StartTask
  <2>1. CASE pc' = "stopped"
    BY <1>7, <2>1, <1>s DEF StartTask
  <2>2. CASE pc' = "call"
    <3>1. "running" \in TaskStatus /\ tasks' = Append(tasks, "running")
      BY <1>7 DEF StartTask, TaskStatus, OpenTask
    <3>2. /\ DOMAIN tasks' = DOMAIN tasks \cup {Len(tasks')} /\ tasks' # <<>>
          /\ tasks'[Len(tasks')] = "running" /\ \A k \in DOMAIN tasks : tasks'[k] = tasks[k]
      BY <1>a, <3>1, Grow
    <3>3. \A k \in DOMAIN tasks : tasks[k] \in {"succeeded", "failed"}
      BY <1>7 DEF StartTask, EndedInv
    <3> QED BY <1>7, <2>2, <3>2, <3>3 DEF StartTask, EndedInv
  <2> QED BY <1>7, <2>1, <2>2 DEF StartTask, Return, Fail
<1>8. CASE EndTask
  <2>1. /\ DOMAIN tasks' = DOMAIN tasks
        /\ \A k \in DOMAIN tasks : k # Len(tasks) => tasks'[k] = tasks[k]
        /\ tasks'[Len(tasks)] = IF tasks[Len(tasks)] = "running" THEN "succeeded" ELSE tasks[Len(tasks)]
    BY <1>8, ClosedTask DEF EndTask, EndedInv
  <2>2. \A k \in DOMAIN tasks : tasks'[k] \in {"succeeded", "failed"}
    BY <1>8, <2>1 DEF EndTask, EndedInv
  <2>3. \A k \in DOMAIN calls : calls[k].status \in EndedCall
    BY <1>8 DEF EndTask, EndedInv
  <2> QED BY <1>8, <2>1, <2>2, <2>3 DEF EndTask, EndedInv
<1>9. CASE StartCall
  <2>1. CASE pc' = "stopped"
    BY <1>9, <2>1, <1>s DEF StartCall
  <2>2. CASE /\ pc' = "tool" /\ UNCHANGED <<tasks, saved>>
             /\ calls' = Append(calls, [inv |-> Head(todo), status |-> "running"])
    <3>1. [inv |-> Head(todo), status |-> "running"] \in CallRecord
      BY <1>9, SequenceTypes DEF StartCall, CallRecord
    <3>2. /\ DOMAIN calls' = DOMAIN calls \cup {Len(calls')}
          /\ \A k \in DOMAIN calls : calls'[k] = calls[k]
      BY <1>a, <2>2, <3>1, Grow
    <3>3. \A k \in DOMAIN calls : calls[k].status \in EndedCall
      BY <1>9 DEF StartCall, EndedInv
    <3> QED BY <1>9, <2>2, <3>2, <3>3 DEF StartCall, EndedInv
  <2>3. CASE /\ pc' = pc /\ saved' = saved /\ tasks' = CloseTask("failed")
             /\ calls' = Append(calls, [inv |-> Head(todo), status |-> "failed"])
    <3>0. pc = "call" /\ tasks # <<>>
      BY <1>9 DEF StartCall, EndedInv
    <3>1. [inv |-> Head(todo), status |-> "failed"] \in CallRecord
      BY <1>9, SequenceTypes DEF StartCall, CallRecord
    <3>2. /\ DOMAIN calls' = DOMAIN calls \cup {Len(calls')}
          /\ calls'[Len(calls')] = [inv |-> Head(todo), status |-> "failed"]
          /\ \A k \in DOMAIN calls : calls'[k] = calls[k]
      BY <1>a, <2>3, <3>1, Grow
    <3>3. \A k \in DOMAIN calls' : calls'[k].status \in EndedCall
      <4>1. \A k \in DOMAIN calls : calls[k].status \in EndedCall
        BY <3>0 DEF EndedInv
      <4>2. calls'[Len(calls')].status \in EndedCall
        BY <3>2 DEF EndedCall
      <4> QED BY <3>2, <4>1, <4>2
    <3>4. /\ DOMAIN tasks' = DOMAIN tasks /\ tasks' # <<>> /\ Len(tasks') = Len(tasks)
          /\ \A k \in DOMAIN tasks : k # Len(tasks) => tasks'[k] = tasks[k]
          /\ tasks'[Len(tasks)] = IF tasks[Len(tasks)] = "running" THEN "failed" ELSE tasks[Len(tasks)]
      BY <2>3, <3>0, ClosedTask
    <3>5. \A k \in DOMAIN tasks' : tasks'[k] \in {"succeeded", "failed"}
      <4>1. \A k \in DOMAIN tasks : k # Len(tasks) => tasks[k] \in {"succeeded", "failed"}
        BY <3>0 DEF EndedInv
      <4>2. Len(tasks) \in DOMAIN tasks => tasks[Len(tasks)] \in {"running", "succeeded", "failed"}
        BY <3>0 DEF EndedInv
      <4> QED BY <3>4, <4>1, <4>2
    <3> QED BY <2>3, <3>0, <3>3, <3>4, <3>5 DEF EndedInv
  <2> QED BY <1>9, <2>1, <2>2, <2>3 DEF StartCall, Return, Fail, Cancelled
<1>10. CASE AwaitApproval
    BY <1>10, <1>s DEF AwaitApproval, Return
<1>11. CASE ToolSucceeds
    BY <1>11 DEF ToolSucceeds, workVars, EndedInv
<1>12. CASE RecordSuccess
  <2>1. /\ calls # <<>> /\ Head(todo) \in Invocation /\ tasks # <<>>
        /\ calls[Len(calls)] = [inv |-> Head(todo), status |-> "running"]
    BY <1>12, SequenceTypes DEF RecordSuccess, CallInv, EndedInv
  <2>2. /\ DOMAIN calls' = DOMAIN calls
        /\ calls'[Len(calls)] = [inv |-> Head(todo), status |-> "succeeded"]
        /\ \A k \in DOMAIN calls : k # Len(calls) => calls'[k] = calls[k]
    <3>1. calls' = CloseCall("succeeded")
      BY <1>12 DEF RecordSuccess
    <3> QED BY <2>1, <3>1, ClosedCall
  <2>3. \A k \in DOMAIN calls' : calls'[k].status \in EndedCall
    BY <1>12, <2>2 DEF RecordSuccess, EndedInv, EndedCall
  <2> QED BY <1>12, <2>3 DEF RecordSuccess, EndedInv
<1>13. CASE ToolFails
  <2>1. /\ calls # <<>> /\ Head(todo) \in Invocation /\ tasks # <<>>
        /\ calls[Len(calls)] = [inv |-> Head(todo), status |-> "running"]
    BY <1>13, SequenceTypes DEF ToolFails, CallInv, EndedInv
  <2>2. /\ DOMAIN calls' = DOMAIN calls
        /\ calls'[Len(calls)] = [inv |-> Head(todo), status |-> "failed"]
        /\ \A k \in DOMAIN calls : k # Len(calls) => calls'[k] = calls[k]
    <3>1. calls' = CloseCall("failed")
      BY <1>13 DEF ToolFails
    <3> QED BY <2>1, <3>1, ClosedCall
  <2>3. \A k \in DOMAIN calls' : calls'[k].status \in EndedCall
    BY <1>13, <2>2 DEF ToolFails, EndedInv, EndedCall
  <2>4. /\ DOMAIN tasks' = DOMAIN tasks /\ tasks' # <<>> /\ Len(tasks') = Len(tasks)
        /\ \A k \in DOMAIN tasks : k # Len(tasks) => tasks'[k] = tasks[k]
        /\ tasks'[Len(tasks)] = IF tasks[Len(tasks)] = "running" THEN "failed" ELSE tasks[Len(tasks)]
    BY <1>13, <2>1, ClosedTask DEF ToolFails
  <2>5. \A k \in DOMAIN tasks' : tasks'[k] \in {"succeeded", "failed"}
    <3>1. \A k \in DOMAIN tasks : k # Len(tasks) => tasks[k] \in {"succeeded", "failed"}
      BY <1>13 DEF ToolFails, EndedInv
    <3>2. Len(tasks) \in DOMAIN tasks => tasks[Len(tasks)] \in {"running", "succeeded", "failed"}
      BY <1>13 DEF ToolFails, EndedInv
    <3> QED BY <2>4, <3>1, <3>2
  <2> QED BY <1>13, <2>3, <2>4, <2>5 DEF ToolFails, EndedInv
<1>14. CASE EndTurn
  <2>1. CASE pc' = "stopped"
    BY <1>14, <2>1, <1>s DEF EndTurn, Cancelled, Fail, Return
  <2>2. CASE pc' = "turn"
    <3>1. saved' = Snapshot /\ UNCHANGED <<tasks, calls>>
      BY <1>14, <2>2 DEF EndTurn, Cancelled, Fail, Return
    <3>2. saved'.calls = calls /\ saved'.tasks = tasks
      BY <3>1 DEF Snapshot
    <3>3. /\ \A k \in DOMAIN calls : calls[k].status \in EndedCall
          /\ \A k \in DOMAIN tasks : tasks[k] \in {"succeeded", "failed"}
      BY <1>14 DEF EndTurn, EndedInv
    <3> QED BY <2>2, <3>1, <3>2, <3>3 DEF EndedInv
  <2> QED BY <1>14, <2>1, <2>2 DEF EndTurn, Cancelled, Fail, Return
<1>15. CASE RequestCancel
    BY <1>15 DEF RequestCancel, workVars, EndedInv
<1>16. CASE Crash
    BY <1>16, <1>s DEF Crash
<1>17. CASE Resume
    BY <1>17 DEF Resume, Restored, EndedInv
<1>18. CASE UNCHANGED vars
    BY <1>18 DEF vars, turnVars, workVars, flagVars, history, EndedInv
<1>19. CASE ReusePins
  <2>1. /\ pc = "call" /\ pc' = pc /\ UNCHANGED <<tasks, saved>> /\ Head(todo) \in Invocation
        /\ calls' = Append(calls, [inv |-> Head(todo), status |-> "reused"])
    BY <1>19, SequenceTypes DEF ReusePins
  <2>2. [inv |-> Head(todo), status |-> "reused"] \in CallRecord
    BY <2>1 DEF CallRecord
  <2>3. /\ DOMAIN calls' = DOMAIN calls \cup {Len(calls')}
        /\ calls'[Len(calls')] = [inv |-> Head(todo), status |-> "reused"]
        /\ \A k \in DOMAIN calls : calls'[k] = calls[k]
    BY <1>a, <2>1, <2>2, Grow
  <2>4. \A k \in DOMAIN calls' : calls'[k].status \in EndedCall
    <3>1. \A k \in DOMAIN calls : calls[k].status \in EndedCall
      BY <2>1 DEF EndedInv
    <3>2. calls'[Len(calls')].status \in EndedCall
      BY <2>3 DEF EndedCall
    <3> QED BY <2>3, <3>1, <3>2
  <2> QED BY <2>1, <2>4 DEF EndedInv
<1>20. CASE ApprovalRaises
    BY <1>20, <1>s DEF ApprovalRaises
<1>21. CASE ContextRaises
    BY <1>21, <1>s DEF ContextRaises
<1> QED BY <1>1, <1>2, <1>3, <1>4, <1>5, <1>6, <1>7, <1>8, <1>9, <1>10, <1>11, <1>12, <1>13, <1>14, <1>15, <1>16, <1>17, <1>18,
           <1>19, <1>20, <1>21 DEF Next, Loop

(* The sequences stay what they are, and the calls within their limit.     *)
SequencesOK ==
    /\ tasks \in Seq(TaskStatus) /\ calls \in Seq(CallRecord) /\ Len(calls) <= MaxTotalToolCalls
    /\ plan \in Seq(Seq(Invocation)) /\ todo \in Seq(Invocation)

(* Every step keeps the sequences what they are.                           *)
LEMMA SequenceStep ==
    ASSUME TypeOK, SavedInv, CallInv, EndedInv, [Next]_vars
    PROVE  SequencesOK'
<1> USE SequenceTypes DEF SequencesOK
<1>a. Len(calls) <= MaxTotalToolCalls
    BY DEF TypeOK
<1> USE <1>a
<1>1. CASE Preflight
    BY <1>1 DEF Preflight, workVars
<1>2. CASE StartTurn
    BY <1>2, CancelledTasks DEF StartTurn
<1>3. CASE TurnsExhausted
    BY <1>3 DEF TurnsExhausted, workVars
<1>4. CASE ModelFails
    BY <1>4 DEF ModelFails, workVars
<1>5. CASE ModelConcludes
    BY <1>5, CancelledTasks DEF ModelConcludes, Cancelled
<1>6. CASE ModelPlans
  <2>1. plan' \in Seq(Seq(Invocation))
    BY <1>6 DEF ModelPlans
  <2> QED BY <1>6, <2>1, CancelledTasks DEF ModelPlans, Cancelled
<1>7. CASE StartTask
  <2>1. "running" \in TaskStatus /\ tasks' = Append(tasks, "running")
    BY <1>7 DEF StartTask, TaskStatus, OpenTask
  <2>2. tasks' \in Seq(TaskStatus)
    BY <2>1, Grow
  <2>3. plan # <<>>
    BY <1>7 DEF StartTask, CallInv
  <2> QED BY <1>7, <2>2, <2>3 DEF StartTask
<1>8. CASE EndTask
  <2>1. tasks # <<>>
    BY <1>8 DEF EndTask, EndedInv
  <2>2. tasks' \in Seq(TaskStatus)
    BY <1>8, <2>1, ClosedTask DEF EndTask
  <2> QED BY <1>8, <2>2 DEF EndTask
<1>9. CASE StartCall
  <2>1. CASE Cancelled /\ UNCHANGED <<todo, calls>>
    BY <1>9, <2>1, CancelledTasks DEF StartCall, Cancelled
  <2>2. CASE UNCHANGED <<todo, tasks, calls>>
    BY <1>9, <2>2 DEF StartCall
  <2>3. CASE /\ BudgetLeft /\ tasks' \in {tasks, CloseTask("failed")} /\ todo' \in {todo, Tail(todo)}
             /\ \E s \in {"running", "failed"} : calls' = Append(calls, [inv |-> Head(todo), status |-> s])
    <3>1. todo # <<>> /\ tasks # <<>> /\ plan' = plan
      BY <1>9 DEF StartCall, EndedInv
    <3>2. tasks' \in Seq(TaskStatus)
      BY <2>3, <3>1, ClosedTask
    <3>3. todo' \in Seq(Invocation) /\ Head(todo) \in Invocation
      BY <2>3, <3>1
    <3>4. PICK s \in {"running", "failed"} : calls' = Append(calls, [inv |-> Head(todo), status |-> s])
      BY <2>3
    <3>5. [inv |-> Head(todo), status |-> s] \in CallRecord
      BY <3>3 DEF CallRecord
    <3>6. calls' \in Seq(CallRecord) /\ Len(calls') = Len(calls) + 1
      BY <3>4, <3>5, Grow
    <3> QED BY <2>3, <3>1, <3>2, <3>3, <3>6, LenProperties DEF BudgetLeft
  <2> QED BY <1>9, <2>1, <2>2, <2>3 DEF StartCall
<1>10. CASE AwaitApproval
  <2>1. /\ calls # <<>> /\ Head(todo) \in Invocation /\ todo # <<>> /\ tasks # <<>>
        /\ calls[Len(calls)] = [inv |-> Head(todo), status |-> "running"]
    BY <1>10 DEF AwaitApproval, CallInv, EndedInv
  <2>2. calls' = CloseCall("denied")
    BY <1>10 DEF AwaitApproval
  <2>3. calls' \in Seq(CallRecord) /\ Len(calls') = Len(calls)
    BY <2>1, <2>2, ClosedCall
  <2>4. "waiting_approval" \in TaskStatus
    BY DEF TaskStatus, OpenTask
  <2>5. tasks' = [tasks EXCEPT ![Len(tasks)] = "waiting_approval"]
    BY <1>10 DEF AwaitApproval
  <2>6. tasks' \in Seq(TaskStatus)
    BY <2>1, <2>4, <2>5, ReplaceLast
  <2> QED BY <1>10, <2>3, <2>6 DEF AwaitApproval
<1>11. CASE ToolSucceeds
    BY <1>11 DEF ToolSucceeds, workVars
<1>12. CASE RecordSuccess
  <2>1. /\ calls # <<>> /\ Head(todo) \in Invocation /\ todo # <<>> /\ tasks # <<>>
        /\ calls[Len(calls)] = [inv |-> Head(todo), status |-> "running"]
    BY <1>12 DEF RecordSuccess, CallInv, EndedInv
  <2>2. calls' = CloseCall("succeeded")
    BY <1>12 DEF RecordSuccess
  <2>3. calls' \in Seq(CallRecord) /\ Len(calls') = Len(calls)
    BY <2>1, <2>2, ClosedCall
  <2> QED BY <1>12, <2>1, <2>3 DEF RecordSuccess
<1>13. CASE ToolFails
  <2>1. /\ calls # <<>> /\ Head(todo) \in Invocation /\ todo # <<>> /\ tasks # <<>>
        /\ calls[Len(calls)] = [inv |-> Head(todo), status |-> "running"]
    BY <1>13 DEF ToolFails, CallInv, EndedInv
  <2>2. calls' = CloseCall("failed")
    BY <1>13 DEF ToolFails
  <2>3. calls' \in Seq(CallRecord) /\ Len(calls') = Len(calls)
    BY <2>1, <2>2, ClosedCall
  <2>4. tasks' \in Seq(TaskStatus)
    BY <1>13, <2>1, ClosedTask DEF ToolFails
  <2> QED BY <1>13, <2>1, <2>3, <2>4 DEF ToolFails
<1>14. CASE EndTurn
    BY <1>14, CancelledTasks DEF EndTurn, Cancelled
<1>15. CASE RequestCancel
    BY <1>15 DEF RequestCancel, workVars
<1>16. CASE Crash
    BY <1>16 DEF Crash, workVars
<1>17. CASE Resume
  <2>1. saved.tasks \in Seq(TaskStatus) /\ saved.calls \in Seq(CallRecord) /\ Len(saved.calls) <= MaxTotalToolCalls
    BY DEF SavedInv, SnapshotRecord
  <2>2. plan' = <<>> /\ todo' = <<>> /\ tasks' = saved.tasks /\ calls' = saved.calls
    BY <1>17 DEF Resume, Restored
  <2> QED BY <2>1, <2>2
<1>18. CASE UNCHANGED vars
    BY <1>18 DEF vars, workVars
<1>19. CASE ReusePins
  <2>1. /\ Head(todo) \in Invocation /\ Tail(todo) \in Seq(Invocation) /\ BudgetLeft
        /\ calls' = Append(calls, [inv |-> Head(todo), status |-> "reused"])
        /\ todo' = Tail(todo) /\ UNCHANGED <<plan, tasks>>
    BY <1>19 DEF ReusePins
  <2>2. [inv |-> Head(todo), status |-> "reused"] \in CallRecord
    BY <2>1 DEF CallRecord
  <2>3. calls' \in Seq(CallRecord) /\ Len(calls') = Len(calls) + 1
    BY <2>1, <2>2, Grow
  <2> QED BY <2>1, <2>3, LenProperties DEF BudgetLeft
<1>20. CASE ApprovalRaises
  <2>1. /\ calls # <<>> /\ Head(todo) \in Invocation /\ todo # <<>>
        /\ calls[Len(calls)] = [inv |-> Head(todo), status |-> "running"]
    BY <1>20 DEF ApprovalRaises, CallInv
  <2>2. calls' = CloseCall("denied") /\ UNCHANGED <<plan, todo, tasks>>
    BY <1>20 DEF ApprovalRaises
  <2>3. calls' \in Seq(CallRecord) /\ Len(calls') = Len(calls)
    BY <2>1, <2>2, ClosedCall
  <2> QED BY <2>2, <2>3
<1>21. CASE ContextRaises
    BY <1>21 DEF ContextRaises, workVars
<1> QED BY <1>1, <1>2, <1>3, <1>4, <1>5, <1>6, <1>7, <1>8, <1>9, <1>10, <1>11, <1>12, <1>13, <1>14, <1>15, <1>16, <1>17, <1>18,
           <1>19, <1>20, <1>21 DEF Next, Loop

(* The values of the other variables.                                      *)
ScalarsOK ==
    /\ pc \in {"start", "turn", "model", "task", "call", "tool", "record", "turn_end", "stopped", "raised", "dead"}
    /\ outcome \in {"none", "completed", "failed", "cancelled", "waiting_approval"}
    /\ session \in {"active", "waiting", "completed", "failed", "cancelled"}
    /\ turn \in {"none", "pending", "running", "waiting_tool", "completed", "failed"}
    /\ turnNumber \in 1..MaxTurns + 1
    /\ turnCount \in Nat
    /\ done \subseteq Invocation
    /\ called \in BOOLEAN /\ fresh \in BOOLEAN /\ cancel \in BOOLEAN
    /\ duplicateOnly \in 0..2
    /\ resumes \in 0..MaxResumes
    /\ late \in Nat /\ effects \in [Invocation -> Nat]

(* Every step keeps them what they are.                                    *)
LEMMA ScalarStep ==
    ASSUME TypeOK, SavedInv, CountInv, CallInv, [Next]_vars
    PROVE  ScalarsOK'
<1>a. /\ ScalarsOK
      /\ pc \notin {"stopped", "raised", "dead"} => duplicateOnly <= 1
      /\ pc \in InTurn => turnNumber <= MaxTurns
      /\ pc \in {"tool", "record"} => todo # <<>>
    BY DEF TypeOK, CountInv, CallInv, ScalarsOK
<1>b. todo # <<>> => Head(todo) \in Invocation
    BY SequenceTypes
<1> USE <1>a, <1>b DEF ScalarsOK, InTurn
<1>1. CASE Preflight
    BY <1>1 DEF Preflight, Return, Fail, workVars, flagVars, history
<1>2. CASE StartTurn
  <2>1. /\ pc' \in {"model", "stopped"} /\ outcome' \in {outcome, "cancelled"}
        /\ turn' \in {"running", "completed"} /\ session' \in {session, "cancelled"}
    BY <1>2 DEF StartTurn, Return
  <2>2. turnCount' \in Nat /\ called' = FALSE /\ fresh' = FALSE
    BY <1>2 DEF StartTurn
  <2>3. UNCHANGED <<turnNumber, done, cancel, duplicateOnly, resumes, late, effects>>
    BY <1>2 DEF StartTurn, history
  <2> QED BY <2>1, <2>2, <2>3
<1>3. CASE TurnsExhausted
    BY <1>3 DEF TurnsExhausted, Return, Fail, workVars, flagVars, history
<1>4. CASE ModelFails
    BY <1>4 DEF ModelFails, Return, Fail, workVars, flagVars, history
<1>5. CASE ModelConcludes
    BY <1>5 DEF ModelConcludes, Return, Cancelled, flagVars, history
<1>6. CASE ModelPlans
    BY <1>6 DEF ModelPlans, Return, Fail, Cancelled, flagVars, history
<1>7. CASE StartTask
    BY <1>7 DEF StartTask, Return, Fail, flagVars, history
<1>8. CASE EndTask
    BY <1>8 DEF EndTask, turnVars, flagVars, history
<1>9. CASE StartCall
    BY <1>9 DEF StartCall, Return, Fail, Cancelled, StopBeforeCall, history
<1>10. CASE AwaitApproval
    BY <1>10 DEF AwaitApproval, Return, flagVars, history
<1>11. CASE ToolSucceeds
    BY <1>11 DEF ToolSucceeds, turnVars, workVars, flagVars
<1>12. CASE RecordSuccess
    BY <1>12 DEF RecordSuccess, turnVars, flagVars, history
<1>13. CASE ToolFails
    BY <1>13 DEF ToolFails, turnVars, flagVars
<1>14. CASE EndTurn
    BY <1>14 DEF EndTurn, Return, Fail, Cancelled, history
<1>15. CASE RequestCancel
    BY <1>15 DEF RequestCancel, turnVars, workVars, flagVars
<1>16. CASE Crash
    BY <1>16 DEF Crash, turnVars, workVars, flagVars, history
<1>17. CASE Resume
  <2>1. turnNumber' \in 1..MaxTurns + 1 /\ resumes' \in 0..MaxResumes
    BY <1>17 DEF Resume
  <2>2. turnCount' \in Nat /\ done' \subseteq Invocation
    BY <1>17 DEF Resume, Restored, SavedInv, SnapshotRecord
  <2>3. turn' \in {"none", "completed"}
    BY <1>17 DEF Resume
  <2>4. pc' = "start" /\ outcome' = "none" /\ session' = "active" /\ called' = FALSE /\ fresh' = FALSE /\ cancel' = FALSE
    BY <1>17 DEF Resume
  <2>5. duplicateOnly' \in 0..2 /\ late' \in Nat /\ effects' \in [Invocation -> Nat]
    BY <1>17 DEF Resume
  <2> QED BY <2>1, <2>2, <2>3, <2>4, <2>5
<1>18. CASE UNCHANGED vars
    BY <1>18 DEF vars, turnVars, workVars, flagVars, history
<1>19. CASE ReusePins
    BY <1>19 DEF ReusePins, turnVars, history
<1>20. CASE ApprovalRaises
    BY <1>20 DEF ApprovalRaises, turnVars, flagVars, history
<1>21. CASE ContextRaises
    BY <1>21 DEF ContextRaises, turnVars, workVars, flagVars, history
<1> QED BY <1>1, <1>2, <1>3, <1>4, <1>5, <1>6, <1>7, <1>8, <1>9, <1>10, <1>11, <1>12, <1>13, <1>14, <1>15, <1>16, <1>17, <1>18,
           <1>19, <1>20, <1>21 DEF Next, Loop

(* A product of natural numbers grows with its factor.                     *)
LEMMA TimesGrows ==
    ASSUME NEW m \in Nat, NEW r \in Nat, NEW s \in Nat, r <= s
    PROVE  m * r \in Nat /\ m * s \in Nat /\ m * r <= m * s
<1>1. PICK d \in Nat : s = r + d
    BY s - r \in Nat
<1>2. m * r \in Nat /\ m * d \in Nat
    OBVIOUS
<1>3. m * (r + d) = m * r + m * d
    BY <1>1
<1> QED BY <1>1, <1>2, <1>3

(* The types hold: the turns of all runs together are bounded.             *)
LEMMA TypeStep ==
    ASSUME TypeOK, SavedInv, CountInv, CallInv, EndedInv, SavedInv', CountInv', [Next]_vars
    PROVE  TypeOK'
<1>1. SequencesOK' /\ ScalarsOK'
    BY SequenceStep, ScalarStep
<1>2. turnCount' \in 0..MaxTurns * (MaxResumes + 1)
  <2>1. resumes' \in Nat /\ resumes' <= MaxResumes /\ turnCount' \in Nat
    BY <1>1 DEF ScalarsOK
  <2>2. turnCount' <= MaxTurns * resumes' + MaxTurns
    BY DEF CountInv, Earlier
  <2>3. /\ MaxTurns * resumes' <= MaxTurns * MaxResumes
        /\ MaxTurns * resumes' \in Nat /\ MaxTurns * MaxResumes \in Nat
    <3> DEFINE m == MaxTurns
               r == resumes'
               s == MaxResumes
    <3>1. m \in Nat /\ r \in Nat /\ s \in Nat /\ r <= s
      BY <2>1
    <3> HIDE DEF m, r, s
    <3>2. m * r \in Nat /\ m * s \in Nat /\ m * r <= m * s
      BY <3>1, TimesGrows
    <3> QED BY <3>2 DEF m, r, s
  <2>4. MaxTurns \in Nat /\ MaxTurns * (MaxResumes + 1) = MaxTurns * MaxResumes + MaxTurns
    OBVIOUS
  <2> DEFINE a == MaxTurns * resumes'
             b == MaxTurns * MaxResumes
  <2>5. a \in Nat /\ b \in Nat /\ a <= b /\ turnCount' <= a + MaxTurns /\ MaxTurns * (MaxResumes + 1) = b + MaxTurns
    BY <2>2, <2>3, <2>4
  <2> HIDE DEF a, b
  <2>6. turnCount' <= b + MaxTurns /\ b + MaxTurns \in Nat
    BY <2>1, <2>4, <2>5
  <2> QED BY <2>1, <2>5, <2>6
<1>3. DOMAIN saved' = {"turnCount", "tasks", "calls", "done"}
    BY DEF SavedInv, SnapshotRecord
<1> QED BY <1>1, <1>2, <1>3 DEF TypeOK, SequencesOK, ScalarsOK, TaskStatus, CallRecord

(* A new session has neither turns nor calls.                              *)
LEMMA InitIInv == Init => IInv
<1> SUFFICES ASSUME Init PROVE IInv
    OBVIOUS
<1>1. MaxTurns * (MaxResumes + 1) \in Nat /\ MaxTurns * resumes = 0 /\ MaxTurns \in Nat
    BY DEF Init
<1>2. TypeOK
  <2>1. plan \in Seq(Seq(Invocation)) /\ todo \in Seq(Invocation)
        /\ tasks \in Seq(OpenTask \cup {"succeeded", "failed", "cancelled"})
        /\ calls \in Seq([inv : Invocation, status : {"running", "succeeded", "reused", "failed", "denied"}])
        /\ Len(calls) = 0
    BY DEF Init
  <2>2. turnCount \in 0..MaxTurns * (MaxResumes + 1)
    BY <1>1 DEF Init
  <2>3. DOMAIN saved = {"turnCount", "tasks", "calls", "done"}
    BY DEF Init, NothingSaved
  <2>4. /\ pc = "start" /\ outcome = "none" /\ session = "active" /\ turn = "none"
        /\ turnNumber \in 1..MaxTurns + 1 /\ done \subseteq Invocation /\ duplicateOnly \in 0..2
        /\ resumes \in 0..MaxResumes /\ called = FALSE /\ fresh = FALSE /\ cancel = FALSE
        /\ late \in Nat /\ effects \in [Invocation -> Nat]
    BY DEF Init
  <2>5. Len(calls) <= MaxTotalToolCalls
    BY <2>1
  <2> HIDE DEF Init
  <2> QED BY <2>1, <2>2, <2>3, <2>4, <2>5 DEF TypeOK
<1>3. SavedInv
    BY DEF Init, SavedInv, SnapshotRecord, NothingSaved
<1>4. CountInv
    BY <1>1 DEF Init, CountInv, Earlier, InTurn, NothingSaved
<1>5. PhaseInv /\ CallInv /\ ResultAgrees
    BY DEF Init, PhaseInv, CallInv, ResultAgrees, InTurn, Running
<1>6. EndedInv
    BY DEF Init, EndedInv, NothingSaved
<1>7. SuccessInv
    BY DEF Init, SuccessInv, Agree, NothingSaved
<1>8. EffectInv /\ LateInv
    BY DEF Init, EffectInv, LateInv
<1> QED BY <1>2, <1>3, <1>4, <1>5, <1>6, <1>7, <1>8 DEF IInv, Rest

(* What every line of the loop relies on holds of every session, whatever  *)
(* the model replies and wherever its runs die and are resumed.            *)
THEOREM Invariance == Spec => []IInv
<1>1. IInv /\ [Next]_vars => IInv'
    BY TypeStep, SavedStep, CountStep, PhaseStep, CallStep, EndedStep, SuccessStep, EffectStep,
       LateStep, ResultStep DEF IInv, Rest
<1> QED BY <1>1, InitIInv, PTL DEF Spec

(* The types and the bounds: a session has at most MaxTurns turns per run  *)
(* and MaxTotalToolCalls calls over all its runs.                          *)
THEOREM TypeCorrect == Spec => []TypeOK
<1>1. IInv => TypeOK
    BY DEF IInv
<1> QED BY <1>1, Invariance, PTL

(* completed_invocations holds the keys of the calls that succeeded; a     *)
(* tool was run for each of them once at most, and only a key of           *)
(* read_evidence is ever answered with pins.                               *)
THEOREM SuccessesAreUnique == Spec => []OneSuccessPerInvocation
<1>1. IInv => OneSuccessPerInvocation
  <2> SUFFICES ASSUME IInv, NEW i \in Invocation
               PROVE  /\ i \in done <=> Ended(i, "succeeded") \cup Ended(i, "reused") # {}
                      /\ \A k, l \in Ended(i, "succeeded") : k = l
                      /\ Ended(i, "reused") # {} => i \in Evidence
    BY DEF OneSuccessPerInvocation
  <2>1. \A k \in DOMAIN calls : calls[k] \in CallRecord
    BY SequenceTypes, ElementOfSeq, LenProperties DEF IInv
  <2>2. \A st : \A k : k \in Ended(i, st) <=> k \in DOMAIN calls /\ calls[k].inv = i /\ calls[k].status = st
    BY <2>1 DEF Ended, CallRecord
  <2>3. Agree(calls, done)
    BY DEF IInv, Rest, SuccessInv
  <2>4. i \in done <=> \E k \in DOMAIN calls : calls[k].inv = i /\ calls[k].status \in Answered
    BY <2>3 DEF Agree
  <2> QED BY <2>2, <2>3, <2>4 DEF Agree, Answered
<1> QED BY <1>1, Invariance, PTL

(* No run makes a call again whose success is in the checkpoint.           *)
THEOREM CheckpointedCallsStay == Spec => []CheckpointedCallsAreNotRepeated
<1>1. IInv => CheckpointedCallsAreNotRepeated
    BY DEF IInv, Rest, CallInv, SuccessInv, CheckpointedCallsAreNotRepeated
<1> QED BY <1>1, Invariance, PTL

(* An invocation runs with success once per run of the session at most.    *)
THEOREM RepeatsAreBounded == Spec => []RepeatsNeedAResumption
<1>1. IInv => RepeatsNeedAResumption
  <2> SUFFICES ASSUME IInv, NEW i \in Invocation PROVE effects[i] <= 1 + resumes
    BY DEF RepeatsNeedAResumption
  <2>1. resumes \in Nat /\ effects[i] \in Nat
    BY DEF IInv, TypeOK
  <2> QED BY <2>1 DEF IInv, Rest, EffectInv
<1> QED BY <1>1, Invariance, PTL

(* A cancel request lets one more tool run at most.                        *)
THEOREM LateCallsBounded == Spec => []LateCallsAreBounded
<1>1. IInv => LateCallsAreBounded
    BY DEF IInv, Rest, LateInv, LateCallsAreBounded
<1> QED BY <1>1, Invariance, PTL

(* Result, session, turn, tasks and calls of a run that has returned, or   *)
(* that an exception has ended, agree.                                     *)
THEOREM ResultsAgree == Spec => []ResultAgrees
<1>1. IInv => ResultAgrees
    BY DEF IInv, Rest
<1> QED BY <1>1, Invariance, PTL

(* A resumption finds nothing in flight.                                   *)
THEOREM CheckpointsAreSettled == Spec => []CheckpointIsSettled
<1>1. IInv => CheckpointIsSettled
  <2> SUFFICES ASSUME IInv PROVE CheckpointIsSettled
    OBVIOUS
  <2>1. /\ \A k \in DOMAIN saved.tasks : saved.tasks[k] \in {"succeeded", "failed"}
        /\ \A k \in DOMAIN saved.calls : saved.calls[k].status \in {"succeeded", "reused", "failed"}
    BY DEF IInv, Rest, EndedInv, EndedCall
  <2>2. saved.done = {saved.calls[k].inv : k \in {l \in DOMAIN saved.calls : saved.calls[l].status \in {"succeeded", "reused"}}}
    BY DEF IInv, Rest, SuccessInv, Agree, Answered
  <2> QED BY <2>1, <2>2 DEF CheckpointIsSettled
<1> QED BY <1>1, Invariance, PTL
-----------------------------------------------------------------------------
(* The package of the skills a run may load (SkillCatalog).                *)
CONSTANTS MAX_SKILLS, MAX_REFERENCES, Builder, Content, MaxBuilds
VARIABLES index, staging, written, released, builder, builds, crashed, overlapped, spoiled
Package == INSTANCE SkillCatalog

Outcome == {Package!Absent, "unreadable", "published", "same_version_content_conflict", "resource_missing",
            "publish_conflict", "write_failed", "replace_failed", "index_failed"}
Build == [pc : {"idle", "index", "stage", "write", "replace", "name", "fill"},
          content : Content \cup {Package!Absent}, outcome : Outcome]

PublicationType ==
    /\ index \in Content \cup {Package!Absent, Package!Torn} /\ builder \in [Builder -> Build]
    /\ crashed \in BOOLEAN /\ overlapped \in BOOLEAN
    /\ \A b \in Builder : builder[b].pc # "idle" => builder[b].content \in Content

(* What is named is released, whoever else builds and wherever they died.  *)
ReleaseInv ==
    /\ index \in Content => index \in released
    /\ written \subseteq staging
    /\ \A b \in Builder : builder[b].pc \in {"name", "fill"} \/ builder[b].outcome = "published" => builder[b].content \in released

(* One build at a time: what there is at each of its steps, and what it    *)
(* ended in.  Of the release and the stages as long as no write of an      *)
(* index, or no removal, has failed.                                       *)
StepOK(b) ==
    /\ builder[b].pc \in {"stage", "write", "replace", "name"} => index = Package!Absent
    /\ builder[b].pc = "fill" => index = Package!Torn
    /\ builder[b].pc \in {"write", "replace"} => builder[b].content \in staging
    /\ "index" \notin spoiled =>
          /\ builder[b].pc \in {"stage", "write", "replace"} => released = {}
          /\ builder[b].pc \in {"name", "fill"} => released = {builder[b].content}
OutcomeOK(b) ==
    /\ builder[b].outcome # "resource_missing"
    /\ builder[b].outcome \in {"index_failed", "unreadable"} => "index" \in spoiled
    /\ builder[b].outcome = "publish_conflict" => "removal" \in spoiled
    /\ builder[b].outcome = "published" => index = builder[b].content /\ index \in Content
OneBuildInv ==
    /\ \A b, c \in Builder : builder[b].pc # "idle" /\ builder[c].pc # "idle" => b = c
    /\ \A b \in Builder : StepOK(b) /\ OutcomeOK(b)
    /\ "removal" \notin spoiled =>
          \A s \in staging : \E b \in Builder : builder[b].pc \in {"write", "replace"} /\ builder[b].content = s
    /\ "index" \notin spoiled /\ (\A b \in Builder : builder[b].pc \in {"idle", "index"}) =>
          (index = Package!Absent /\ released = {}) \/ (index \in Content /\ released = {index})

PackageInv == PublicationType /\ ReleaseInv /\ (overlapped \/ crashed \/ OneBuildInv)

-----------------------------------------------------------------------------
LEMMA PackageBegins == ASSUME Package!ConstantsOK, Package!PublicationInit PROVE PackageInv
<1>1. /\ index = Package!Absent /\ staging = {} /\ written = {} /\ released = {} /\ spoiled = {}
      /\ crashed \in BOOLEAN /\ overlapped \in BOOLEAN
      /\ builder = [b \in Builder |-> [pc |-> "idle", content |-> Package!Absent, outcome |-> Package!Absent]]
    BY DEF Package!PublicationInit, Package!Idle
<1>2. PublicationType /\ ReleaseInv
    BY <1>1 DEF PublicationType, ReleaseInv, Build, Outcome, Package!ConstantsOK, Package!Absent
<1>3. OneBuildInv
    BY <1>1 DEF OneBuildInv, StepOK, OutcomeOK, Package!Absent
<1> QED BY <1>2, <1>3 DEF PackageInv

(* A build that fails keeps what there is, and says what failed.           *)
LEMMA PackageFails ==
    ASSUME Package!ConstantsOK, PackageInv, NEW b \in Builder, NEW ended, NEW marks,
           \/ ended \in {"write_failed", "replace_failed"} /\ marks = {} /\ builder[b].pc \in {"write", "replace"} /\ index' = index
           \/ ended = "index_failed" /\ marks = {"index"} /\ builder[b].pc = "name" /\ index' = index
           \/ ended = "index_failed" /\ marks = {"index"} /\ builder[b].pc = "fill" /\ index' \in {index, Package!Torn},
           Package!Fails(b, ended, marks), UNCHANGED <<released, crashed, overlapped>>
    PROVE  PackageInv'
<1> USE DEF Package!Absent, Package!Torn
<1>1. /\ builder' = [builder EXCEPT ![b].pc = "idle", ![b].outcome = ended]
      /\ staging' \subseteq staging /\ written' = written \ {builder[b].content} /\ spoiled \cup marks \subseteq spoiled'
      /\ "index" \notin spoiled' => "index" \notin spoiled
      /\ "removal" \notin spoiled' => "removal" \notin spoiled
      /\ staging' = staging \ {builder[b].content} \/ (staging' = staging /\ "removal" \in spoiled')
    BY DEF Package!Fails, Package!Ends
<1>2. PublicationType'
    <2>1. builder \in [Builder -> Build] /\ index' \in Content \cup {Package!Absent, Package!Torn}
        BY DEF PackageInv, PublicationType
    <2>2. ended \in Outcome
        BY DEF Outcome
    <2>3. [builder[b] EXCEPT !.pc = "idle", !.outcome = ended] \in Build
        BY <2>1, <2>2 DEF Build
    <2>4. builder' = [builder EXCEPT ![b] = [builder[b] EXCEPT !.pc = "idle", !.outcome = ended]]
        BY <1>1
    <2>5. builder' \in [Builder -> Build]
        BY <2>1, <2>3, <2>4
    <2>6. \A c \in Builder : builder'[c].pc # "idle" => builder'[c] = builder[c]
        BY <2>1, <2>4
    <2> QED BY <2>1, <2>5, <2>6 DEF PackageInv, PublicationType
<1>3. ReleaseInv'
    BY <1>1 DEF PackageInv, PublicationType, ReleaseInv, Build, Package!ConstantsOK
<1>4. ASSUME ~overlapped, ~crashed PROVE OneBuildInv'
    <2>0. OneBuildInv
        BY <1>4 DEF PackageInv
    <2>1. \A c \in Builder : /\ c # b => builder'[c] = builder[c] /\ builder[c].pc = "idle"
                             /\ builder'[c].pc = "idle" /\ builder'[b].outcome = ended
        BY <1>1, <2>0 DEF PackageInv, PublicationType, Build, OneBuildInv
    <2>2. \A c \in Builder : StepOK(c)'
        BY <2>1 DEF StepOK
    <2>3. \A c \in Builder : OutcomeOK(c)'
        <3>1. index \notin Content
            BY <2>0 DEF OneBuildInv, StepOK, Package!ConstantsOK
        <3>2. OutcomeOK(b)'
            BY <1>1, <2>1 DEF OutcomeOK
        <3>3. ASSUME NEW c \in Builder, c # b PROVE OutcomeOK(c)'
            BY <1>1, <2>0, <2>1, <3>1, <3>3 DEF OneBuildInv, OutcomeOK
        <3> QED BY <3>2, <3>3
    <2>4. ASSUME "removal" \notin spoiled' PROVE staging' = {}
        BY <1>1, <2>0, <2>1, <2>4 DEF OneBuildInv
    <2>5. ASSUME "index" \notin spoiled'
          PROVE  index' = Package!Absent /\ released' = {}
        BY <1>1, <2>0, <2>5 DEF OneBuildInv, StepOK
    <2> QED BY <2>1, <2>2, <2>3, <2>4, <2>5 DEF OneBuildInv
<1> QED BY <1>2, <1>3, <1>4 DEF PackageInv

LEMMA PackageStep == ASSUME Package!ConstantsOK, PackageInv, [Package!PublicationNext]_(Package!publicationVars) PROVE PackageInv'
<1> USE DEF Package!Absent, Package!Torn
<1>1. ASSUME UNCHANGED Package!publicationVars PROVE PackageInv'
    BY <1>1 DEF Package!publicationVars, PackageInv, PublicationType, ReleaseInv, OneBuildInv, StepOK, OutcomeOK
<1>2. ASSUME NEW b \in Builder, NEW content \in Content, Package!StartBuild(b, content) PROVE PackageInv'
    <2>1. /\ builder[b].pc = "idle" /\ overlapped' = (overlapped \/ \E other \in Builder \ {b} : builder[other].pc # "idle")
          /\ builder' = [builder EXCEPT ![b] = [pc |-> "index", content |-> content, outcome |-> Package!Absent]]
          /\ UNCHANGED <<index, staging, written, released, crashed, spoiled>>
        BY <1>2 DEF Package!StartBuild, Package!Busy
    <2>2. PublicationType'
        BY <2>1 DEF PackageInv, PublicationType, Build, Outcome
    <2>3. ReleaseInv'
        BY <2>1 DEF PackageInv, PublicationType, ReleaseInv
    <2>4. ASSUME ~overlapped', ~crashed' PROVE OneBuildInv'
        <3>1. OneBuildInv /\ \A c \in Builder \ {b} : builder[c].pc = "idle" /\ builder'[c] = builder[c]
            BY <2>1, <2>4 DEF PackageInv, PublicationType
        <3>2. builder'[b] = [pc |-> "index", content |-> content, outcome |-> Package!Absent]
            BY <2>1 DEF PackageInv, PublicationType
        <3> QED BY <2>1, <3>1, <3>2 DEF OneBuildInv, StepOK, OutcomeOK
    <2> QED BY <2>2, <2>3, <2>4 DEF PackageInv
<1>3. ASSUME NEW b \in Builder, Package!CheckIndex(b) PROVE PackageInv'
    <2>1. /\ builder[b].pc = "index" /\ builder[b].content \in Content
          /\ UNCHANGED <<index, staging, written, released, builds, crashed, overlapped, spoiled>>
        BY <1>3 DEF Package!CheckIndex, Package!At, PackageInv, PublicationType
    <2>2. CASE index = Package!Absent
        <3>1. builder' = [builder EXCEPT ![b].pc = "stage"]
            BY <1>3, <2>2 DEF Package!CheckIndex, Package!Go
        <3> USE <2>1, <2>2, <3>1 DEF PackageInv, PublicationType, Build, Package!ConstantsOK
        <3>2. PublicationType'
            OBVIOUS
        <3>3. ReleaseInv'
            BY DEF ReleaseInv
        <3>4. ASSUME ~overlapped, ~crashed PROVE OneBuildInv'
            BY <3>4 DEF OneBuildInv, StepOK, OutcomeOK
        <3> QED BY <3>2, <3>3, <3>4
    <2>3. CASE index # Package!Absent
        <3>1. PICK answer \in {"unreadable", "same_version_content_conflict", "published", "resource_missing"} :
                 /\ builder' = [builder EXCEPT ![b].pc = "idle", ![b].outcome = answer]
                 /\ answer = "unreadable" <=> index = Package!Torn
                 /\ answer = "published" => index = builder[b].content /\ index \in released
                 /\ answer = "resource_missing" => index \in Content \ released
            BY <1>3, <2>1, <2>3 DEF Package!CheckIndex, Package!Ends, Package!ConstantsOK, PackageInv, PublicationType
        <3> USE <2>1, <2>3, <3>1 DEF PackageInv, PublicationType, Build, Outcome
        <3>2. PublicationType'
            BY ZenonT(60)
        <3>3. ReleaseInv'
            BY DEF ReleaseInv
        <3>4. ASSUME ~overlapped, ~crashed PROVE OneBuildInv'
            BY <3>4 DEF OneBuildInv, StepOK, OutcomeOK, ReleaseInv, Package!ConstantsOK
        <3> QED BY <3>2, <3>3, <3>4
    <2> QED BY <2>2, <2>3
<1>4. ASSUME NEW b \in Builder, Package!MakeStage(b) PROVE PackageInv'
    <2> USE <1>4 DEF Package!MakeStage, Package!At, Package!Go, Package!Ends, Package!ConstantsOK, PackageInv, PublicationType, Build, Outcome
    <2>1. PublicationType'
        OBVIOUS
    <2>2. ReleaseInv'
        BY DEF ReleaseInv
    <2>3. ASSUME ~overlapped, ~crashed PROVE OneBuildInv'
        BY <2>3 DEF OneBuildInv, StepOK, OutcomeOK
    <2> QED BY <2>1, <2>2, <2>3
<1>5. ASSUME NEW b \in Builder, Package!WriteStage(b) PROVE PackageInv'
    <2>1. CASE Package!Fails(b, "write_failed", {})
        BY <1>5, <2>1, PackageFails DEF Package!WriteStage, Package!At
    <2>2. CASE /\ staging' = staging \cup {builder[b].content} /\ written' = written \cup {builder[b].content}
               /\ builder' = [builder EXCEPT ![b].pc = "replace"] /\ spoiled' = spoiled
        <3> USE <1>5, <2>2 DEF Package!WriteStage, Package!At, Package!ConstantsOK, PackageInv, PublicationType, Build, Outcome
        <3>1. PublicationType'
            OBVIOUS
        <3>2. ReleaseInv'
            BY DEF ReleaseInv
        <3>3. ASSUME ~overlapped, ~crashed PROVE OneBuildInv'
            BY <3>3 DEF OneBuildInv, StepOK, OutcomeOK
        <3> QED BY <3>1, <3>2, <3>3
    <2> QED BY <1>5, <2>1, <2>2 DEF Package!WriteStage, Package!Go
<1>6. ASSUME NEW b \in Builder, Package!Replace(b) PROVE PackageInv'
    <2>1. CASE Package!Fails(b, "replace_failed", {}) /\ released' = released
        BY <1>6, <2>1, PackageFails DEF Package!Replace, Package!At
    <2>2. CASE /\ released' = released \cup {builder[b].content}
               /\ staging' = staging \ {builder[b].content} /\ written' = written \ {builder[b].content}
               /\ builder' = [builder EXCEPT ![b].pc = "name"] /\ spoiled' = spoiled
        <3> USE <1>6, <2>2 DEF Package!Replace, Package!At, Package!ConstantsOK, PackageInv, PublicationType, Build, Outcome
        <3>1. PublicationType'
            OBVIOUS
        <3>2. ReleaseInv'
            BY DEF ReleaseInv
        <3>3. ASSUME ~overlapped, ~crashed PROVE OneBuildInv'
            BY <3>3 DEF OneBuildInv, StepOK, OutcomeOK
        <3> QED BY <3>1, <3>2, <3>3
    <2> QED BY <1>6, <2>1, <2>2 DEF Package!Replace, Package!Go
<1>7. ASSUME NEW b \in Builder, Package!OpenIndex(b) PROVE PackageInv'
    <2>1. CASE Package!Fails(b, "index_failed", {"index"}) /\ index' = index
        BY <1>7, <2>1, PackageFails DEF Package!OpenIndex, Package!At
    <2>2. CASE index' = Package!Torn /\ builder' = [builder EXCEPT ![b].pc = "fill"] /\ UNCHANGED <<staging, written, spoiled>>
        <3> USE <1>7, <2>2 DEF Package!OpenIndex, Package!At, Package!ConstantsOK, PackageInv, PublicationType, Build, Outcome
        <3>1. PublicationType'
            OBVIOUS
        <3>2. ReleaseInv'
            BY DEF ReleaseInv
        <3>3. ASSUME ~overlapped, ~crashed PROVE OneBuildInv'
            BY <3>3 DEF OneBuildInv, StepOK, OutcomeOK
        <3> QED BY <3>1, <3>2, <3>3
    <2> QED BY <1>7, <2>1, <2>2 DEF Package!OpenIndex, Package!Go
<1>8. ASSUME NEW b \in Builder, Package!FillIndex(b) PROVE PackageInv'
    <2>1. CASE Package!Fails(b, "index_failed", {"index"}) /\ index' \in {index, Package!Torn}
        BY <1>8, <2>1, PackageFails DEF Package!FillIndex, Package!At
    <2>2. CASE /\ index' = builder[b].content /\ builder' = [builder EXCEPT ![b].pc = "idle", ![b].outcome = "published"]
               /\ UNCHANGED <<staging, written, spoiled>>
        <3> USE <1>8, <2>2 DEF Package!FillIndex, Package!At, Package!ConstantsOK, PackageInv, PublicationType, Build, Outcome
        <3>1. PublicationType'
            <4>1. builder[b] \in Build /\ builder[b].content \in Content
                OBVIOUS
            <4>2. [builder[b] EXCEPT !.pc = "idle", !.outcome = "published"] \in Build
                BY <4>1
            <4>3. builder' \in [Builder -> Build]
                BY <4>1, <4>2
            <4>4. \A c \in Builder : builder'[c].pc # "idle" => builder'[c].content \in Content
                BY <4>1
            <4> QED BY <4>1, <4>3, <4>4
        <3>2. ReleaseInv'
            BY DEF ReleaseInv
        <3>3. ASSUME ~overlapped, ~crashed PROVE OneBuildInv'
            BY <3>3 DEF OneBuildInv, StepOK, OutcomeOK, ReleaseInv
        <3> QED BY <3>1, <3>2, <3>3
    <2> QED BY <1>8, <2>1, <2>2 DEF Package!FillIndex, Package!Ends
<1>9. ASSUME NEW b \in Builder, Package!BuilderDies(b) PROVE PackageInv'
    BY <1>9 DEF Package!BuilderDies, Package!Idle, PackageInv, PublicationType, ReleaseInv, Build, Outcome
<1> QED BY <1>1, <1>2, <1>3, <1>4, <1>5, <1>6, <1>7, <1>8, <1>9 DEF Package!PublicationNext

LEMMA PackageCounts == \A S : Package!Cardinality(S) = Cardinality(S)
BY Zenon DEF Package!Cardinality, Cardinality

(* The index never names a release that is not there, nor does a build say *)
(* it published one, wherever builders die and whatever write or removal   *)
(* fails; and while builds do not overlap and none dies, a build never     *)
(* misses the release that is named, a version has one content only until  *)
(* a write of its index fails, every staging directory has its builder     *)
(* until a removal fails, and only after such a failure is an index        *)
(* unreadable or a stage in the way (build_local_package).                 *)
THEOREM PublishedIsReleased ==
    ASSUME Package!ConstantsOK
    PROVE  Package!PublicationInit /\ [][Package!PublicationNext]_(Package!publicationVars) => []Package!PublicationIsWhole
<1>1. ASSUME PackageInv PROVE Package!PublicationIsWhole
    <2>1. ASSUME ~overlapped, ~crashed, "index" \notin spoiled PROVE Package!Cardinality(released) <= 1
        <3>1. released = {} \/ \E c : released = {c}
            <4>1. CASE \E b \in Builder : builder[b].pc \notin {"idle", "index"}
                <5>1. PICK b \in Builder : builder[b].pc \notin {"idle", "index"}
                    BY <4>1
                <5>2. builder[b].pc \in {"stage", "write", "replace", "name", "fill"} /\ StepOK(b)
                    BY <1>1, <2>1, <5>1 DEF PackageInv, PublicationType, OneBuildInv, Build
                <5> QED BY <2>1, <5>2 DEF StepOK
            <4>2. CASE \A b \in Builder : builder[b].pc \in {"idle", "index"}
                BY <1>1, <2>1, <4>2 DEF PackageInv, OneBuildInv
            <4> QED BY <4>1, <4>2
        <3>2. Cardinality(released) = 0 \/ Cardinality(released) = 1
            BY <3>1, FS_EmptySet, FS_Singleton
        <3> QED BY <3>2, PackageCounts
    <2>2. ASSUME ~overlapped, ~crashed, "removal" \notin spoiled
          PROVE  staging \subseteq {builder[b].content : b \in {c \in Builder : Package!Busy(c)}}
        <3>1. ASSUME NEW s \in staging PROVE \E b \in Builder : builder[b].pc # "idle" /\ builder[b].content = s
            <4>1. PICK b \in Builder : builder[b].pc \in {"write", "replace"} /\ builder[b].content = s
                BY <1>1, <2>2 DEF PackageInv, OneBuildInv
            <4> QED BY <4>1
        <3> QED BY <3>1 DEF Package!Busy
    <2>3. ASSUME ~overlapped, ~crashed, NEW b \in Builder PROVE OutcomeOK(b)
        BY <1>1, <2>3 DEF PackageInv, OneBuildInv
    <2>4. /\ index \notin {Package!Absent, Package!Torn} => index \in released
          /\ \A b \in Builder : builder[b].outcome = "published" => builder[b].content \in released
          /\ written \subseteq staging
        BY <1>1 DEF PackageInv, PublicationType, ReleaseInv
    <2> QED BY <2>1, <2>2, <2>3, <2>4 DEF Package!PublicationIsWhole, OutcomeOK
<1> QED BY <1>1, PackageBegins, PackageStep, PTL

(* Of a catalog whose skills have their tools, a skill is available when   *)
(* and only when the policy has all that it needs: for every catalog and   *)
(* every policy (check_availability).                                      *)
THEOREM AvailabilityIsExact ==
    ASSUME NEW catalog, NEW policy, NEW writes, NEW asks, \A skill \in catalog.skills : skill.tools \subseteq catalog.tools,
           policy.readOnly \in BOOLEAN, policy.approval \in BOOLEAN
    PROVE  Package!AvailableIsAllowed(catalog, policy, writes, asks)
<1> SUFFICES ASSUME NEW skill \in catalog.skills
             PROVE  Package!Reasons(catalog, skill, policy, writes, asks) = {} <=>
                        /\ skill \notin policy.disabled /\ skill.tools \subseteq policy.allowed
                        /\ policy.readOnly => skill.tools \cap writes = {}
                        /\ ~policy.approval => skill.tools \cap asks = {}
    BY DEF Package!AvailableIsAllowed
<1> DEFINE reason(tool) ==
              CASE tool \notin catalog.tools -> "missing_tool_dependency"
                [] tool \in catalog.tools /\ tool \notin policy.allowed -> "tool_not_allowed"
                [] tool \in catalog.tools \cap policy.allowed /\ policy.readOnly /\ tool \in writes -> "read_only_required"
                [] tool \in catalog.tools \cap policy.allowed /\ ~(policy.readOnly /\ tool \in writes) ->
                      Package!Unless(policy.approval \/ tool \notin asks, "approval_not_allowed")
           reasons == ({reason(tool) : tool \in skill.tools}
                          \cup (IF skill \in policy.disabled THEN {"skill_disabled"} ELSE {})) \ {Package!NoProblem}
<1>1. Package!Reasons(catalog, skill, policy, writes, asks) = reasons
    BY DEF Package!Reasons
<1>2. ASSUME NEW tool \in skill.tools
      PROVE  reason(tool) = Package!NoProblem <=>
                /\ tool \in policy.allowed /\ (policy.readOnly => tool \notin writes)
                /\ ~policy.approval => tool \notin asks
    BY DEF Package!Unless, Package!NoProblem
<1> HIDE DEF reason
<1>3. reasons = {} <=> skill \notin policy.disabled /\ \A tool \in skill.tools : reason(tool) = Package!NoProblem
  <2>1. "skill_disabled" # Package!NoProblem
    BY DEF Package!NoProblem
  <2>2. skill \in policy.disabled => "skill_disabled" \in reasons
    BY Zenon, <2>1
  <2>3. \A tool \in skill.tools : reason(tool) # Package!NoProblem => reason(tool) \in reasons
    BY Zenon
  <2>4. \A r \in reasons : skill \in policy.disabled \/ \E tool \in skill.tools : reason(tool) = r /\ r # Package!NoProblem
    BY Zenon
  <2> HIDE DEF reasons
  <2> QED BY Zenon, <2>2, <2>3, <2>4
<1> HIDE DEF reasons
<1> QED BY <1>1, <1>2, <1>3

(* What passes the check of the schema that is inferred from a handler is  *)
(* what the handler can be called with, but for a None: for every handler  *)
(* and everything it may be given (infer_schema, validate_arguments).      *)
THEOREM CheckedArgumentsAreCallable ==
    ASSUME NEW parameters, NEW given,
           \A name \in DOMAIN parameters : parameters[name].optional \in BOOLEAN /\ parameters[name].default \in BOOLEAN,
           \A name \in DOMAIN given : given[name] \in Package!SchemaType \cup {"null"}
    PROVE  Package!ArgumentsAreChecked(parameters, given)
<1> SUFFICES ASSUME Package!HasSchema(parameters)
             PROVE  LET accepted == Package!ValidateArguments(Package!InferArgumentSchema(parameters), given) = {}
                        none == \E name \in DOMAIN given \cap DOMAIN parameters : given[name] = "null" /\ parameters[name].type # "any"
                    IN accepted <=> Package!Callable(parameters, given) /\ ~none
    BY DEF Package!ArgumentsAreChecked
<1> DEFINE schema == Package!InferArgumentSchema(parameters)
           missing == schema.required \ DOMAIN given
           unexpected == DOMAIN given \ DOMAIN schema.properties
           wrong == {n \in DOMAIN given \cap DOMAIN schema.properties :
                        schema.properties[n] # "any" /\ ~Package!MatchesType(given[n], schema.properties[n])}
<1>0. Package!ValidateArguments(schema, given) =
          {<<"missing", name>> : name \in missing} \cup {<<"unexpected", name>> : name \in unexpected}
          \cup {<<"type", name>> : name \in wrong}
    BY Zenon DEF Package!ValidateArguments
<1>1. Package!ValidateArguments(schema, given) = {} <=> missing = {} /\ unexpected = {} /\ wrong = {}
    <2> HIDE DEF schema, missing, unexpected, wrong
    <2> DEFINE M == {<<"missing", name>> : name \in missing}
               U == {<<"unexpected", name>> : name \in unexpected}
               W == {<<"type", name>> : name \in wrong}
    <2>1. (M = {} <=> missing = {}) /\ (U = {} <=> unexpected = {}) /\ (W = {} <=> wrong = {})
        OBVIOUS
    <2>2. Package!ValidateArguments(schema, given) = M \cup U \cup W
        BY <1>0
    <2> HIDE DEF M, U, W
    <2> QED BY <2>1, <2>2
<1>2. /\ DOMAIN schema.properties = DOMAIN parameters
      /\ schema.required = {name \in DOMAIN parameters : ~parameters[name].default}
      /\ \A name \in DOMAIN parameters : schema.properties[name] = parameters[name].type
    BY DEF Package!InferArgumentSchema
<1>3. missing = {} <=> \A name \in DOMAIN parameters : name \in DOMAIN given \/ parameters[name].default
    BY <1>2
<1>4. unexpected = {} <=> DOMAIN given \subseteq DOMAIN parameters
    BY <1>2
<1>5. wrong = {} <=> \A name \in DOMAIN given \cap DOMAIN parameters :
                        LET type == parameters[name].type
                        IN  type \in {"any", given[name]} \/ (type = "number" /\ given[name] = "integer")
    BY <1>2 DEF Package!MatchesType
<1> HIDE DEF schema, missing, unexpected, wrong
<1>6. \A name \in DOMAIN parameters : parameters[name].type \in Package!SchemaType \cup {"any"}
    BY DEF Package!HasSchema
<1> QED BY <1>1, <1>3, <1>4, <1>5, <1>6 DEF Package!Callable, Package!SchemaType, schema
-----------------------------------------------------------------------------
(* The skills a run has loaded (SkillRuntime).                             *)
CONSTANTS Skills, Size, MaxBytes, Budget, TotalBudget, AllowedTools, BaseTools, MaxOps
VARIABLES active, disclosed, selected, revision, store, checkpoint, cache, disk, followup, ops
Skilled == INSTANCE SkillRuntime WITH saved <- store

(* A state of the skills that a run may be in.                             *)
Held(s) ==
    /\ s = [active |-> s.active, disclosed |-> s.disclosed, selected |-> s.selected, revision |-> s.revision]
    /\ s.active \in Seq(Skilled!Skill) /\ IsFiniteSet(s.disclosed)
    /\ \A j, k \in 1..Len(s.active) : s.active[j] = s.active[k] => j = k
    /\ \A pair \in s.disclosed : Skilled!Contains(s.active, pair[1]) /\ pair[2] \in Skills[pair[1]].refs
    /\ s.revision = Len(s.active) + Cardinality(s.disclosed)
    /\ \A k \in 1..Len(s.active) : Skills[s.active[k]].required \subseteq AllowedTools
First(s) == s.selected = (IF s.active = <<>> THEN Skilled!Absent ELSE s.active[1])

SkillInv ==
    /\ Held(Skilled!Current) /\ Held(checkpoint) /\ Held(store) /\ First(Skilled!Current) /\ First(checkpoint)
    /\ store # Skilled!Nothing => store.active = active /\ store.disclosed = disclosed /\ store.revision = revision

LEMMA SkillCounts == \A S : Skilled!Cardinality(S) = Cardinality(S)
BY Zenon DEF Skilled!Cardinality, Cardinality

LEMMA NothingIsHeld == Held(Skilled!Nothing) /\ First(Skilled!Nothing)
<1>1. Skilled!Nothing.active = <<>> /\ Skilled!Nothing.disclosed = {} /\ Skilled!Nothing.selected = Skilled!Absent /\ Skilled!Nothing.revision = 0
    BY DEF Skilled!Nothing
<1>2. Len(<<>>) = 0 /\ <<>> \in Seq(Skilled!Skill)
    OBVIOUS
<1> QED BY <1>1, <1>2, FS_EmptySet DEF Skilled!Nothing, Held, First

(* The state a skill was loaded in, and the one a reference was read in.   *)
LEMMA LoadedIsHeld ==
    ASSUME NEW s, Held(s), NEW skill \in Skilled!Skill, Skills[skill].required \subseteq AllowedTools,
           ~Skilled!Contains(s.active, skill), NEW choice
    PROVE  Held([active |-> Append(s.active, skill), disclosed |-> s.disclosed, selected |-> choice, revision |-> s.revision + 1])
<1> DEFINE n == Len(s.active)
           list == Append(s.active, skill)
           t == [active |-> list, disclosed |-> s.disclosed, selected |-> choice, revision |-> s.revision + 1]
<1>1. /\ s.active \in Seq(Skilled!Skill) /\ n \in Nat
      /\ list \in Seq(Skilled!Skill) /\ Len(list) = n + 1 /\ list[n + 1] = skill /\ \A k \in 1..n : list[k] = s.active[k]
    BY DEF Held
<1>2. t.active = list /\ t.disclosed = s.disclosed /\ t.selected = choice /\ t.revision = s.revision + 1
    OBVIOUS
<1>3. \A k \in 1..n : s.active[k] # skill
    BY DEF Skilled!Contains
<1>4. \A k \in 1..(n + 1) : k \in 1..n \/ k = n + 1
    BY <1>1
<1>5. \A pair \in s.disclosed : Skilled!Contains(list, pair[1]) /\ pair[2] \in Skills[pair[1]].refs
    <2>1. \A x : Skilled!Contains(s.active, x) => Skilled!Contains(list, x)
        BY <1>1 DEF Skilled!Contains
    <2> QED BY <2>1 DEF Held
<1>6. \A j, k \in 1..Len(list) : list[j] = list[k] => j = k
    <2> HIDE DEF list, n
    <2> QED BY <1>1, <1>3, <1>4 DEF Held, n
<1>7. \A k \in 1..Len(list) : Skills[list[k]].required \subseteq AllowedTools
    <2> HIDE DEF list, n
    <2> QED BY <1>1, <1>4 DEF Held, n
<1>8. s.revision + 1 = Len(list) + Cardinality(s.disclosed) /\ IsFiniteSet(s.disclosed)
    <2>1. Cardinality(s.disclosed) \in Nat /\ IsFiniteSet(s.disclosed)
        BY FS_CardinalityType DEF Held
    <2> QED BY <1>1, <2>1 DEF Held
<1>9. t = [active |-> t.active, disclosed |-> t.disclosed, selected |-> t.selected, revision |-> t.revision]
    BY <1>2
<1> HIDE DEF list, t
<1>10. Held(t)
    BY <1>1, <1>2, <1>5, <1>6, <1>7, <1>8, <1>9 DEF Held
<1> QED BY <1>10 DEF t, list

LEMMA ReadIsHeld ==
    ASSUME NEW s, Held(s), NEW skill, Skilled!Contains(s.active, skill), NEW r \in Skills[skill].refs, <<skill, r>> \notin s.disclosed
    PROVE  Held([active |-> s.active, disclosed |-> s.disclosed \cup {<<skill, r>>}, selected |-> s.selected, revision |-> s.revision + 1])
<1> DEFINE pairs == s.disclosed \cup {<<skill, r>>}
           t == [active |-> s.active, disclosed |-> pairs, selected |-> s.selected, revision |-> s.revision + 1]
<1>1. t.active = s.active /\ t.disclosed = pairs /\ t.selected = s.selected /\ t.revision = s.revision + 1
    OBVIOUS
<1>2. IsFiniteSet(pairs) /\ Cardinality(pairs) = Cardinality(s.disclosed) + 1 /\ Cardinality(s.disclosed) \in Nat
    BY FS_AddElement, FS_CardinalityType DEF Held
<1>3. s.revision + 1 = Len(s.active) + Cardinality(pairs)
    <2>1. Len(s.active) \in Nat
        BY DEF Held
    <2> QED BY <1>2, <2>1 DEF Held
<1>4. \A pair \in pairs : Skilled!Contains(s.active, pair[1]) /\ pair[2] \in Skills[pair[1]].refs
    BY DEF Held
<1>5. t = [active |-> t.active, disclosed |-> t.disclosed, selected |-> t.selected, revision |-> t.revision]
    BY <1>1
<1> HIDE DEF pairs, t
<1>6. Held(t)
    BY <1>1, <1>2, <1>3, <1>4, <1>5 DEF Held
<1> QED BY <1>6 DEF t, pairs

(* A step that leaves the skills of the run alone.                         *)
LEMMA SkillsAreKept ==
    ASSUME SkillInv, UNCHANGED <<active, disclosed, selected, revision, store>>,
           checkpoint' = checkpoint \/ checkpoint' = Skilled!Current
    PROVE  SkillInv'
<1>1. Skilled!Current' = Skilled!Current
    BY DEF Skilled!Current
<1> QED BY <1>1 DEF SkillInv, Held, First

LEMMA LoadStep ==
    ASSUME Skilled!ConstantsOK, SkillInv, NEW skill \in Skilled!Skill, Skilled!Load(skill)
    PROVE  SkillInv'
<1>1. checkpoint' = checkpoint
    BY DEF Skilled!Load
<1>2. CASE Skilled!Kept
    BY <1>1, <1>2, SkillsAreKept DEF Skilled!Kept
<1>3. CASE ~Skilled!Kept
    <2> DEFINE next == Append(active, skill)
    <2>1. /\ Skills[skill].required \subseteq AllowedTools /\ ~Skilled!Contains(active, skill)
          /\ store' = [active |-> next, disclosed |-> disclosed, selected |-> skill, revision |-> revision + 1]
          /\ active' = next /\ revision' = revision + 1 /\ disclosed' = disclosed
          /\ selected' = IF selected = Skilled!Absent THEN skill ELSE selected
        BY <1>3, Zenon DEF Skilled!Load
    <2>2. /\ Skilled!Current.active = active /\ Skilled!Current.disclosed = disclosed
          /\ Skilled!Current.selected = selected /\ Skilled!Current.revision = revision
        BY DEF Skilled!Current
    <2>3. Held(store')
        BY <2>1, <2>2, LoadedIsHeld DEF SkillInv
    <2>4. Skilled!Current' = [active |-> next, disclosed |-> disclosed, selected |-> selected', revision |-> revision + 1]
        BY <2>1 DEF Skilled!Current
    <2>5. Held(Skilled!Current')
        BY <2>1, <2>2, <2>4, LoadedIsHeld DEF SkillInv
    <2>6. First(Skilled!Current')
        <3>1. active \in Seq(Skilled!Skill) /\ selected = IF active = <<>> THEN Skilled!Absent ELSE active[1]
            BY <2>2 DEF SkillInv, Held, First
        <3>2. next # <<>> /\ next[1] = IF active = <<>> THEN skill ELSE active[1]
            <4>1. Len(active) \in Nat /\ (active = <<>> <=> Len(active) = 0)
                BY <3>1
            <4>2. Len(next) = Len(active) + 1 /\ next[Len(active) + 1] = skill /\ \A k \in 1..Len(active) : next[k] = active[k]
                BY <3>1
            <4>3. next # <<>>
                BY <4>1, <4>2
            <4> HIDE DEF next
            <4>4. CASE active = <<>>
                BY <4>1, <4>2, <4>3, <4>4
            <4>5. CASE active # <<>>
                BY <4>1, <4>2, <4>3, <4>5
            <4> QED BY <4>4, <4>5
        <3>3. selected' = next[1]
            <4>1. CASE active = <<>>
                BY <2>1, <3>1, <3>2, <4>1
            <4>2. CASE active # <<>>
                <5>1. active[1] \in Skilled!Skill
                    BY <3>1, <4>2
                <5> QED BY <2>1, <3>1, <3>2, <4>2, <5>1 DEF Skilled!ConstantsOK
            <4> QED BY <4>1, <4>2
        <3> HIDE DEF next
        <3> QED BY <2>4, <3>2, <3>3 DEF First
    <2>7. store'.active = active' /\ store'.disclosed = disclosed' /\ store'.revision = revision'
        BY <2>1
    <2> HIDE DEF next
    <2> QED BY <1>1, <2>3, <2>5, <2>6, <2>7 DEF SkillInv
<1> QED BY <1>2, <1>3

LEMMA ReferenceStep ==
    ASSUME SkillInv, NEW skill \in Skilled!Skill, NEW r \in Skilled!Resource, Skilled!ReadReference(skill, r)
    PROVE  SkillInv'
<1>1. checkpoint' = checkpoint
    BY DEF Skilled!ReadReference
<1>2. CASE Skilled!Kept
    BY <1>1, <1>2, SkillsAreKept DEF Skilled!Kept
<1>3. CASE ~Skilled!Kept
    <2>1. /\ Skilled!Contains(active, skill) /\ r \in Skills[skill].refs /\ <<skill, r>> \notin disclosed
          /\ disclosed' = disclosed \cup {<<skill, r>>} /\ revision' = revision + 1 /\ UNCHANGED <<active, selected>>
          /\ store' = [Skilled!Current EXCEPT !.disclosed = @ \cup {<<skill, r>>}, !.revision = @ + 1]
        BY <1>3, Zenon DEF Skilled!ReadReference
    <2>2. /\ Skilled!Current.active = active /\ Skilled!Current.disclosed = disclosed
          /\ Skilled!Current.selected = selected /\ Skilled!Current.revision = revision
        BY DEF Skilled!Current
    <2>3. Skilled!Current' = [active |-> active, disclosed |-> disclosed \cup {<<skill, r>>}, selected |-> selected,
                              revision |-> revision + 1]
        BY <2>1 DEF Skilled!Current
    <2>4. store' = Skilled!Current'
        BY <2>1, <2>3 DEF Skilled!Current
    <2>5. Held(Skilled!Current')
        BY <2>1, <2>2, <2>3, ReadIsHeld DEF SkillInv
    <2>6. First(Skilled!Current')
        BY <2>2, <2>3 DEF SkillInv, First
    <2>7. store'.active = active' /\ store'.disclosed = disclosed' /\ store'.revision = revision'
        <3>1. active' = active /\ disclosed' = disclosed \cup {<<skill, r>>} /\ revision' = revision + 1
            BY <2>1
        <3> QED BY <2>3, <2>4, <3>1
    <2> QED BY <1>1, <2>4, <2>5, <2>6, <2>7 DEF SkillInv
<1> QED BY <1>2, <1>3

LEMMA ResumeStep ==
    ASSUME SkillInv, Skilled!Resume
    PROVE  SkillInv'
<1> DEFINE from == IF Skilled!ReadAll.ok THEN checkpoint ELSE Skilled!Nothing
<1>1. /\ active' = from.active /\ disclosed' = from.disclosed /\ selected' = from.selected /\ revision' = from.revision
      /\ store' = Skilled!Nothing /\ checkpoint' = checkpoint
    BY DEF Skilled!Resume
<1>2. Held(from) /\ First(from)
    BY NothingIsHeld DEF SkillInv
<1> HIDE DEF from
<1>3. Skilled!Current' = from
    BY <1>1, <1>2 DEF Skilled!Current, Held
<1> QED BY <1>1, <1>2, <1>3, NothingIsHeld DEF SkillInv

LEMMA SkillsStart == ASSUME Skilled!SkillInit PROVE SkillInv
<1>1. Skilled!Current = Skilled!Nothing /\ store = Skilled!Nothing /\ checkpoint = Skilled!Nothing
    BY DEF Skilled!SkillInit, Skilled!Current, Skilled!Nothing
<1> QED BY <1>1, NothingIsHeld DEF SkillInv

LEMMA SkillStep ==
    ASSUME Skilled!ConstantsOK, SkillInv, [Skilled!SkillNext]_(Skilled!skillVars)
    PROVE  SkillInv'
<1>1. ASSUME NEW succeeded, Skilled!TurnEnds(succeeded) PROVE SkillInv'
    BY <1>1, SkillsAreKept DEF Skilled!TurnEnds
<1>2. ASSUME NEW r, Skilled!Touch(r) PROVE SkillInv'
    BY <1>2, SkillsAreKept DEF Skilled!Touch
<1>3. CASE UNCHANGED Skilled!skillVars
    BY <1>3, SkillsAreKept DEF Skilled!skillVars
<1> QED BY <1>1, <1>2, <1>3, LoadStep, ReferenceStep, ResumeStep DEF Skilled!SkillNext

(* However often a run loads skills, reads references, fails to save,      *)
(* finds files changed and is resumed: what is saved is never behind what  *)
(* can be seen, a checkpoint is a state the run was in, the tools that are *)
(* visible are allowed, and all that the active skills require is visible  *)
(* (SkillRuntime.load, read_reference, restore, visible_tool_names).       *)
THEOREM SkillsStayAllowed ==
    ASSUME Skilled!ConstantsOK
    PROVE  Skilled!SkillInit /\ [][Skilled!SkillNext]_(Skilled!skillVars) => []Skilled!SkillsHold
<1>1. ASSUME NEW s, Held(s) PROVE Skilled!Sound(s)
    <2>1. DOMAIN s.active = 1..Len(s.active)
        BY <1>1 DEF Held
    <2>2. Skilled!IsInjective(s.active)
        BY <1>1, <2>1 DEF Held, Skilled!IsInjective
    <2> QED BY <1>1, <2>2, SkillCounts DEF Held, Skilled!Sound
<1>2. ASSUME SkillInv PROVE Skilled!SkillsHold
    <2>1. active \in Seq(Skilled!Skill) /\ \A k \in DOMAIN active : Skills[active[k]].required \subseteq AllowedTools
        <3>1. Skilled!Current.active = active
            BY DEF Skilled!Current
        <3> QED BY <1>2, <3>1 DEF SkillInv, Held
    <2>2. Skilled!Current.selected = IF active = <<>> THEN Skilled!Absent ELSE Head(active)
        <3>1. Skilled!Current.active = active
            BY DEF Skilled!Current
        <3>2. active # <<>> => Head(active) = active[1]
            BY <2>1
        <3> QED BY <1>2, <3>1, <3>2 DEF SkillInv, First
    <2>3. Skilled!Visible \subseteq AllowedTools \cup Skilled!Controls
        BY DEF Skilled!Visible, Skilled!Controls
    <2>4. \A k \in DOMAIN active : Skills[active[k]].required \subseteq Skilled!Visible
        <3>1. ASSUME NEW k \in DOMAIN active PROVE Skills[active[k]].required \subseteq Skilled!Visible
            BY <2>1 DEF Skilled!Visible
        <3> QED BY <3>1
    <2> QED BY <1>1, <1>2, <2>2, <2>3, <2>4 DEF SkillInv, Skilled!SkillsHold
<1> QED BY <1>2, SkillsStart, SkillStep, PTL
-----------------------------------------------------------------------------
(* The source a session has read and the turns it remembers (SourcePins).  *)
CONSTANTS Source, PinCandidates, Sticky, MaxPins, MaxSlices, MaxFragments, RecentLimit, TurnLimit, ResumeLimit
VARIABLES pins, reads, made, recent, folded, sticky, kept, step, repeated, turns, resumed, shown, asked, verdict
Pins == INSTANCE SourcePins WITH
    Candidates <- PinCandidates, MaxTurns <- TurnLimit, MaxResumes <- ResumeLimit,
    done <- made, saved <- kept, resumes <- resumed, outcome <- verdict

(* Until the session is resumed the numbers of the turns tell: those       *)
(* remembered one by one end with the latest that ended.                   *)
TurnsInv ==
    /\ recent \in Seq(Nat) /\ Len(recent) <= RecentLimit
    /\ kept.recent \in Seq(Nat) /\ Len(kept.recent) <= RecentLimit
    /\ folded \in Nat /\ turns \in Nat /\ resumed \in Nat /\ kept.folded \in Nat
    /\ step \in {"pack", "act", "stopped", "over"}
    /\ resumed = 0 =>
          /\ \A k \in 1..(Len(recent) - 1) : recent[k + 1] = recent[k] + 1
          /\ step = "pack" => Len(recent) + folded = turns /\ (recent # <<>> => recent[Len(recent)] = turns)
          /\ step = "act" => Len(recent) + folded = turns - 1 /\ (recent # <<>> => recent[Len(recent)] = turns - 1)

(* A turn that ends is remembered, and the oldest is folded if need be.    *)
LEMMA TurnIsRemembered ==
    ASSUME RecentLimit \in Nat, TurnsInv, step = "act", NEW list, Pins!Remember(list), step' = "pack",
           UNCHANGED <<turns, resumed>>
    PROVE  TurnsInv'
<1> DEFINE all == Append(recent, turns)
           n == Len(recent)
<1>1. recent \in Seq(Nat) /\ turns \in Nat /\ n \in Nat /\ n <= RecentLimit /\ folded \in Nat
    BY DEF TurnsInv
<1>2. /\ all \in Seq(Nat) /\ Len(all) = n + 1 /\ all[n + 1] = turns /\ \A k \in 1..n : all[k] = recent[k]
    BY <1>1
<1>3. /\ recent' = IF n + 1 > RecentLimit THEN Tail(all) ELSE all
      /\ folded' = IF n + 1 > RecentLimit THEN folded + 1 ELSE folded
      /\ kept'.recent = recent' /\ kept'.folded = folded'
    BY <1>2 DEF Pins!Remember
<1>4. ASSUME resumed = 0, NEW k \in 1..n PROVE all[k + 1] = all[k] + 1
    <2>1. /\ \A i \in 1..(n - 1) : recent[i + 1] = recent[i] + 1
          /\ recent # <<>> => recent[n] = turns - 1
        BY <1>4 DEF TurnsInv
    <2>2. CASE k = n
        BY <1>1, <1>2, <2>1, <2>2
    <2>3. CASE k # n
        <3>1. k \in 1..(n - 1) /\ k + 1 \in 1..n
            BY <1>1, <2>3
        <3> QED BY <1>2, <2>1, <3>1
    <2> QED BY <2>2, <2>3
<1>5. resumed = 0 => n + folded = turns - 1
    BY DEF TurnsInv
<1> DEFINE Accounted(some, more) ==
                  /\ some \in Seq(Nat) /\ Len(some) <= RecentLimit /\ more \in Nat
                  /\ resumed = 0 => /\ \A k \in 1..(Len(some) - 1) : some[k + 1] = some[k] + 1
                                    /\ Len(some) + more = turns /\ (some # <<>> => some[Len(some)] = turns)
<1> HIDE DEF all
<1>6. ASSUME n + 1 > RecentLimit PROVE Accounted(recent', folded')
    <2>1. /\ Tail(all) \in Seq(Nat) /\ Len(Tail(all)) = n /\ \A k \in 1..n : Tail(all)[k] = all[k + 1]
        BY <1>1, <1>2
    <2>2. recent' = Tail(all) /\ folded' = folded + 1
        BY <1>3, <1>6
    <2>3. resumed = 0 => \A k \in 1..(n - 1) : Tail(all)[k + 1] = Tail(all)[k] + 1
        <3>1. \A k \in 1..(n - 1) : k \in 1..n /\ k + 1 \in 1..n
            BY <1>1
        <3> QED BY <1>4, <2>1, <3>1
    <2>4. Tail(all) # <<>> => Tail(all)[n] = turns
        <3>1. Tail(all) # <<>> => n \in 1..n
            BY <1>1, <2>1
        <3> QED BY <1>2, <2>1, <3>1
    <2> DEFINE rest == Tail(all)
    <2>5. rest \in Seq(Nat) /\ Len(rest) = n
        BY <2>1
    <2>6. resumed = 0 => n + (folded + 1) = turns
        BY <1>1, <1>5
    <2> HIDE DEF rest
    <2>7. /\ resumed = 0 => \A k \in 1..(n - 1) : rest[k + 1] = rest[k] + 1
          /\ rest # <<>> => rest[n] = turns
        BY <2>3, <2>4 DEF rest
    <2>8. Accounted(rest, folded + 1)
        BY <1>1, <2>5, <2>6, <2>7
    <2> QED BY <2>2, <2>8 DEF rest
<1>7. ASSUME n + 1 <= RecentLimit PROVE Accounted(recent', folded')
    <2>1. recent' = all /\ folded' = folded
        BY <1>1, <1>3, <1>7
    <2>2. Accounted(all, folded)
        <3>1. (n + 1) - 1 = n
            BY <1>1
        <3> QED BY <1>1, <1>2, <1>4, <1>5, <1>7, <3>1
    <2> QED BY <2>1, <2>2
<1> HIDE DEF Accounted
<1>8. Accounted(recent', folded')
    BY <1>1, <1>6, <1>7
<1> QED BY <1>1, <1>3, <1>8 DEF TurnsInv, Accounted

(* Whatever is called, read or left out, however often the session is cut  *)
(* off and resumed, a checkpoint accounts for every turn                   *)
(* (WorkingSet.append_turn; loop.py saves and loads the snapshot).         *)
THEOREM TurnsStayAccounted ==
    ASSUME RecentLimit \in Nat
    PROVE  Pins!PinInit /\ [][Pins!PinNext]_(Pins!pinVars) => []Pins!TurnsAreAccounted
<1>1. Pins!PinInit => TurnsInv
    BY DEF Pins!PinInit, Pins!NoCheckpoint, TurnsInv
<1>2. ASSUME TurnsInv, step = "act", NEW sources, NEW ran \in BOOLEAN, Pins!TurnEnds(sources, ran)
      PROVE  TurnsInv'
    <2>1. CASE ~ran /\ repeated = 1
        BY <1>2, <2>1 DEF TurnsInv, Pins!TurnEnds
    <2>2. CASE ~(~ran /\ repeated = 1)
        <3>1. Pins!Remember(sources) /\ step' = "pack" /\ UNCHANGED <<turns, resumed>>
            BY <1>2, <2>2 DEF Pins!TurnEnds
        <3> QED BY <1>2, <3>1, TurnIsRemembered
    <2> QED BY <2>1, <2>2
<1>3. ASSUME TurnsInv, Pins!PinNext
      PROVE  TurnsInv'
    <2>1. CASE Pins!PackRequest
        BY <1>3, <2>1 DEF TurnsInv, Pins!PackRequest
    <2>2. CASE Pins!MaxTurnsReached \/ Pins!Answer \/ Pins!Interrupted
        BY <1>3, <2>2 DEF TurnsInv, Pins!MaxTurnsReached, Pins!Answer, Pins!Interrupted
    <2>3. CASE Pins!Resume
        BY <1>3, <2>3 DEF TurnsInv, Pins!Resume
    <2>4. CASE Pins!CallOther
        BY <1>2, <1>3, <2>4 DEF Pins!CallOther
    <2>5. ASSUME NEW key, NEW list, step = "act", Pins!Runs(key, list) PROVE TurnsInv'
        BY <1>2, <1>3, <2>5 DEF Pins!Runs
    <2>6. ASSUME NEW key, NEW list, NEW counts, step = "act", Pins!NotMade(key, list, counts) PROVE TurnsInv'
        BY <1>2, <1>3, <2>6 DEF Pins!NotMade
    <2>7. ASSUME NEW s \in Source, Pins!ReadSource(s) PROVE TurnsInv'
        BY <2>5, <2>6, <2>7 DEF Pins!ReadSource
    <2>8. ASSUME NEW list \in PinCandidates, Pins!ReadEvidence(list) PROVE TurnsInv'
        BY <2>5, <2>6, <2>8 DEF Pins!ReadEvidence
    <2> QED BY <1>3, <2>1, <2>2, <2>3, <2>4, <2>7, <2>8 DEF Pins!PinNext
<1>4. ASSUME TurnsInv, UNCHANGED Pins!pinVars
      PROVE  TurnsInv'
    BY <1>4 DEF TurnsInv, Pins!pinVars
<1>5. TurnsInv => Pins!TurnsAreAccounted
    BY DEF TurnsInv, Pins!TurnsAreAccounted
<1> QED BY <1>1, <1>3, <1>4, <1>5, PTL
=============================================================================
