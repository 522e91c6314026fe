------------------------ MODULE EmbeddingProjection ------------------------
(***************************************************************************)
(* The vector channel of one published code projection: EmbeddingQueue     *)
(* (leased tasks and the projection run), EmbeddingWorker (embed, cache,   *)
(* write, reconcile) and the vector index, in which a point may be lost.   *)
(*                                                                         *)
(* Every transaction of the queue is one step; the calls to the embedder   *)
(* and to the index lie between transactions, and before any of them a     *)
(* lease may lapse, another worker may claim, the projection may be        *)
(* superseded or the worker's process may end.                             *)
(***************************************************************************)
EXTENDS Naturals, FiniteSetsExt

CONSTANTS Worker,      \* processes that run an EmbeddingWorker
          Task,        \* the tasks of the run, in the order of their ids
          MaxAttempts, \* max_attempts of each task
          None

ASSUME ProjectionAssumption ==
    /\ Task # {} /\ Task \subseteq Nat
    /\ MaxAttempts \in 1..3
    /\ None \notin Task \cup 0..MaxAttempts

VARIABLES
    active, \* the run's projection is the active one of its scope
    status, \* code_embedding_projection_runs.status
    task,   \* code_embedding_tasks: a claim's token is its attempt number, a
            \* vector is named by the attempt that embedded it, and due tells
            \* of a task in retry_wait whether its next_attempt_at has come
    point,  \* the index: the vector it holds for each task, or None
    lost,   \* history: points the index once held and lost
    worker  \* what each worker is doing

vars == <<active, status, task, point, lost, worker>>

Idle == [pc |-> "idle", task |-> None, attempt |-> 0, vector |-> 0,
         fault |-> "none", missing |-> {}]

(* enqueue(): one pending task per document of the active projection.      *)
Init ==
    /\ active = TRUE /\ status = "building"
    /\ task = [t \in Task |-> [status |-> "pending", attempt |-> 0, vector |-> 0,
                               lapsed |-> FALSE, due |-> TRUE]]
    /\ point = [t \in Task |-> None] /\ lost = {}
    /\ worker = [w \in Worker |-> Idle]

TypeOK ==
    /\ active \in BOOLEAN /\ lost \subseteq Task
    /\ status \in {"building", "degraded", "blocked", "ready"}
    /\ task \in [Task -> [status : {"pending", "running", "retry_wait", "failed", "blocked", "ready"},
                          attempt : 0..MaxAttempts, vector : 0..MaxAttempts,
                          lapsed : BOOLEAN, due : BOOLEAN]]
    /\ \A t \in Task : /\ task[t].lapsed => task[t].status = "running"
                       /\ ~task[t].due => task[t].status = "retry_wait"
    /\ point \in [Task -> 1..MaxAttempts \cup {None}]
    /\ worker \in [Worker -> [pc : {"idle", "inactive", "claimed", "embedding", "embedded", "cached",
                                    "written", "failing", "reconcile", "inspect", "publish", "erring"},
                              task : Task \cup {None}, attempt : 0..MaxAttempts,
                              vector : 0..MaxAttempts,
                              fault : {"none", "transient", "blocking"}, missing : SUBSET Task]]

-----------------------------------------------------------------------------
(* The queue.                                                              *)

HasStatus(s) == {t \in Task : task[t].status = s}

(* Mutant: any worker that runs the task may act on it.                   *)
OwnsAnyToken(w) ==
    LET row == task[worker[w].task] IN row.status = "running" /\ ~row.lapsed

(* _owned: the row is running, under this claim's token, and the lease has *)
(* not run out.                                                            *)
Owns(w) ==
    LET row == task[worker[w].task]
    IN row.status = "running" /\ row.attempt = worker[w].attempt /\ ~row.lapsed

(* Mutant: the budget is not looked at.                                    *)
AgainAlways(t, waiting) == waiting

(* A task goes back to the queue while it has attempts left.               *)
Again(t, waiting) == IF task[t].attempt < MaxAttempts THEN waiting ELSE "failed"

(* Mutants: lapsed leases are left alone; or taken back without clearing.   *)
NotSwept == task
SweptHalf ==
    [t \in Task |-> IF task[t].lapsed THEN [task[t] EXCEPT !.status = Again(t, "pending")] ELSE task[t]]

(* claim's sweep: a running task whose lease ran out is taken back.        *)
Swept ==
    [t \in Task |->
        IF task[t].lapsed THEN [task[t] EXCEPT !.status = Again(t, "pending"), !.lapsed = FALSE]
                          ELSE task[t]]

Claimable(rows) ==
    {t \in Task : /\ rows[t].status \in {"pending", "retry_wait"}
                  /\ rows[t].due /\ rows[t].attempt < MaxAttempts}

Moves(w, pc) == worker' = [worker EXCEPT ![w].pc = pc]
Stops(w) == worker' = [worker EXCEPT ![w] = Idle]
Fails(w, fault) == worker' = [worker EXCEPT ![w].pc = "failing", ![w].fault = fault]

(* tick() and claim(): a blocked run is left alone, a ready one is only    *)
(* reconciled, and one whose projection is no longer active is about to be *)
(* blocked.  Otherwise the first claimable task becomes this worker's.     *)
Claim(w) ==
    /\ worker[w].pc = "idle" /\ status # "blocked"
    /\ \/ status = "ready" /\ Moves(w, "reconcile") /\ UNCHANGED <<status, task>>
       \/ status # "ready" /\ ~active /\ Moves(w, "inactive") /\ UNCHANGED <<status, task>>
       \/ /\ status # "ready" /\ active
          /\ status' = IF \E t \in Task : Swept[t].status = "failed" THEN "degraded" ELSE status
          /\ IF Claimable(Swept) = {}
             THEN task' = Swept /\ Moves(w, "reconcile")
             ELSE LET t == Min(Claimable(Swept))
                      row == [Swept[t] EXCEPT !.status = "running", !.attempt = @ + 1, !.lapsed = FALSE]
                  IN /\ task' = [Swept EXCEPT ![t] = row]
                     /\ worker' = [worker EXCEPT ![w] =
                            [Idle EXCEPT !.pc = "claimed", !.task = t, !.attempt = row.attempt,
                                         !.vector = row.vector]]
    /\ UNCHANGED <<active, point, lost>>

(* The run of a superseded projection is blocked, whatever it has become   *)
(* since the claim was refused.                                            *)
BlockInactive(w) ==
    /\ worker[w].pc = "inactive"
    /\ status' = "blocked" /\ Stops(w)
    /\ UNCHANGED <<active, task, point, lost>>

(* document(): the lease must hold and the projection must be active.      *)
Document(w) ==
    /\ worker[w].pc = "claimed"
    /\ IF ~Owns(w) THEN Stops(w)
       ELSE IF active THEN Moves(w, "embedding") ELSE Fails(w, "blocking")
    /\ UNCHANGED <<active, status, task, point, lost>>

(* A cached vector is used as it is; otherwise the embedder is called.     *)
Embed(w) ==
    /\ worker[w].pc = "embedding"
    /\ \/ worker[w].vector # 0 /\ Moves(w, "embedded")
       \/ /\ worker[w].vector = 0
          /\ worker' = [worker EXCEPT ![w].pc = "embedded", ![w].vector = worker[w].attempt]
       \/ worker[w].vector = 0 /\ \E fault \in {"transient", "blocking"} : Fails(w, fault)
    /\ UNCHANGED <<active, status, task, point, lost>>

(* Mutant: the vector is written first.                                    *)
CacheLater(w) ==
    worker[w].pc = "embedded" /\ Moves(w, "cached") /\ UNCHANGED <<active, status, task, point, lost>>

(* renew() and cache_vector(): the vector is persisted before it is        *)
(* written anywhere, and one that was persisted already is returned.       *)
CacheVector(w) ==
    /\ worker[w].pc = "embedded"
    /\ IF ~Owns(w) THEN Stops(w) /\ UNCHANGED task
       ELSE LET t == worker[w].task
                kept == IF task[t].vector = 0 THEN worker[w].vector ELSE task[t].vector
            IN /\ task' = [task EXCEPT ![t].vector = kept]
               /\ worker' = [worker EXCEPT ![w].pc = "cached", ![w].vector = kept]
    /\ UNCHANGED <<active, status, point, lost>>

(* upsert(): no lease guards the call to the index, and one that failed    *)
(* may have been applied.                                                  *)
Upsert(w) ==
    /\ worker[w].pc = "cached"
    /\ LET t == worker[w].task
           Written == point' = [point EXCEPT ![t] = worker[w].vector] /\ lost' = lost \ {t}
       IN \/ Written /\ Moves(w, "written")
          \/ /\ Written \/ UNCHANGED <<point, lost>>
             /\ \E fault \in {"transient", "blocking"} : Fails(w, fault)
    /\ UNCHANGED <<active, status, task>>

(* complete(): a task whose vector is written and cached is ready.         *)
Complete(w) ==
    /\ worker[w].pc = "written"
    /\ IF ~Owns(w) THEN Stops(w) /\ UNCHANGED task
       ELSE /\ task' = [task EXCEPT ![worker[w].task].status = "ready"]
            /\ worker' = [worker EXCEPT ![w] = [Idle EXCEPT !.pc = "reconcile"]]
    /\ UNCHANGED <<active, status, point, lost>>

(* fail(): a transient failure waits for another attempt, a blocking one   *)
(* blocks the task; the run's status follows this failure alone.           *)
Fail(w) ==
    /\ worker[w].pc = "failing" /\ Stops(w)
    /\ LET t == worker[w].task
           to == IF worker[w].fault = "blocking" THEN "blocked" ELSE Again(t, "retry_wait")
       IN IF Owns(w)
          THEN /\ task' = [task EXCEPT ![t].status = to, ![t].due = (to # "retry_wait")]
               /\ status' = CASE to = "blocked" -> "blocked"
                              [] to = "failed" -> "degraded"
                              [] to = "retry_wait" -> "building"
          ELSE UNCHANGED <<task, status>>
    /\ UNCHANGED <<active, point, lost>>

-----------------------------------------------------------------------------
(* Reconciliation: read the tasks, ask the index, publish what it said.    *)

Reconcile(w) ==
    /\ worker[w].pc = "reconcile"
    /\ IF status # "blocked" /\ HasStatus("ready") = Task THEN Moves(w, "inspect") ELSE Stops(w)
    /\ UNCHANGED <<active, status, task, point, lost>>

Inspect(w) ==
    /\ worker[w].pc = "inspect"
    /\ \/ worker' = [worker EXCEPT ![w].pc = "publish",
                                   ![w].missing = {t \in Task : point[t] = None}]
       \/ \E fault \in {"transient", "blocking"} :
            worker' = [worker EXCEPT ![w].pc = "erring", ![w].fault = fault]
    /\ UNCHANGED <<active, status, task, point, lost>>

(* Mutant: publish() trusts the report.                                    *)
NoRecheck == TRUE

AllReady == HasStatus("ready") = Task

(* publish(): the report may be old by now.  What it misses is repaired;   *)
(* the run is ready if nothing is missing and every task still is ready.   *)
Publish(w) ==
    /\ worker[w].pc = "publish"
    /\ IF status = "blocked" THEN Stops(w) /\ UNCHANGED <<status, task>>
       ELSE IF ~active
       THEN /\ worker' = [worker EXCEPT ![w] = [Idle EXCEPT !.pc = "erring", !.fault = "blocking"]]
            /\ UNCHANGED <<status, task>>
       ELSE /\ task' = [t \in Task |->
                  IF t \in worker[w].missing /\ task[t].status = "ready"
                  THEN LET to == Again(t, "retry_wait")
                       IN [task[t] EXCEPT !.status = to, !.due = (to # "retry_wait")]
                  ELSE task[t]]
            /\ status' = IF AllReady /\ worker[w].missing = {} THEN "ready" ELSE "degraded"
            /\ Stops(w)
    /\ UNCHANGED <<active, point, lost>>

(* set_run_state(): a failed reconciliation degrades or blocks the run.    *)
SetRunState(w) ==
    /\ worker[w].pc = "erring" /\ Stops(w)
    /\ status' = IF worker[w].fault = "transient" THEN "degraded" ELSE "blocked"
    /\ UNCHANGED <<active, task, point, lost>>

-----------------------------------------------------------------------------
(* The operator, the index, time and the processes.                        *)

(* unblock(): the operator has repaired what the failure was about.        *)
Unblock ==
    /\ status = "blocked" \/ HasStatus("blocked") # {}
    /\ task' = [t \in Task |->
          IF task[t].status = "blocked" THEN [task[t] EXCEPT !.status = Again(t, "pending")]
                                        ELSE task[t]]
    /\ status' = IF status = "blocked" THEN "building" ELSE status
    /\ UNCHANGED <<active, point, lost, worker>>

(* Another revision is published for the scope; there is no way back: a    *)
(* revision is published only over the one it was begun from.              *)
Supersede == active /\ active' = FALSE /\ UNCHANGED <<status, task, point, lost, worker>>

Lose(t) ==
    /\ point[t] # None /\ point' = [point EXCEPT ![t] = None] /\ lost' = lost \cup {t}
    /\ UNCHANGED <<active, status, task, worker>>

LeaseLapses(t) ==
    /\ task[t].status = "running" /\ ~task[t].lapsed
    /\ task' = [task EXCEPT ![t].lapsed = TRUE]
    /\ UNCHANGED <<active, status, point, lost, worker>>

BecomesDue(t) ==
    /\ ~task[t].due /\ task' = [task EXCEPT ![t].due = TRUE]
    /\ UNCHANGED <<active, status, point, lost, worker>>

Crash(w) == worker[w].pc # "idle" /\ Stops(w) /\ UNCHANGED <<active, status, task, point, lost>>

Work(w) ==
    \/ Claim(w) \/ BlockInactive(w) \/ Document(w) \/ Embed(w) \/ CacheVector(w) \/ Upsert(w)
    \/ Complete(w) \/ Fail(w) \/ Reconcile(w) \/ Inspect(w) \/ Publish(w) \/ SetRunState(w)

Next ==
    \/ \E w \in Worker : Work(w) \/ Crash(w)
    \/ \E t \in Task : Lose(t) \/ LeaseLapses(t) \/ BecomesDue(t)
    \/ Unblock \/ Supersede

Spec == Init /\ [][Next]_vars

(* The coordinator's thread goes on polling, time goes on, and a process   *)
(* is not killed every time it is about to block a superseded run.         *)
FairSpec ==
    /\ Spec
    /\ \A w \in Worker : WF_vars(Work(w)) /\ SF_vars(BlockInactive(w))
    /\ \A t \in Task : WF_vars(LeaseLapses(t)) /\ WF_vars(BecomesDue(t))

-----------------------------------------------------------------------------
(* What the index holds for a task is the vector cached for it, even when  *)
(* the write of an owner that lost its lease arrives after its successor's *)
(* (cache_vector, upsert).                                                 *)
PointsHoldTheCachedVector == \A t \in Task : point[t] # None => point[t] = task[t].vector

(* While a run is ready every task of it is, and the index was given every *)
(* point: what is missing now was lost later (publish's check).            *)
ReadyRunIsComplete ==
    status = "ready" => \A t \in Task : task[t].status = "ready" /\ (point[t] # None \/ t \in lost)

(* A task that will be tried again has attempts left, and one that is      *)
(* given up has none (claim, fail, publish and unblock share the budget).  *)
BudgetIsExact ==
    \A t \in Task : /\ task[t].status \in {"pending", "retry_wait"} => task[t].attempt < MaxAttempts
                    /\ task[t].status = "failed" => task[t].attempt = MaxAttempts

(* Tasks, cache and index agree between any two transactions.              *)
ProjectionAgrees == TypeOK /\ PointsHoldTheCachedVector /\ ReadyRunIsComplete /\ BudgetIsExact

(* While a lease runs nobody but its owner moves the task: not an earlier  *)
(* owner, not the reconciliation, not the operator (_owned).               *)
LeaseProtects ==
    [][\A t \in Task, w \in Worker :
        /\ worker[w].task = t /\ worker[w].attempt = task[t].attempt
        /\ task[t].status = "running" /\ ~task[t].lapsed
        /\ task'[t] # task[t] /\ ~task'[t].lapsed
        => worker'[w] # worker[w]]_vars

(* Workers may crash, leases lapse and failures repeat: again and again    *)
(* the run waits for the operator or has no unfinished task.               *)
RunSettles ==
    []<>(status = "blocked" \/ \A t \in Task : task[t].status \in {"ready", "failed", "blocked"})

(* The documentation: an authorization or configuration failure blocks,    *)
(* and the version stops claiming until unblock is called.                 *)
BlockedStopsClaims ==
    [][HasStatus("blocked") # {}
        => \A t \in Task : task'[t].status = "running" => task[t].status = "running"]_vars
=============================================================================
