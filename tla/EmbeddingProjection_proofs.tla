--------------------- MODULE EmbeddingProjection_proofs ---------------------
(***************************************************************************)
(* Proofs about EmbeddingProjection for every set of workers and tasks and *)
(* every budget of attempts.  IInv is the inductive invariant: what a      *)
(* worker may rely on between two of its steps, whoever else is at work.   *)
(* VectorSearch follows: the publisher without leases and the searches.    *)
(***************************************************************************)
EXTENDS VectorSearch, WellFoundedInduction, TLAPS

(* The places at which a worker has a task.                                *)
Holding == {"claimed", "embedding", "embedded", "cached", "written", "failing"}

(* A claim has a task and a token; what it has embedded it knows, what it  *)
(* has cached is in the cache, and what it has written was in the index.   *)
ClaimOK(rec) ==
    /\ rec.pc \in Holding => rec.task \in Task /\ rec.attempt # 0
    /\ rec.pc \in {"embedded", "cached", "written"} => rec.vector # 0
    /\ rec.pc \in {"cached", "written"} => rec.vector = task[rec.task].vector
    /\ rec.pc = "written" => point[rec.task] # None \/ rec.task \in lost

ClaimInv == \A w \in Worker : ClaimOK(worker[w])

(* No token is ahead of its task, and no two workers have the same one.    *)
TokenInv ==
    /\ \A w \in Worker : worker[w].task \in Task => worker[w].attempt <= task[worker[w].task].attempt
    /\ \A v, w \in Worker :
          worker[v].task \in Task /\ worker[v].task = worker[w].task /\ worker[v].attempt = worker[w].attempt
          => v = w

(* A ready task was written, and a ready run has only ready tasks.         *)
ReadyInv ==
    /\ \A t \in Task : task[t].status = "ready" => point[t] # None \/ t \in lost
    /\ status = "ready" => \A t \in Task : task[t].status = "ready"

(* TypeOK, where a point may also be a publisher's: a vector named 0.       *)
CoreTypeOK ==
    /\ active \in BOOLEAN /\ lost \subseteq Task
    /\ status \in {"building", "degraded", "blocked", "ready"}
    /\ task \in [Task -> [status : {"pending", "running", "retry_wait", "failed", "blocked", "ready"},
                          attempt : 0..MaxAttempts, vector : 0..MaxAttempts,
                          lapsed : BOOLEAN, due : BOOLEAN]]
    /\ \A t \in Task : /\ task[t].lapsed => task[t].status = "running"
                       /\ ~task[t].due => task[t].status = "retry_wait"
    /\ point \in [Task -> 0..MaxAttempts \cup {None}]
    /\ worker \in [Worker -> [pc : {"idle", "inactive", "claimed", "embedding", "embedded", "cached",
                                    "written", "failing", "reconcile", "inspect", "publish", "erring"},
                              task : Task \cup {None}, attempt : 0..MaxAttempts,
                              vector : 0..MaxAttempts,
                              fault : {"none", "transient", "blocking"}, missing : SUBSET Task]]

(* No point but a publisher's is another vector than the cached one.       *)
PointsAreCached == \A t \in Task : point[t] \notin {None, 0} => point[t] = task[t].vector

CoreInv == CoreTypeOK /\ BudgetIsExact /\ PointsAreCached /\ ClaimInv /\ TokenInv /\ ReadyInv
-----------------------------------------------------------------------------
(* The tasks' numbers matter to the order of claims alone.                 *)
LEMMA Constants == MaxAttempts \in Nat /\ MaxAttempts > 0 /\ None \notin Task /\ None \notin 0..MaxAttempts
BY ProjectionAssumption

TaskRecord == [status : {"pending", "running", "retry_wait", "failed", "blocked", "ready"},
               attempt : 0..MaxAttempts, vector : 0..MaxAttempts, lapsed : BOOLEAN, due : BOOLEAN]

WorkerRecord == [pc : {"idle", "inactive", "claimed", "embedding", "embedded", "cached",
                       "written", "failing", "reconcile", "inspect", "publish", "erring"},
                 task : Task \cup {None}, attempt : 0..MaxAttempts, vector : 0..MaxAttempts,
                 fault : {"none", "transient", "blocking"}, missing : SUBSET Task]

(* ORDER BY ... LIMIT 1 answers with one of the rows.                      *)
LEMMA MinIsMember ==
    ASSUME NEW S, S \subseteq Nat, S # {}
    PROVE  Min(S) \in S
<1> DEFINE Less == OpToRel(<, Nat)
<1>1. Less = {p \in Nat \X Nat : p[1] < p[2]}
    BY DEF OpToRel
<1>2. IsWellFoundedOn(Less, Nat)
    BY NatLessThanWellFounded
<1> HIDE DEF Less
<1>3. PICK x \in S : \A y \in S : ~ (<<y, x>> \in Less)
    BY <1>2, WFMin
<1>4. ASSUME NEW y \in S, y < x PROVE FALSE
    <2>1. <<y, x>> \in Nat \X Nat /\ <<y, x>>[1] = y /\ <<y, x>>[2] = x
        OBVIOUS
    <2>2. <<y, x>> \in Less
        BY <1>1, <1>4, <2>1
    <2> QED BY <1>3, <2>2
<1>5. \A y \in S : x <= y
    BY <1>4
<1> QED BY <1>5 DEF Min

(* Attempts are only counted up, a cached vector stays, and a point that   *)
(* was in the index is there or was lost.                                  *)
RowsGrow ==
    \A t \in Task : /\ task'[t].attempt >= task[t].attempt
                    /\ task[t].vector # 0 => task'[t].vector = task[t].vector
                    /\ point[t] # None \/ t \in lost => point'[t] # None \/ t \in lost'

LEMMA Numbers ==
    ASSUME CoreTypeOK
    PROVE  /\ \A t \in Task : task[t] \in TaskRecord /\ task[t].attempt \in Nat /\ task[t].vector \in Nat
           /\ \A w \in Worker : worker[w] \in WorkerRecord /\ worker[w].attempt \in Nat /\ worker[w].vector \in Nat
BY Constants DEF CoreTypeOK, TaskRecord, WorkerRecord

(* Worker w goes on with the claim it has, gives it up, or has a new one.  *)
LEMMA ClaimsStep ==
    ASSUME CoreTypeOK, CoreTypeOK', ClaimInv, TokenInv, RowsGrow, NEW w \in Worker, NEW rec \in WorkerRecord,
           worker' = [worker EXCEPT ![w] = rec], ClaimOK(rec)',
           rec.task \in Task =>
               \/ rec.task = worker[w].task /\ rec.attempt = worker[w].attempt
               \/ rec.attempt > task[rec.task].attempt /\ rec.attempt <= task'[rec.task].attempt
    PROVE  ClaimInv' /\ TokenInv'
<1>1. worker'[w] = rec /\ \A v \in Worker \ {w} : worker'[v] = worker[v]
    BY DEF CoreTypeOK
<1>2. rec.attempt \in Nat
    BY Constants DEF WorkerRecord
<1>3. \A t \in Task : task[t].attempt \in Nat /\ task'[t].attempt \in Nat
    BY Constants DEF CoreTypeOK
<1>4. \A v \in Worker : worker[v].attempt \in Nat
    BY Numbers
<1>5. ClaimInv'
    <2>1. ASSUME NEW v \in Worker \ {w} PROVE ClaimOK(worker[v])'
        BY <1>1, <2>1 DEF ClaimInv, ClaimOK, RowsGrow, Holding
    <2> QED BY <1>1, <2>1 DEF ClaimInv
<1>6. \A v \in Worker : worker'[v].task \in Task => worker'[v].attempt <= task'[worker'[v].task].attempt
    <2>1. ASSUME NEW v \in Worker \ {w}, worker[v].task \in Task PROVE worker[v].attempt <= task'[worker[v].task].attempt
        BY <1>3, <1>4, <2>1 DEF TokenInv, RowsGrow
    <2>2. rec.task \in Task => rec.attempt <= task'[rec.task].attempt
        BY <1>2, <1>3, <1>4 DEF TokenInv, RowsGrow
    <2> QED BY <1>1, <2>1, <2>2
<1>7. ASSUME NEW v \in Worker \ {w}, worker[v].task \in Task, worker[v].task = rec.task, worker[v].attempt = rec.attempt
      PROVE  FALSE
    BY <1>2, <1>3, <1>4, <1>7 DEF TokenInv
<1> QED BY <1>1, <1>5, <1>6, <1>7 DEF TokenInv

(* No worker moves.                                                        *)
LEMMA ClaimsStay ==
    ASSUME CoreTypeOK, CoreTypeOK', ClaimInv, TokenInv, RowsGrow, worker' = worker
    PROVE  ClaimInv' /\ TokenInv'
<1>1. \A t \in Task : task[t].attempt \in Nat /\ task'[t].attempt \in Nat
    BY Constants DEF CoreTypeOK
<1>2. \A v \in Worker : worker[v].attempt \in Nat
    BY Numbers
<1>3. ClaimInv'
    BY DEF ClaimInv, ClaimOK, RowsGrow, Holding
<1> QED BY <1>1, <1>2, <1>3 DEF TokenInv, RowsGrow

-----------------------------------------------------------------------------
(* Steps that move one worker, and at most take the run out of "ready".    *)
RunStatuses == {"building", "degraded", "blocked", "ready"}

LEMMA WorkerStep ==
    ASSUME CoreInv, NEW w \in Worker, NEW rec \in WorkerRecord, worker' = [worker EXCEPT ![w] = rec],
           UNCHANGED <<active, task, point, lost>>, status' \in RunStatuses, status' = "ready" => status = "ready",
           ClaimOK(rec),
           rec.task \in Task => rec.task = worker[w].task /\ rec.attempt = worker[w].attempt
    PROVE  CoreInv'
<1>1. CoreTypeOK'
    BY DEF CoreInv, CoreTypeOK, WorkerRecord, RunStatuses
<1>2. RowsGrow
    BY Numbers DEF RowsGrow, CoreInv
<1>3. ClaimOK(rec)'
    BY DEF ClaimOK
<1>4. ClaimInv' /\ TokenInv'
    BY <1>1, <1>2, <1>3, ClaimsStep DEF CoreInv
<1> QED BY <1>1, <1>4 DEF CoreInv, BudgetIsExact, PointsAreCached, ReadyInv

LEMMA StopsStep ==
    ASSUME CoreInv, NEW w \in Worker, Stops(w), UNCHANGED <<active, task, point, lost>>,
           status' \in RunStatuses, status' = "ready" => status = "ready"
    PROVE  CoreInv'
<1>1. Idle \in WorkerRecord /\ ClaimOK(Idle) /\ Idle.task \notin Task
    BY Constants DEF Idle, WorkerRecord, ClaimOK, Holding
<1> QED BY <1>1, WorkerStep DEF Stops

LEMMA StatusOK == ASSUME CoreInv PROVE status \in RunStatuses
BY DEF CoreInv, CoreTypeOK, RunStatuses

LEMMA MovesStep ==
    ASSUME CoreInv, NEW w \in Worker, NEW pc, Moves(w, pc), UNCHANGED <<active, status, task, point, lost>>,
           [worker[w] EXCEPT !.pc = pc] \in WorkerRecord, ClaimOK([worker[w] EXCEPT !.pc = pc])
    PROVE  CoreInv'
<1> DEFINE rec == [worker[w] EXCEPT !.pc = pc]
<1>1. worker' = [worker EXCEPT ![w] = rec]
    BY DEF Moves, CoreInv, CoreTypeOK
<1>2. rec.task = worker[w].task /\ rec.attempt = worker[w].attempt
    BY Numbers DEF CoreInv, WorkerRecord
<1> HIDE DEF rec
<1> QED BY <1>1, <1>2, WorkerStep, StatusOK DEF rec

LEMMA FailsStep ==
    ASSUME CoreInv, NEW w \in Worker, worker[w].pc \in Holding, NEW fault \in {"transient", "blocking"}, Fails(w, fault),
           UNCHANGED <<active, status, task, point, lost>>
    PROVE  CoreInv'
<1> DEFINE rec == [worker[w] EXCEPT !.pc = "failing", !.fault = fault]
<1>1. worker[w] \in WorkerRecord /\ ClaimOK(worker[w])
    BY Numbers DEF CoreInv, ClaimInv
<1>2. worker' = [worker EXCEPT ![w] = rec]
    BY DEF Fails, CoreInv, CoreTypeOK
<1>3. /\ rec \in WorkerRecord /\ rec.task = worker[w].task /\ rec.attempt = worker[w].attempt
      /\ ClaimOK(rec)
    BY <1>1 DEF WorkerRecord, ClaimOK, Holding
<1> HIDE DEF rec
<1> QED BY <1>2, <1>3, WorkerStep, StatusOK

LEMMA DocumentStep == ASSUME CoreInv, NEW w \in Worker, Document(w) PROVE CoreInv'
<1>1. worker[w] \in WorkerRecord /\ ClaimOK(worker[w])
    BY Numbers DEF CoreInv, ClaimInv
<1>2. CASE Stops(w)
    BY <1>2, StopsStep, StatusOK DEF Document
<1>3. CASE Moves(w, "embedding")
    <2>1. ClaimOK([worker[w] EXCEPT !.pc = "embedding"]) /\ [worker[w] EXCEPT !.pc = "embedding"] \in WorkerRecord
        BY <1>1 DEF Document, ClaimOK, Holding, WorkerRecord
    <2> QED BY <1>3, <2>1, MovesStep DEF Document
<1>4. CASE Fails(w, "blocking")
    BY <1>4, FailsStep DEF Document, Holding
<1> QED BY <1>2, <1>3, <1>4 DEF Document

LEMMA EmbedStep == ASSUME CoreInv, NEW w \in Worker, Embed(w) PROVE CoreInv'
<1>1. worker[w] \in WorkerRecord /\ ClaimOK(worker[w])
    BY Numbers DEF CoreInv, ClaimInv
<1>2. CASE worker[w].vector # 0 /\ Moves(w, "embedded")
    <2>1. ClaimOK([worker[w] EXCEPT !.pc = "embedded"]) /\ [worker[w] EXCEPT !.pc = "embedded"] \in WorkerRecord
        BY <1>1, <1>2 DEF Embed, ClaimOK, Holding, WorkerRecord
    <2> QED BY <1>2, <2>1, MovesStep DEF Embed
<1>3. CASE worker' = [worker EXCEPT ![w].pc = "embedded", ![w].vector = worker[w].attempt]
    <2> DEFINE rec == [worker[w] EXCEPT !.pc = "embedded", !.vector = worker[w].attempt]
    <2>1. worker' = [worker EXCEPT ![w] = rec]
        BY <1>3 DEF CoreInv, CoreTypeOK
    <2>2. /\ rec \in WorkerRecord /\ rec.task = worker[w].task /\ rec.attempt = worker[w].attempt
          /\ ClaimOK(rec)
        BY <1>1 DEF Embed, WorkerRecord, ClaimOK, Holding
    <2> HIDE DEF rec
    <2> QED BY <2>1, <2>2, WorkerStep, StatusOK DEF Embed
<1>4. CASE \E fault \in {"transient", "blocking"} : Fails(w, fault)
    BY <1>4, FailsStep DEF Embed, Holding
<1> QED BY <1>2, <1>3, <1>4 DEF Embed

LEMMA BlockInactiveStep == ASSUME CoreInv, NEW w \in Worker, BlockInactive(w) PROVE CoreInv'
BY StopsStep DEF BlockInactive, RunStatuses

LEMMA SetRunStateStep == ASSUME CoreInv, NEW w \in Worker, SetRunState(w) PROVE CoreInv'
BY StopsStep DEF SetRunState, RunStatuses

LEMMA CrashStep == ASSUME CoreInv, NEW w \in Worker, Crash(w) PROVE CoreInv'
BY StopsStep, StatusOK DEF Crash

LEMMA ReconcileStep == ASSUME CoreInv, NEW w \in Worker, Reconcile(w) PROVE CoreInv'
<1>1. worker[w] \in WorkerRecord /\ ClaimOK(worker[w])
    BY Numbers DEF CoreInv, ClaimInv
<1>2. CASE Stops(w)
    BY <1>2, StopsStep, StatusOK DEF Reconcile
<1>3. CASE Moves(w, "inspect")
    <2>1. ClaimOK([worker[w] EXCEPT !.pc = "inspect"]) /\ [worker[w] EXCEPT !.pc = "inspect"] \in WorkerRecord
        BY <1>1 DEF ClaimOK, Holding, WorkerRecord
    <2> QED BY <1>3, <2>1, MovesStep DEF Reconcile
<1> QED BY <1>2, <1>3 DEF Reconcile

LEMMA InspectStep == ASSUME CoreInv, NEW w \in Worker, Inspect(w) PROVE CoreInv'
<1>1. worker[w] \in WorkerRecord /\ ClaimOK(worker[w])
    BY Numbers DEF CoreInv, ClaimInv
<1>2. CASE worker' = [worker EXCEPT ![w].pc = "publish", ![w].missing = {t \in Task : point[t] = None}]
    <2> DEFINE rec == [worker[w] EXCEPT !.pc = "publish", !.missing = {t \in Task : point[t] = None}]
    <2>1. worker' = [worker EXCEPT ![w] = rec]
        BY <1>2 DEF CoreInv, CoreTypeOK
    <2>2. /\ rec \in WorkerRecord /\ rec.task = worker[w].task /\ rec.attempt = worker[w].attempt
          /\ ClaimOK(rec)
        BY <1>1 DEF WorkerRecord, ClaimOK, Holding
    <2> HIDE DEF rec
    <2> QED BY <2>1, <2>2, WorkerStep, StatusOK DEF Inspect
<1>3. ASSUME NEW fault \in {"transient", "blocking"}, worker' = [worker EXCEPT ![w].pc = "erring", ![w].fault = fault]
      PROVE  CoreInv'
    <2> DEFINE rec == [worker[w] EXCEPT !.pc = "erring", !.fault = fault]
    <2>1. worker' = [worker EXCEPT ![w] = rec]
        BY <1>3 DEF CoreInv, CoreTypeOK
    <2>2. /\ rec \in WorkerRecord /\ rec.task = worker[w].task /\ rec.attempt = worker[w].attempt
          /\ ClaimOK(rec)
        BY <1>1 DEF WorkerRecord, ClaimOK, Holding
    <2> HIDE DEF rec
    <2> QED BY <2>1, <2>2, WorkerStep, StatusOK, <1>3 DEF Inspect
<1> QED BY <1>2, <1>3 DEF Inspect

(* A write reaches the index, and the worker goes on as rec.               *)
LEMMA WrittenStep ==
    ASSUME CoreInv, NEW w \in Worker, worker[w].pc = "cached", NEW rec \in WorkerRecord,
           point' = [point EXCEPT ![worker[w].task] = worker[w].vector], lost' = lost \ {worker[w].task},
           UNCHANGED <<active, status, task>>, worker' = [worker EXCEPT ![w] = rec],
           rec.task = worker[w].task, rec.attempt = worker[w].attempt, rec.vector = worker[w].vector,
           rec.pc \in {"written", "failing"}
    PROVE  CoreInv'
<1> DEFINE t == worker[w].task
<1>1. worker[w] \in WorkerRecord /\ ClaimOK(worker[w])
    BY Numbers DEF CoreInv, ClaimInv
<1>2. /\ t \in Task /\ worker[w].vector \in 1..MaxAttempts /\ worker[w].vector = task[t].vector
      /\ worker[w].attempt # 0
    BY <1>1, Constants DEF ClaimOK, Holding, WorkerRecord
<1>3. point'[t] = task[t].vector /\ point'[t] # None /\ \A u \in Task \ {t} : point'[u] = point[u]
    BY <1>2, Constants DEF CoreInv, CoreTypeOK
<1>4. CoreTypeOK'
    BY <1>2 DEF CoreInv, CoreTypeOK, WorkerRecord
<1>5. RowsGrow
    BY <1>3, Numbers DEF RowsGrow, CoreInv
<1>6. ClaimOK(rec)'
    BY <1>2, <1>3 DEF ClaimOK, Holding
<1>7. ClaimInv' /\ TokenInv'
    BY <1>4, <1>5, <1>6, ClaimsStep DEF CoreInv
<1>8. PointsAreCached'
    BY <1>3 DEF CoreInv, PointsAreCached
<1>9. ReadyInv'
    BY <1>3 DEF CoreInv, ReadyInv
<1> QED BY <1>4, <1>7, <1>8, <1>9 DEF CoreInv, BudgetIsExact

LEMMA UpsertStep == ASSUME CoreInv, NEW w \in Worker, Upsert(w) PROVE CoreInv'
<1> DEFINE t == worker[w].task
           Written == point' = [point EXCEPT ![t] = worker[w].vector] /\ lost' = lost \ {t}
           recWritten == [worker[w] EXCEPT !.pc = "written"]
           recFailing(fault) == [worker[w] EXCEPT !.pc = "failing", !.fault = fault]
<1>1. worker[w] \in WorkerRecord
    BY Numbers DEF CoreInv
<1>2. CASE Written /\ Moves(w, "written")
    <2>1. worker' = [worker EXCEPT ![w] = recWritten]
        BY <1>2 DEF Moves, CoreInv, CoreTypeOK
    <2>2. /\ recWritten \in WorkerRecord /\ recWritten.task = t /\ recWritten.attempt = worker[w].attempt
          /\ recWritten.vector = worker[w].vector /\ recWritten.pc = "written"
        BY <1>1 DEF WorkerRecord
    <2> HIDE DEF recWritten
    <2> QED BY <1>2, <2>1, <2>2, WrittenStep DEF Upsert
<1>3. ASSUME Written, NEW fault \in {"transient", "blocking"}, Fails(w, fault) PROVE CoreInv'
    <2>1. worker' = [worker EXCEPT ![w] = recFailing(fault)]
        BY <1>3 DEF Fails, CoreInv, CoreTypeOK
    <2>2. /\ recFailing(fault) \in WorkerRecord /\ recFailing(fault).task = t
          /\ recFailing(fault).attempt = worker[w].attempt
          /\ recFailing(fault).vector = worker[w].vector /\ recFailing(fault).pc = "failing"
        BY <1>1 DEF WorkerRecord
    <2> HIDE DEF recFailing
    <2> QED BY <1>3, <2>1, <2>2, WrittenStep DEF Upsert
<1>4. ASSUME UNCHANGED <<point, lost>>, NEW fault \in {"transient", "blocking"}, Fails(w, fault) PROVE CoreInv'
    BY <1>4, FailsStep DEF Upsert, Holding
<1> QED BY <1>2, <1>3, <1>4 DEF Upsert

-----------------------------------------------------------------------------
(* Steps that write rows.  What the invariant asks of a row by itself, and *)
(* what a step may make of it.                                             *)
RowOK(row) ==
    /\ row \in TaskRecord
    /\ row.lapsed => row.status = "running"
    /\ ~row.due => row.status = "retry_wait"
    /\ row.status \in {"pending", "retry_wait"} => row.attempt < MaxAttempts
    /\ row.status = "failed" => row.attempt = MaxAttempts

Follows(t, row) ==
    /\ row.attempt >= task[t].attempt
    /\ task[t].vector # 0 => row.vector = task[t].vector
    /\ row.status = "ready" => task[t].status = "ready" \/ point[t] # None \/ t \in lost

LEMMA RowFacts ==
    ASSUME CoreInv, NEW t \in Task
    PROVE  RowOK(task[t]) /\ Follows(t, task[t])
BY Numbers DEF CoreInv, CoreTypeOK, TaskRecord, BudgetIsExact, RowOK, Follows

LEMMA RowsStep ==
    ASSUME CoreInv, worker' \in [Worker -> WorkerRecord], UNCHANGED <<active, point, lost>>,
           task' = [t \in Task |-> task'[t]],
           \A t \in Task : RowOK(task'[t]) /\ Follows(t, task'[t]),
           status' \in RunStatuses, status' = "ready" => \A t \in Task : task'[t].status = "ready"
    PROVE  CoreTypeOK' /\ BudgetIsExact' /\ PointsAreCached' /\ ReadyInv' /\ RowsGrow
<1>1. task' \in [Task -> TaskRecord]
    BY DEF RowOK
<1>2. CoreTypeOK'
    BY <1>1 DEF CoreInv, CoreTypeOK, TaskRecord, WorkerRecord, RowOK, RunStatuses
<1>3. BudgetIsExact'
    BY DEF BudgetIsExact, RowOK
<1>4. PointsAreCached'
    <2>1. ASSUME NEW t \in Task, point[t] \notin {None, 0} PROVE task[t].vector # 0 /\ point[t] = task[t].vector
        BY <2>1, Constants DEF CoreInv, CoreTypeOK, PointsAreCached
    <2> QED BY <2>1 DEF PointsAreCached, Follows
<1>5. ReadyInv'
    BY DEF CoreInv, ReadyInv, Follows
<1>6. RowsGrow
    BY DEF RowsGrow, Follows
<1> QED BY <1>2, <1>3, <1>4, <1>5, <1>6

(* No worker moves.                                                        *)
LEMMA RowsAloneStep ==
    ASSUME CoreInv, UNCHANGED <<active, point, lost, worker>>, task' = [t \in Task |-> task'[t]],
           \A t \in Task : RowOK(task'[t]) /\ Follows(t, task'[t]),
           status' \in RunStatuses, status' = "ready" => \A t \in Task : task'[t].status = "ready"
    PROVE  CoreInv'
<1>1. worker' \in [Worker -> WorkerRecord]
    BY DEF CoreInv, CoreTypeOK, WorkerRecord
<1>2. CoreTypeOK' /\ BudgetIsExact' /\ PointsAreCached' /\ ReadyInv' /\ RowsGrow
    BY <1>1, RowsStep
<1> QED BY <1>2, ClaimsStay DEF CoreInv

LEMMA WorkerRowsStep ==
    ASSUME CoreInv, NEW w \in Worker, NEW rec \in WorkerRecord, worker' = [worker EXCEPT ![w] = rec], ClaimOK(rec)',
           rec.task \in Task =>
               \/ rec.task = worker[w].task /\ rec.attempt = worker[w].attempt
               \/ rec.attempt > task[rec.task].attempt /\ rec.attempt <= task'[rec.task].attempt,
           UNCHANGED <<active, point, lost>>, task' = [t \in Task |-> task'[t]],
           \A t \in Task : RowOK(task'[t]) /\ Follows(t, task'[t]),
           status' \in RunStatuses, status' = "ready" => \A t \in Task : task'[t].status = "ready"
    PROVE  CoreInv'
<1>1. worker' \in [Worker -> WorkerRecord]
    BY DEF CoreInv, CoreTypeOK, WorkerRecord
<1>2. CoreTypeOK' /\ BudgetIsExact' /\ PointsAreCached' /\ ReadyInv' /\ RowsGrow
    BY <1>1, RowsStep
<1> QED BY <1>2, ClaimsStep DEF CoreInv

LEMMA CacheVectorStep == ASSUME CoreInv, NEW w \in Worker, CacheVector(w) PROVE CoreInv'
<1> DEFINE t == worker[w].task
           kept == IF task[t].vector = 0 THEN worker[w].vector ELSE task[t].vector
<1>1. worker[w] \in WorkerRecord /\ ClaimOK(worker[w])
    BY Numbers DEF CoreInv, ClaimInv
<1>2. /\ t \in Task /\ worker[w].attempt # 0 /\ worker[w].vector # 0
      /\ RowOK(task[t]) /\ \A u \in Task : RowOK(task[u]) /\ Follows(u, task[u])
    BY <1>1, RowFacts DEF CacheVector, ClaimOK, Holding
<1>3. CASE ~Owns(w)
    BY <1>3, StopsStep, StatusOK DEF CacheVector
<1>4. CASE Owns(w)
    <2>1. kept # 0 /\ kept \in 0..MaxAttempts
        BY <1>1, <1>2 DEF WorkerRecord, RowOK, TaskRecord
    <2>2. /\ task' = [task EXCEPT ![t].vector = kept]
          /\ worker' = [worker EXCEPT ![w].pc = "cached", ![w].vector = kept]
          /\ UNCHANGED <<active, status, point, lost>>
        BY <1>4 DEF CacheVector
    <2> HIDE DEF kept
    <2> PICK rec : rec = [worker[w] EXCEPT !.pc = "cached", !.vector = kept]
        OBVIOUS
    <2>3. /\ rec \in WorkerRecord /\ rec.task = t /\ rec.attempt = worker[w].attempt
          /\ rec.vector = kept /\ rec.pc = "cached"
        BY <1>1, <2>1 DEF WorkerRecord
    <2>4. worker' = [worker EXCEPT ![w] = rec]
        BY <2>2 DEF CoreInv, CoreTypeOK
    <2>5. task'[t].vector = kept /\ RowOK(task'[t]) /\ Follows(t, task'[t])
        <3>1. task'[t] = [task[t] EXCEPT !.vector = kept]
            BY <1>2, <2>2 DEF CoreInv, CoreTypeOK
        <3>2. RowOK(task'[t])
            BY <1>2, <2>1, <3>1 DEF RowOK, TaskRecord
        <3>3. task[t].vector # 0 => kept = task[t].vector
            BY DEF kept
        <3> QED BY <1>2, <3>1, <3>2, <3>3 DEF Follows, RowOK, TaskRecord
    <2>6. \A u \in Task : RowOK(task'[u]) /\ Follows(u, task'[u])
        BY <1>2, <2>2, <2>5 DEF CoreInv, CoreTypeOK
    <2>7. ClaimOK(rec)'
        BY <1>2, <2>1, <2>3, <2>5 DEF ClaimOK, Holding
    <2>8. task' = [u \in Task |-> task'[u]]
        BY <2>2 DEF CoreInv, CoreTypeOK
    <2>9. status' = "ready" => \A u \in Task : task'[u].status = "ready"
        BY <1>2, <2>2 DEF CoreInv, ReadyInv, CoreTypeOK
    <2> QED BY <2>2, <2>3, <2>4, <2>6, <2>7, <2>8, <2>9, WorkerRowsStep, StatusOK
<1> QED BY <1>3, <1>4

LEMMA CompleteStep == ASSUME CoreInv, NEW w \in Worker, Complete(w) PROVE CoreInv'
<1> DEFINE t == worker[w].task
           rec == [Idle EXCEPT !.pc = "reconcile"]
<1>1. worker[w] \in WorkerRecord /\ ClaimOK(worker[w])
    BY Numbers DEF CoreInv, ClaimInv
<1>2. /\ t \in Task /\ worker[w].attempt # 0 /\ (point[t] # None \/ t \in lost)
      /\ RowOK(task[t]) /\ \A u \in Task : RowOK(task[u]) /\ Follows(u, task[u])
    BY <1>1, RowFacts DEF Complete, ClaimOK, Holding
<1>3. CASE ~Owns(w)
    BY <1>3, StopsStep, StatusOK DEF Complete
<1>4. CASE Owns(w)
    <2>1. /\ task' = [task EXCEPT ![t].status = "ready"]
          /\ worker' = [worker EXCEPT ![w] = rec]
          /\ UNCHANGED <<active, status, point, lost>>
          /\ task[t].status = "running" /\ ~task[t].lapsed
        BY <1>4 DEF Complete, Owns
    <2>2. rec \in WorkerRecord /\ rec.task \notin Task /\ ClaimOK(rec)'
        BY Constants DEF WorkerRecord, Idle, ClaimOK, Holding
    <2>3. RowOK(task'[t]) /\ Follows(t, task'[t])
        <3>1. task'[t] = [task[t] EXCEPT !.status = "ready"]
            BY <1>2, <2>1 DEF CoreInv, CoreTypeOK
        <3>2. RowOK(task'[t])
            BY <1>2, <2>1, <3>1 DEF RowOK, TaskRecord
        <3>3. Follows(t, task'[t])
            BY <1>2, <3>1 DEF Follows, RowOK, TaskRecord
        <3> QED BY <3>2, <3>3
    <2>4. \A u \in Task : RowOK(task'[u]) /\ Follows(u, task'[u])
        BY <1>2, <2>1, <2>3 DEF CoreInv, CoreTypeOK
    <2>5. task' = [u \in Task |-> task'[u]]
        BY <2>1 DEF CoreInv, CoreTypeOK
    <2>6. status' = "ready" => \A u \in Task : task'[u].status = "ready"
        BY <1>2, <2>1 DEF CoreInv, ReadyInv, CoreTypeOK
    <2> HIDE DEF rec
    <2> QED BY <2>1, <2>2, <2>4, <2>5, <2>6, WorkerRowsStep, StatusOK
<1> QED BY <1>3, <1>4

LEMMA FailStep == ASSUME CoreInv, NEW w \in Worker, Fail(w) PROVE CoreInv'
<1> DEFINE t == worker[w].task
           to == IF worker[w].fault = "blocking" THEN "blocked" ELSE Again(t, "retry_wait")
<1>1. worker[w] \in WorkerRecord /\ ClaimOK(worker[w])
    BY Numbers DEF CoreInv, ClaimInv
<1>2. t \in Task /\ RowOK(task[t]) /\ \A u \in Task : RowOK(task[u]) /\ Follows(u, task[u])
    BY <1>1, RowFacts DEF Fail, ClaimOK, Holding
<1>3. CASE ~Owns(w)
    BY <1>3, StopsStep, StatusOK DEF Fail
<1>4. CASE Owns(w)
    <2>1. /\ task' = [task EXCEPT ![t].status = to, ![t].due = (to # "retry_wait")]
          /\ worker' = [worker EXCEPT ![w] = Idle]
          /\ UNCHANGED <<active, point, lost>>
          /\ task[t].status = "running" /\ ~task[t].lapsed
        BY <1>4 DEF Fail, Owns, Stops
    <2>2. Idle \in WorkerRecord /\ Idle.task \notin Task /\ ClaimOK(Idle)'
        BY Constants DEF WorkerRecord, Idle, ClaimOK, Holding
    <2>3. /\ to \in {"blocked", "retry_wait", "failed"}
          /\ to = "retry_wait" => task[t].attempt < MaxAttempts
          /\ to = "failed" => ~(task[t].attempt < MaxAttempts)
        BY DEF Again
    <2>4. status' \in RunStatuses /\ status' # "ready"
        BY <1>4, <2>3 DEF Fail, RunStatuses
    <2> HIDE DEF to
    <2>5. RowOK(task'[t]) /\ Follows(t, task'[t])
        <3>1. task'[t] = [task[t] EXCEPT !.status = to, !.due = (to # "retry_wait")]
            BY <1>2, <2>1 DEF CoreInv, CoreTypeOK
        <3>2. RowOK(task'[t])
            <4>1. to = "failed" => task[t].attempt = MaxAttempts
                BY <1>2, <2>3, Constants DEF RowOK, TaskRecord
            <4>2. task'[t] \in TaskRecord
                BY <1>2, <2>3, <3>1 DEF RowOK, TaskRecord
            <4>3. /\ task'[t].status = to /\ task'[t].lapsed = task[t].lapsed
                  /\ task'[t].attempt = task[t].attempt
                BY <1>2, <3>1 DEF RowOK, TaskRecord
            <4>4. ~task'[t].due => to = "retry_wait"
                BY <1>2, <3>1 DEF RowOK, TaskRecord
            <4> QED BY <2>1, <2>3, <4>1, <4>2, <4>3, <4>4 DEF RowOK
        <3>3. Follows(t, task'[t])
            BY <1>2, <2>3, <3>1 DEF Follows, RowOK, TaskRecord
        <3> QED BY <3>2, <3>3
    <2>6. \A u \in Task : RowOK(task'[u]) /\ Follows(u, task'[u])
        BY <1>2, <2>1, <2>5 DEF CoreInv, CoreTypeOK
    <2>7. task' = [u \in Task |-> task'[u]]
        BY <2>1 DEF CoreInv, CoreTypeOK
    <2> QED BY <2>1, <2>2, <2>4, <2>6, <2>7, WorkerRowsStep
<1> QED BY <1>3, <1>4

(* The sweep takes lapsed tasks back and moves no other.                   *)
LEMMA SweptFacts ==
    ASSUME CoreInv
    PROVE  /\ Swept = [t \in Task |-> Swept[t]]
           /\ \A t \in Task : /\ RowOK(Swept[t]) /\ Follows(t, Swept[t]) /\ ~Swept[t].lapsed
                              /\ Swept[t].attempt = task[t].attempt
                              /\ ~task[t].lapsed => Swept[t] = task[t]
<1>1. ASSUME NEW t \in Task
      PROVE  RowOK(Swept[t]) /\ Follows(t, Swept[t]) /\ ~Swept[t].lapsed /\ Swept[t].attempt = task[t].attempt
    <2>1. RowOK(task[t]) /\ Follows(t, task[t])
        BY RowFacts
    <2>2. CASE ~task[t].lapsed
        BY <2>1, <2>2 DEF Swept
    <2>3. CASE task[t].lapsed
        <3> DEFINE to == Again(t, "pending")
        <3>1. Swept[t] = [task[t] EXCEPT !.status = to, !.lapsed = FALSE]
            BY <2>3 DEF Swept
        <3>2. to \in {"pending", "failed"} /\ (to = "pending" => task[t].attempt < MaxAttempts)
            BY DEF Again
        <3>3. to = "failed" => task[t].attempt = MaxAttempts
            BY <2>1, Constants DEF Again, RowOK, TaskRecord
        <3>4. task[t].status = "running" /\ task[t].due
            BY <2>1, <2>3 DEF RowOK
        <3> HIDE DEF to
        <3>5. Swept[t] \in TaskRecord
            BY <2>1, <3>1, <3>2 DEF RowOK, TaskRecord
        <3>6. /\ Swept[t].status = to /\ ~Swept[t].lapsed /\ Swept[t].due /\ Swept[t].attempt = task[t].attempt
              /\ Swept[t].vector = task[t].vector
            BY <2>1, <3>1, <3>4 DEF RowOK, TaskRecord
        <3>7. RowOK(Swept[t])
            BY <3>2, <3>3, <3>5, <3>6 DEF RowOK
        <3> QED BY <2>1, <3>2, <3>6, <3>7 DEF Follows
    <2> QED BY <2>2, <2>3
<1> QED BY <1>1 DEF Swept

LEMMA ClaimStep == ASSUME CoreInv, NEW w \in Worker, Claim(w) PROVE CoreInv'
<1>1. worker[w] \in WorkerRecord /\ ClaimOK(worker[w]) /\ UNCHANGED <<active, point, lost>>
    BY Numbers DEF CoreInv, ClaimInv, Claim
<1>2. ASSUME NEW pc \in {"reconcile", "inactive"}, Moves(w, pc), UNCHANGED <<status, task>> PROVE CoreInv'
    <2>1. ClaimOK([worker[w] EXCEPT !.pc = pc]) /\ [worker[w] EXCEPT !.pc = pc] \in WorkerRecord
        BY <1>1 DEF ClaimOK, Holding, WorkerRecord
    <2> QED BY <1>1, <1>2, <2>1, MovesStep
<1>3. CASE /\ status # "ready" /\ active
           /\ status' = IF \E t \in Task : Swept[t].status = "failed" THEN "degraded" ELSE status
           /\ Claimable(Swept) = {} /\ task' = Swept /\ Moves(w, "reconcile")
    <2>1. status' \in RunStatuses /\ status' # "ready"
        BY <1>3, StatusOK DEF RunStatuses
    <2>2. PICK rec : rec = [worker[w] EXCEPT !.pc = "reconcile"]
        OBVIOUS
    <2>3. /\ rec \in WorkerRecord /\ rec.task = worker[w].task /\ rec.attempt = worker[w].attempt
          /\ rec.pc = "reconcile" /\ worker' = [worker EXCEPT ![w] = rec]
        BY <1>1, <1>3, <2>2 DEF WorkerRecord, Moves, CoreInv, CoreTypeOK
    <2>4. ClaimOK(rec)'
        BY <2>3 DEF ClaimOK, Holding
    <2> QED BY <1>1, <1>3, <2>1, <2>3, <2>4, SweptFacts, WorkerRowsStep
<1>4. CASE /\ status # "ready" /\ active
           /\ status' = IF \E t \in Task : Swept[t].status = "failed" THEN "degraded" ELSE status
           /\ Claimable(Swept) # {}
           /\ LET t == Min(Claimable(Swept))
                  row == [Swept[t] EXCEPT !.status = "running", !.attempt = @ + 1, !.lapsed = FALSE]
              IN /\ task' = [Swept EXCEPT ![t] = row]
                 /\ worker' = [worker EXCEPT ![w] =
                        [Idle EXCEPT !.pc = "claimed", !.task = t, !.attempt = row.attempt, !.vector = row.vector]]
    <2>1. status' \in RunStatuses /\ status' # "ready"
        BY <1>4, StatusOK DEF RunStatuses
    <2>2. Min(Claimable(Swept)) \in Claimable(Swept)
        BY <1>4, MinIsMember, ProjectionAssumption DEF Claimable
    <2>3. PICK t \in Task : /\ t = Min(Claimable(Swept)) /\ Swept[t].status \in {"pending", "retry_wait"}
                             /\ Swept[t].due /\ Swept[t].attempt < MaxAttempts
        BY <2>2 DEF Claimable
    <2>4. PICK row : row = [Swept[t] EXCEPT !.status = "running", !.attempt = @ + 1, !.lapsed = FALSE]
        OBVIOUS
    <2>5. /\ task' = [Swept EXCEPT ![t] = row]
          /\ worker' = [worker EXCEPT ![w] =
                 [Idle EXCEPT !.pc = "claimed", !.task = t, !.attempt = row.attempt, !.vector = row.vector]]
        BY <1>4, <2>3, <2>4
    <2>6. RowOK(Swept[t]) /\ Follows(t, Swept[t]) /\ Swept[t].attempt = task[t].attempt /\ task[t].attempt \in Nat
        BY SweptFacts, Numbers DEF CoreInv
    <2>7. /\ row.status = "running" /\ row.attempt = Swept[t].attempt + 1 /\ row.vector = Swept[t].vector
          /\ ~row.lapsed /\ row.due
        BY <2>3, <2>4, <2>6 DEF RowOK, TaskRecord
    <2>8. Swept[t].attempt + 1 \in 0..MaxAttempts
        BY <2>3, <2>6, Constants
    <2>9. row \in TaskRecord
        BY <2>4, <2>6, <2>8 DEF RowOK, TaskRecord
    <2>10. RowOK(row)
        BY <2>7, <2>9 DEF RowOK
    <2>11. Follows(t, row)
        BY <2>6, <2>7 DEF Follows
    <2>12. task'[t] = row /\ \A u \in Task \ {t} : task'[u] = Swept[u]
        BY <2>5, SweptFacts
    <2>13. \A u \in Task : RowOK(task'[u]) /\ Follows(u, task'[u])
        BY <2>10, <2>11, <2>12, SweptFacts
    <2>14. task' = [u \in Task |-> task'[u]]
        BY <2>5, SweptFacts
    <2>15. PICK rec : rec = [Idle EXCEPT !.pc = "claimed", !.task = t, !.attempt = row.attempt, !.vector = row.vector]
        OBVIOUS
    <2>16. rec \in WorkerRecord /\ rec.pc = "claimed" /\ rec.task = t /\ rec.attempt = row.attempt
        BY <2>9, <2>15 DEF TaskRecord, WorkerRecord, Idle
    <2>17. ClaimOK(rec)'
        BY <2>6, <2>7, <2>16 DEF ClaimOK, Holding
    <2>18. rec.attempt > task[t].attempt /\ rec.attempt <= task'[t].attempt
        BY <2>6, <2>7, <2>12, <2>16
    <2> QED BY <1>1, <2>1, <2>5, <2>13, <2>14, <2>15, <2>16, <2>17, <2>18, WorkerRowsStep
<1> QED BY <1>2, <1>3, <1>4 DEF Claim

LEMMA PublishStep == ASSUME CoreInv, NEW w \in Worker, Publish(w) PROVE CoreInv'
<1> DEFINE Repaired(t) == t \in worker[w].missing /\ task[t].status = "ready"
           to(t) == Again(t, "retry_wait")
<1>1. CASE status = "blocked"
    BY <1>1, StopsStep, StatusOK DEF Publish
<1>2. CASE status # "blocked" /\ ~active
    <2>1. PICK rec : rec = [Idle EXCEPT !.pc = "erring", !.fault = "blocking"]
        OBVIOUS
    <2>2. rec \in WorkerRecord /\ rec.task = None /\ rec.pc = "erring"
        <3>1. Idle \in WorkerRecord /\ Idle.task = None
            BY Constants DEF WorkerRecord, Idle
        <3> QED BY <2>1, <3>1 DEF WorkerRecord
    <2>3. ClaimOK(rec) /\ rec.task \notin Task
        BY <2>2, Constants DEF ClaimOK, Holding
    <2> QED BY <1>2, <2>1, <2>2, <2>3, WorkerStep, StatusOK DEF Publish
<1>3. CASE status # "blocked" /\ active
    <2>1. /\ task' = [t \in Task |->
                  IF Repaired(t) THEN [task[t] EXCEPT !.status = to(t), !.due = (to(t) # "retry_wait")] ELSE task[t]]
          /\ status' = IF AllReady /\ worker[w].missing = {} THEN "ready" ELSE "degraded"
          /\ worker' = [worker EXCEPT ![w] = Idle] /\ UNCHANGED <<active, point, lost>>
        BY <1>3 DEF Publish, Stops
    <2>2. Idle \in WorkerRecord /\ Idle.task \notin Task /\ ClaimOK(Idle)'
        BY Constants DEF WorkerRecord, Idle, ClaimOK, Holding
    <2>3. ASSUME NEW t \in Task PROVE RowOK(task'[t]) /\ Follows(t, task'[t])
        <3>1. RowOK(task[t]) /\ Follows(t, task[t])
            BY RowFacts
        <3>2. CASE ~Repaired(t)
            BY <2>1, <3>1, <3>2
        <3>3. CASE Repaired(t)
            <4>1. task'[t] = [task[t] EXCEPT !.status = to(t), !.due = (to(t) # "retry_wait")]
                BY <2>1, <3>3
            <4>2. to(t) \in {"retry_wait", "failed"} /\ (to(t) = "retry_wait" => task[t].attempt < MaxAttempts)
                BY DEF Again
            <4>3. to(t) = "failed" => task[t].attempt = MaxAttempts
                BY <3>1, Constants DEF Again, RowOK, TaskRecord
            <4> HIDE DEF to
            <4>4. task'[t] \in TaskRecord
                BY <3>1, <4>1, <4>2 DEF RowOK, TaskRecord
            <4>5. /\ task'[t].status = to(t) /\ ~task'[t].lapsed /\ task'[t].attempt = task[t].attempt
                  /\ task'[t].vector = task[t].vector
                BY <3>1, <3>3, <4>1 DEF RowOK, TaskRecord
            <4>6. ~task'[t].due => to(t) = "retry_wait"
                BY <3>1, <4>1 DEF RowOK, TaskRecord
            <4>7. RowOK(task'[t])
                BY <4>2, <4>3, <4>4, <4>5, <4>6 DEF RowOK
            <4> QED BY <3>1, <4>2, <4>5, <4>7 DEF Follows
        <3> QED BY <3>2, <3>3
    <2>4. task' = [t \in Task |-> task'[t]]
        BY <2>1
    <2>5. status' = "ready" => \A t \in Task : task'[t].status = "ready"
        BY <2>1 DEF AllReady, HasStatus
    <2> QED BY <2>1, <2>2, <2>3, <2>4, <2>5, WorkerRowsStep DEF RunStatuses
<1> QED BY <1>1, <1>2, <1>3

LEMMA UnblockStep == ASSUME CoreInv, Unblock PROVE CoreInv'
<1> DEFINE to(t) == Again(t, "pending")
<1>1. /\ task' = [t \in Task |-> IF task[t].status = "blocked" THEN [task[t] EXCEPT !.status = to(t)] ELSE task[t]]
      /\ status' = IF status = "blocked" THEN "building" ELSE status
      /\ UNCHANGED <<active, point, lost, worker>>
    BY DEF Unblock
<1>2. ASSUME NEW t \in Task PROVE RowOK(task'[t]) /\ Follows(t, task'[t])
    <2>1. RowOK(task[t]) /\ Follows(t, task[t])
        BY RowFacts
    <2>2. CASE task[t].status # "blocked"
        BY <1>1, <2>1, <2>2
    <2>3. CASE task[t].status = "blocked"
        <3>1. task'[t] = [task[t] EXCEPT !.status = to(t)]
            BY <1>1, <2>3
        <3>2. to(t) \in {"pending", "failed"} /\ (to(t) = "pending" => task[t].attempt < MaxAttempts)
            BY DEF Again
        <3>3. to(t) = "failed" => task[t].attempt = MaxAttempts
            BY <2>1, Constants DEF Again, RowOK, TaskRecord
        <3> HIDE DEF to
        <3>4. task'[t] \in TaskRecord
            BY <2>1, <3>1, <3>2 DEF RowOK, TaskRecord
        <3>5. /\ task'[t].status = to(t) /\ ~task'[t].lapsed /\ task'[t].due /\ task'[t].attempt = task[t].attempt
              /\ task'[t].vector = task[t].vector
            BY <2>1, <2>3, <3>1 DEF RowOK, TaskRecord
        <3>6. RowOK(task'[t])
            BY <3>2, <3>3, <3>4, <3>5 DEF RowOK
        <3> QED BY <2>1, <3>2, <3>5, <3>6 DEF Follows
    <2> QED BY <2>2, <2>3
<1>3. task' = [t \in Task |-> task'[t]]
    BY <1>1
<1>4. status' = "ready" => \A t \in Task : task'[t].status = "ready"
    BY <1>1 DEF CoreInv, ReadyInv
<1> QED BY <1>1, <1>2, <1>3, <1>4, RowsAloneStep, StatusOK DEF RunStatuses

LEMMA LeaseLapsesStep == ASSUME CoreInv, NEW t \in Task, LeaseLapses(t) PROVE CoreInv'
<1>1. RowOK(task[t]) /\ \A u \in Task : RowOK(task[u]) /\ Follows(u, task[u])
    BY RowFacts
<1>2. task'[t] = [task[t] EXCEPT !.lapsed = TRUE] /\ \A u \in Task \ {t} : task'[u] = task[u]
    BY DEF LeaseLapses, CoreInv, CoreTypeOK
<1>3. RowOK(task'[t])
    <2>1. task'[t] \in TaskRecord
        BY <1>1, <1>2 DEF RowOK, TaskRecord
    <2>2. task'[t].status = task[t].status /\ task'[t].attempt = task[t].attempt /\ task'[t].due = task[t].due
        BY <1>1, <1>2 DEF RowOK, TaskRecord
    <2> QED BY <1>1, <2>1, <2>2 DEF LeaseLapses, RowOK
<1>4. Follows(t, task'[t])
    BY <1>1, <1>2 DEF LeaseLapses, RowOK, TaskRecord, Follows
<1>5. task' = [u \in Task |-> task'[u]]
    BY DEF LeaseLapses, CoreInv, CoreTypeOK
<1>6. status' = "ready" => \A u \in Task : task'[u].status = "ready"
    BY DEF LeaseLapses, CoreInv, ReadyInv
<1> QED BY <1>1, <1>2, <1>3, <1>4, <1>5, <1>6, RowsAloneStep, StatusOK DEF LeaseLapses

LEMMA BecomesDueStep == ASSUME CoreInv, NEW t \in Task, BecomesDue(t) PROVE CoreInv'
<1>1. RowOK(task[t]) /\ \A u \in Task : RowOK(task[u]) /\ Follows(u, task[u])
    BY RowFacts
<1>2. task'[t] = [task[t] EXCEPT !.due = TRUE] /\ \A u \in Task \ {t} : task'[u] = task[u]
    BY DEF BecomesDue, CoreInv, CoreTypeOK
<1>3. RowOK(task'[t])
    BY <1>1, <1>2 DEF RowOK, TaskRecord
<1>4. Follows(t, task'[t])
    BY <1>1, <1>2 DEF RowOK, TaskRecord, Follows
<1>5. task' = [u \in Task |-> task'[u]]
    BY DEF BecomesDue, CoreInv, CoreTypeOK
<1>6. status' = "ready" => \A u \in Task : task'[u].status = "ready"
    BY <1>1 DEF BecomesDue, CoreInv, ReadyInv, RowOK
<1> QED BY <1>1, <1>2, <1>3, <1>4, <1>5, <1>6, RowsAloneStep, StatusOK DEF BecomesDue

LEMMA LoseStep == ASSUME CoreInv, NEW t \in Task, Lose(t) PROVE CoreInv'
<1>1. CoreTypeOK'
    BY DEF Lose, CoreInv, CoreTypeOK
<1>2. \A u \in Task : point[u] # None \/ u \in lost => point'[u] # None \/ u \in lost'
    BY DEF Lose, CoreInv, CoreTypeOK
<1>3. RowsGrow
    BY <1>2, Numbers DEF RowsGrow, CoreInv, Lose
<1>4. ClaimInv' /\ TokenInv'
    BY <1>1, <1>3, ClaimsStay DEF CoreInv, Lose
<1>5. PointsAreCached'
    BY DEF Lose, CoreInv, CoreTypeOK, PointsAreCached
<1> QED BY <1>1, <1>2, <1>4, <1>5 DEF CoreInv, BudgetIsExact, ReadyInv, Lose

LEMMA SupersedeStep == ASSUME CoreInv, Supersede PROVE CoreInv'
<1>1. CoreTypeOK'
    BY DEF Supersede, CoreInv, CoreTypeOK
<1>2. RowsGrow
    BY Numbers DEF RowsGrow, CoreInv, Supersede
<1>3. ClaimInv' /\ TokenInv'
    BY <1>1, <1>2, ClaimsStay DEF CoreInv, Supersede
<1> QED BY <1>1, <1>3 DEF CoreInv, BudgetIsExact, PointsAreCached, ReadyInv, Supersede

-----------------------------------------------------------------------------
LEMMA CoreBegins == Init => CoreInv
<1> SUFFICES ASSUME Init PROVE CoreInv
    OBVIOUS
<1>1. CoreTypeOK
    BY Constants DEF Init, CoreTypeOK, Idle
<1>2. ClaimInv /\ TokenInv
    BY Constants DEF Init, ClaimInv, ClaimOK, TokenInv, Holding, Idle
<1> QED BY <1>1, <1>2, Constants DEF Init, CoreInv, BudgetIsExact, PointsAreCached, ReadyInv

LEMMA CoreStep == CoreInv /\ [Next]_vars => CoreInv'
<1> SUFFICES ASSUME CoreInv, [Next]_vars PROVE CoreInv'
    OBVIOUS
<1>1. ASSUME NEW w \in Worker, Work(w) \/ Crash(w) PROVE CoreInv'
    BY <1>1, ClaimStep, BlockInactiveStep, DocumentStep, EmbedStep, CacheVectorStep, UpsertStep, CompleteStep,
       FailStep, ReconcileStep, InspectStep, PublishStep, SetRunStateStep, CrashStep DEF Work
<1>2. ASSUME NEW t \in Task, Lose(t) \/ LeaseLapses(t) \/ BecomesDue(t) PROVE CoreInv'
    BY <1>2, LoseStep, LeaseLapsesStep, BecomesDueStep
<1>3. CASE Unblock \/ Supersede
    BY <1>3, UnblockStep, SupersedeStep
<1>4. CASE UNCHANGED vars
    BY <1>4 DEF vars, CoreInv, CoreTypeOK, BudgetIsExact, PointsAreCached, ClaimInv, ClaimOK, TokenInv, ReadyInv, Holding
<1> QED BY <1>1, <1>2, <1>3, <1>4 DEF Next

(* A worker writes the vector it has cached.                               *)
LEMMA PointsStep ==
    ASSUME CoreInv, [Next]_vars, NEW t \in Task
    PROVE  point'[t] \in {point[t], None} \cup 1..MaxAttempts
<1>1. ASSUME NEW w \in Worker, Upsert(w) PROVE point'[t] \in {point[t], None} \cup 1..MaxAttempts
    <2>1. worker[w] \in WorkerRecord /\ ClaimOK(worker[w])
        BY Numbers DEF CoreInv, ClaimInv
    <2>2. worker[w].vector \in 1..MaxAttempts
        BY <1>1, <2>1, Constants DEF Upsert, ClaimOK, Holding, WorkerRecord, CoreInv, PointsAreCached
    <2> QED BY <1>1, <2>2 DEF Upsert, CoreInv, CoreTypeOK
<1>2. ASSUME NEW u \in Task, Lose(u) PROVE point'[t] \in {point[t], None}
    BY <1>2 DEF Lose, CoreInv, CoreTypeOK
<1>3. ASSUME NEW w \in Worker, \/ Claim(w) \/ BlockInactive(w) \/ Document(w) \/ Embed(w) \/ CacheVector(w) \/ Complete(w)
                               \/ Fail(w) \/ Reconcile(w) \/ Inspect(w) \/ Publish(w) \/ SetRunState(w) \/ Crash(w)
      PROVE  UNCHANGED point
    BY <1>3 DEF Claim, BlockInactive, Document, Embed, CacheVector, Complete, Fail, Reconcile, Inspect, Publish, SetRunState, Crash
<1>4. CASE UNCHANGED point
    BY <1>4
<1> QED BY <1>1, <1>2, <1>3, <1>4 DEF Next, Work, LeaseLapses, BecomesDue, Unblock, Supersede, vars

(* Where no publisher is at work every point is a worker's.                *)
IInv == CoreInv /\ \A t \in Task : point[t] # 0

LEMMA Begins == Init => IInv
BY CoreBegins, Constants DEF Init, IInv

LEMMA Step == IInv /\ [Next]_vars => IInv'
BY CoreStep, PointsStep, Constants DEF IInv

(* What a worker relies on between two of its transactions holds in every  *)
(* state, whoever else claims, lapses, crashes or supersedes (queue.py).   *)
THEOREM InvariantHolds == Spec => []IInv
BY Begins, Step, PTL DEF Spec

(* Tasks, cache and index agree between any two transactions: a point is   *)
(* the vector that is cached for its task, however late a write of an      *)
(* owner without its lease arrives; a run is ready only while every task   *)
(* is and the index was given every point; and the budget of attempts is   *)
(* neither exceeded nor left over by a task that is given up (queue.py,    *)
(* worker.py).                                                             *)
THEOREM ProjectionsAgree == Spec => []ProjectionAgrees
<1>1. ASSUME IInv PROVE ProjectionAgrees
    <2>1. TypeOK
        BY <1>1, Constants DEF IInv, CoreInv, CoreTypeOK, TypeOK
    <2>2. PointsHoldTheCachedVector
        BY <1>1 DEF IInv, CoreInv, PointsAreCached, PointsHoldTheCachedVector
    <2> QED BY <1>1, <2>1, <2>2 DEF IInv, CoreInv, ProjectionAgrees, ReadyRunIsComplete, ReadyInv
<1> QED BY <1>1, InvariantHolds, PTL

-----------------------------------------------------------------------------
(* Whoever moves a task whose lease runs is the worker with its token.     *)
MovedByOwner ==
    \A t \in Task, w \in Worker :
        /\ worker[w].task = t /\ worker[w].attempt = task[t].attempt
        /\ task[t].status = "running" /\ ~task[t].lapsed
        /\ task'[t] # task[t] /\ ~task'[t].lapsed
        => worker'[w] # worker[w]

(* The worker that owns the task it moves is the only one with its token,  *)
(* and goes on to another place.                                           *)
LEMMA OwnerMoves ==
    ASSUME CoreInv, NEW v \in Worker, Owns(v), worker[v].task \in Task, worker'[v] # worker[v],
           \A u \in Task \ {worker[v].task} : task'[u] = task[u]
    PROVE  MovedByOwner
<1>1. \A w \in Worker : worker[w].task = worker[v].task /\ worker[w].attempt = task[worker[v].task].attempt => w = v
    BY DEF CoreInv, TokenInv, Owns
<1> QED BY <1>1 DEF MovedByOwner

LEMMA LeaseStep == CoreInv /\ [Next]_vars => MovedByOwner
<1> SUFFICES ASSUME CoreInv, [Next]_vars PROVE MovedByOwner
    OBVIOUS
<1>1. ASSUME NEW w \in Worker, Claim(w) PROVE MovedByOwner
    <2>1. \A t \in Task : task[t].status = "running" /\ ~task[t].lapsed => Swept[t] = task[t] /\ t \notin Claimable(Swept)
        BY SweptFacts DEF Claimable
    <2>2. CASE task' = task
        BY <2>2 DEF MovedByOwner
    <2>3. CASE task' = Swept
        BY <2>1, <2>3 DEF MovedByOwner
    <2>4. CASE /\ Claimable(Swept) # {}
               /\ \E row : task' = [Swept EXCEPT ![Min(Claimable(Swept))] = row]
        <3>1. Min(Claimable(Swept)) \in Claimable(Swept)
            BY <2>4, MinIsMember, ProjectionAssumption DEF Claimable
        <3>2. \A t \in Task : task[t].status = "running" /\ ~task[t].lapsed => task'[t] = task[t]
            BY <2>1, <2>4, <3>1, SweptFacts
        <3> QED BY <3>2 DEF MovedByOwner
    <2> QED BY <1>1, <2>2, <2>3, <2>4 DEF Claim
<1>2. ASSUME NEW w \in Worker, CacheVector(w) \/ Complete(w) \/ Fail(w) PROVE MovedByOwner
    <2>1. worker[w] \in WorkerRecord /\ worker[w].task \in Task
        BY <1>2, Numbers DEF CoreInv, ClaimInv, ClaimOK, Holding, CacheVector, Complete, Fail
    <2>2. CASE ~Owns(w)
        BY <1>2, <2>2 DEF MovedByOwner, CacheVector, Complete, Fail
    <2>3. CASE Owns(w)
        <3>1. \A u \in Task \ {worker[w].task} : task'[u] = task[u]
            BY <1>2, <2>1, <2>3 DEF CacheVector, Complete, Fail, CoreInv, CoreTypeOK
        <3>2. worker'[w].pc # worker[w].pc
            BY <1>2, <2>1, <2>3 DEF CacheVector, Complete, Fail, Stops, Idle, CoreInv, CoreTypeOK
        <3> QED BY <2>1, <2>3, <3>1, <3>2, OwnerMoves
    <2> QED BY <2>2, <2>3
<1>3. ASSUME NEW w \in Worker, Publish(w) PROVE MovedByOwner
    BY <1>3 DEF MovedByOwner, Publish
<1>4. ASSUME NEW t \in Task, LeaseLapses(t) \/ BecomesDue(t) PROVE MovedByOwner
    <2>1. \A u \in Task \ {t} : task'[u] = task[u]
        BY <1>4 DEF LeaseLapses, BecomesDue, CoreInv, CoreTypeOK
    <2>2. task'[t].lapsed \/ task[t].status # "running"
        BY <1>4, RowFacts DEF LeaseLapses, BecomesDue, CoreInv, CoreTypeOK, RowOK
    <2> QED BY <2>1, <2>2 DEF MovedByOwner
<1>5. CASE Unblock
    BY <1>5 DEF MovedByOwner, Unblock
<1>6. CASE UNCHANGED task
    BY <1>6 DEF MovedByOwner
<1>7. ASSUME NEW w \in Worker, \/ BlockInactive(w) \/ Document(w) \/ Embed(w) \/ Upsert(w) \/ Reconcile(w)
                               \/ Inspect(w) \/ SetRunState(w) \/ Crash(w)
      PROVE  UNCHANGED task
    BY <1>7 DEF BlockInactive, Document, Embed, Upsert, Reconcile, Inspect, SetRunState, Crash
<1> QED BY <1>1, <1>2, <1>3, <1>4, <1>5, <1>6, <1>7 DEF Next, Work, Lose, Supersede, vars

(* While a lease runs nobody but its owner moves the task: not an earlier  *)
(* owner, not the sweep of another claim, not the reconciliation and not   *)
(* the operator (_owned, queue.py).                                        *)
THEOREM LeasesProtect == Spec => LeaseProtects
<1>1. IInv /\ [Next]_vars => [MovedByOwner]_vars
    BY LeaseStep DEF IInv
<1>2. [][MovedByOwner]_vars => LeaseProtects
    BY PTL DEF LeaseProtects, MovedByOwner
<1> QED BY <1>1, <1>2, InvariantHolds, PTL DEF Spec

-----------------------------------------------------------------------------
(* The projection as a search and a publisher without leases meet it       *)
(* (VectorSearch).                                                         *)

(* A vector that is cached stays, and a point that was in the index is     *)
(* there or was lost, and nothing else is called lost.                     *)
LEMMA ProjectStep ==
    ASSUME CoreInv, [Next]_vars, NEW t \in Task
    PROVE  /\ task[t].vector # 0 => task'[t].vector = task[t].vector
           /\ point[t] # None \/ t \in lost => point'[t] # None \/ t \in lost'
           /\ point'[t] # None => point[t] # None \/ point' # point
           /\ t \in lost' => t \in lost \/ point[t] # None
<1>1. CASE UNCHANGED <<task, point, lost>>
    BY <1>1
<1>2. ASSUME NEW w \in Worker, Claim(w) PROVE UNCHANGED <<point, lost>> /\ task'[t].vector = task[t].vector
    <2>0. UNCHANGED <<point, lost>>
        BY <1>2 DEF Claim
    <2>1. Swept[t].vector = task[t].vector /\ Swept[t] \in TaskRecord
        <3>1. task[t] \in TaskRecord
            BY Numbers DEF CoreInv
        <3>2. Swept[t] \in TaskRecord
            BY SweptFacts DEF RowOK
        <3>3. Swept[t].vector = task[t].vector
            <4>1. CASE task[t].lapsed
                BY <3>1, <4>1 DEF Swept, TaskRecord
            <4>2. CASE ~task[t].lapsed
                BY <4>2, SweptFacts
            <4> QED BY <4>1, <4>2
        <3> QED BY <3>2, <3>3
    <2>2. CASE task' = task \/ task' = Swept
        BY <1>2, <2>1, <2>2 DEF Claim
    <2>3. ASSUME NEW u, NEW row, task' = [Swept EXCEPT ![u] = row], row.vector = Swept[u].vector
          PROVE  task'[t].vector = task[t].vector
        BY <2>1, <2>3, SweptFacts
    <2>4. CASE LET u == Min(Claimable(Swept))
                   row == [Swept[u] EXCEPT !.status = "running", !.attempt = @ + 1, !.lapsed = FALSE]
               IN Claimable(Swept) # {} /\ task' = [Swept EXCEPT ![u] = row]
        <3> DEFINE u == Min(Claimable(Swept))
                   row == [Swept[u] EXCEPT !.status = "running", !.attempt = @ + 1, !.lapsed = FALSE]
        <3>1. u \in Task
            BY <2>4, MinIsMember, ProjectionAssumption DEF Claimable
        <3>2. row.vector = Swept[u].vector
            BY <3>1, SweptFacts DEF RowOK, TaskRecord
        <3>3. task' = [Swept EXCEPT ![u] = row]
            BY <2>4
        <3> HIDE DEF u, row
        <3> QED BY <2>0, <2>3, <3>2, <3>3
    <2> QED BY <1>2, <2>2, <2>4 DEF Claim
<1>3. ASSUME NEW w \in Worker, CacheVector(w) \/ Complete(w) \/ Fail(w) \/ Publish(w)
      PROVE  UNCHANGED <<point, lost>> /\ (task[t].vector # 0 => task'[t].vector = task[t].vector)
    <2>1. UNCHANGED <<point, lost>> /\ task[t] \in TaskRecord /\ task \in [Task -> TaskRecord]
        <3>1. UNCHANGED <<point, lost>>
            BY <1>3 DEF CacheVector, Complete, Fail, Publish
        <3> QED BY <3>1, Numbers DEF CoreInv, CoreTypeOK, TaskRecord
    <2>2. CASE CacheVector(w)
        <3>1. \/ task' = task
              \/ task' = [task EXCEPT ![worker[w].task].vector =
                                IF task[worker[w].task].vector = 0 THEN worker[w].vector ELSE task[worker[w].task].vector]
            BY <2>2 DEF CacheVector
        <3> QED BY <2>1, <3>1 DEF TaskRecord
    <2>3. CASE Complete(w)
        BY <2>1, <2>3 DEF Complete, TaskRecord
    <2>4. CASE Fail(w)
        BY <2>1, <2>4 DEF Fail, TaskRecord
    <2>5. CASE Publish(w)
        <3> DEFINE to == Again(t, "retry_wait")
        <3>1. task' = task \/ task'[t] = task[t] \/ task'[t] = [task[t] EXCEPT !.status = to, !.due = (to # "retry_wait")]
            BY <2>5 DEF Publish
        <3> HIDE DEF to
        <3> QED BY <2>1, <3>1 DEF TaskRecord
    <2> QED BY <1>3, <2>1, <2>2, <2>3, <2>4, <2>5
<1>4. CASE Unblock \/ \E u \in Task : LeaseLapses(u) \/ BecomesDue(u)
    BY <1>4, Numbers DEF Unblock, LeaseLapses, BecomesDue, CoreInv, CoreTypeOK
<1>5. ASSUME NEW w \in Worker, Upsert(w)
      PROVE  UNCHANGED task /\ (point[t] # None \/ t \in lost => point'[t] # None \/ t \in lost') /\ lost' \subseteq lost
    <2>1. worker[w] \in WorkerRecord /\ ClaimOK(worker[w])
        BY Numbers DEF CoreInv, ClaimInv
    <2>2. worker[w].vector # None
        BY <2>1, Constants DEF WorkerRecord
    <2> QED BY <1>5, <2>2 DEF Upsert, CoreInv, CoreTypeOK
<1>6. ASSUME NEW u \in Task, Lose(u)
      PROVE  /\ UNCHANGED task /\ (point[t] # None \/ t \in lost => point'[t] # None \/ t \in lost')
             /\ t \in lost' => t \in lost \/ point[t] # None
    BY <1>6 DEF Lose, CoreInv, CoreTypeOK
<1>7. ASSUME NEW w \in Worker, \/ BlockInactive(w) \/ Document(w) \/ Embed(w) \/ Reconcile(w)
                               \/ Inspect(w) \/ SetRunState(w) \/ Crash(w)
      PROVE  UNCHANGED <<task, point, lost>>
    BY <1>7 DEF BlockInactive, Document, Embed, Reconcile, Inspect, SetRunState, Crash
<1> QED BY <1>1, <1>2, <1>3, <1>4, <1>5, <1>6, <1>7 DEF Next, Work, Supersede, vars

SearchRow == [task : Task, vector : 0..MaxAttempts]

SearchTypeOK ==
    /\ mode \in {"none", "worker", "diagnostic"} /\ created \subseteq Task /\ channel \in {"none", "building", "ready"}
    /\ publisher \in [pc : {"idle", "creating", "writing", "reporting", "setting", "marking", "channel"}, left : SUBSET Task]
    /\ collection \in {"fits", "differs"}
    /\ search \in [pc : {"idle", "asked", "found", "verified"}, rows : SUBSET SearchRow, strange : BOOLEAN]

(* Who has made the run decides what may become of its tasks: a publisher  *)
(* touches only those that have no run, and has reported that it wrote all *)
(* of them before it makes one ready.                                      *)
PublishInv ==
    /\ mode # "worker" => \A t \in Task : ~task[t].lapsed /\ task[t].due /\ task[t].status \in {"pending", "ready"}
    /\ mode = "none" => status = "building"
    /\ mode = "worker" => created = {}
    /\ mode = "diagnostic" => created = Task /\ status = "ready"
    /\ publisher.pc \in {"setting", "marking", "channel"} => \A t \in Task : point[t] # None \/ t \in lost
    /\ publisher.pc = "channel" \/ channel = "ready" => mode = "diagnostic"

(* An index of another schema holds nothing of the projection.             *)
FitInv == collection = "differs" => search = NoSearch /\ \A t \in Task : point[t] = None /\ t \notin lost

(* A row that was found has the vector its task has had since then.        *)
RowsInv == \A row \in search.rows : row.vector \in {0, task[row.task].vector}

SearchInv == CoreInv /\ SearchTypeOK /\ PublishInv /\ FitInv /\ RowsInv

LEMMA SearchBegins == ASSUME SearchInit PROVE SearchInv
<1>1. CoreInv
    BY CoreBegins DEF SearchInit
<1> QED BY <1>1 DEF SearchInit, Init, SearchInv, SearchTypeOK, PublishInv, FitInv, RowsInv, NoSearch, Ended

(* A ready run has a task, which is ready and was written.                 *)
LEMMA ReadyFits == ASSUME SearchInv PROVE status = "ready" => collection # "differs"
<1>1. PICK t \in Task : TRUE
    BY ProjectionAssumption
<1> QED BY <1>1 DEF SearchInv, CoreInv, ReadyInv, FitInv

-----------------------------------------------------------------------------
LEMMA SearchStays == ASSUME SearchInv, UNCHANGED <<vars, searchVars>> PROVE SearchInv'
<1>1. CoreInv'
    BY CoreStep DEF SearchInv, vars
<1> QED BY <1>1 DEF SearchInv, SearchTypeOK, PublishInv, FitInv, RowsInv, NoSearch, vars, searchVars

LEMMA ProjectSearch == ASSUME SearchInv, Project PROVE SearchInv'
<1>1. [Next]_vars /\ UNCHANGED searchVars
    BY DEF Project, Next
<1>2. CoreInv'
    BY <1>1, CoreStep DEF SearchInv
<1>3. CASE mode = "worker"
    <2>1. PublishInv'
        BY <1>1, <1>3, ProjectStep DEF SearchInv, PublishInv, searchVars
    <2>2. RowsInv'
        BY <1>1, ProjectStep DEF SearchInv, SearchTypeOK, SearchRow, RowsInv, searchVars
    <2>3. ASSUME collection = "differs" PROVE point' = point
        <3>1. \A t \in Task : ~Lose(t)
            BY <2>3 DEF SearchInv, FitInv, Lose
        <3>2. ASSUME NEW w \in Worker, Crash(w) PROVE point' = point
            BY <3>2 DEF Crash
        <3> QED BY <2>3, <3>1, <3>2 DEF Project, IndexRefuses, LeaseLapses, BecomesDue, Unblock, Supersede
    <2>4. FitInv'
        BY <1>1, <2>3, ProjectStep DEF SearchInv, FitInv, NoSearch, searchVars
    <2> QED BY <1>1, <1>2, <2>1, <2>2, <2>4 DEF SearchInv, SearchTypeOK, searchVars
<1>4. CASE mode # "worker"
    <2>1. UNCHANGED <<status, task, searchVars>>
        BY <1>1, <1>4 DEF Project, Supersede, Lose
    <2>2. collection = "differs" => UNCHANGED <<point, lost>>
        BY <1>4 DEF Project, Supersede, Lose, SearchInv, FitInv
    <2>3. PublishInv'
        BY <1>1, <1>4, <2>1, ProjectStep DEF SearchInv, PublishInv, searchVars
    <2> QED BY <1>2, <2>1, <2>2, <2>3 DEF SearchInv, SearchTypeOK, FitInv, RowsInv, NoSearch, searchVars
<1> QED BY <1>3, <1>4

LEMMA EnqueueSearch == ASSUME SearchInv, Enqueue PROVE SearchInv'
<1>1. CoreInv'
    BY CoreStep DEF SearchInv, Enqueue
<1> QED BY <1>1 DEF Enqueue, vars, SearchInv, SearchTypeOK, PublishInv, FitInv, RowsInv, NoSearch

(* The publisher's steps that leave the tables of the projection alone.    *)
LEMMA PublisherMoves ==
    ASSUME SearchInv, UNCHANGED <<vars, collection, search>>,
           \/ Begin \/ Report \/ SetChannelStatus \/ PublisherEnds \/ \E t \in Task : CreateTask(t)
    PROVE  SearchInv'
<1>1. CoreInv'
    BY CoreStep DEF SearchInv
<1>2. FitInv' /\ RowsInv'
    BY DEF SearchInv, FitInv, RowsInv, NoSearch, vars
<1>3. CASE Begin
    BY <1>1, <1>2, <1>3 DEF SearchInv, SearchTypeOK, PublishInv, Begin, Publishing, vars
<1>4. CASE Report
    BY <1>1, <1>2, <1>4 DEF SearchInv, SearchTypeOK, PublishInv, Report, Publishing, vars
<1>5. CASE SetChannelStatus
    BY <1>1, <1>2, <1>5 DEF SearchInv, SearchTypeOK, PublishInv, SetChannelStatus, Publishing, Ended, vars
<1>6. CASE PublisherEnds
    BY <1>1, <1>2, <1>6 DEF SearchInv, SearchTypeOK, PublishInv, PublisherEnds, Ended, vars
<1>7. ASSUME NEW t \in Task, CreateTask(t) PROVE SearchInv'
    <2>1. created' \in {created, created \cup {t}} /\ (mode = "worker" => created' = created) /\ UNCHANGED <<mode, channel>>
        BY <1>7 DEF CreateTask, Publishing
    <2>2. publisher'.pc \in {"creating", "writing"} /\ publisher' \in [pc : {"creating", "writing"}, left : SUBSET Task]
        <3>1. publisher' = [publisher EXCEPT !.left = @ \ {t}, !.pc = IF publisher.left = {t} THEN "writing" ELSE @]
              /\ publisher.pc = "creating"
            BY <1>7 DEF CreateTask, Publishing
        <3> QED BY <3>1 DEF SearchInv, SearchTypeOK
    <2>3. SearchTypeOK'
        BY <2>1, <2>2 DEF SearchInv, SearchTypeOK
    <2>4. PublishInv'
        BY ZenonT(60), <2>1, <2>2 DEF SearchInv, SearchTypeOK, PublishInv, vars
    <2> QED BY <1>1, <1>2, <2>3, <2>4 DEF SearchInv
<1> QED BY <1>3, <1>4, <1>5, <1>6, <1>7

LEMMA WritePointsSearch == ASSUME SearchInv, WritePoints PROVE SearchInv'
<1>1. CoreTypeOK'
    <2>1. point' \in [Task -> 0..MaxAttempts \cup {None}] /\ lost' \subseteq Task
        BY Constants DEF WritePoints
    <2> QED BY <2>1 DEF WritePoints, SearchInv, CoreInv, CoreTypeOK
<1>2. RowsGrow
    BY Constants, Numbers DEF WritePoints, RowsGrow, SearchInv, CoreInv
<1>3. ClaimInv' /\ TokenInv'
    BY <1>1, <1>2, ClaimsStay DEF WritePoints, SearchInv, CoreInv
<1>4. CoreInv'
    BY <1>1, <1>3, Constants DEF WritePoints, SearchInv, CoreInv, BudgetIsExact, PointsAreCached, ReadyInv
<1>5. publisher' \in [pc : {"reporting"}, left : SUBSET Task]
    BY DEF WritePoints, SearchInv, SearchTypeOK
<1>6. SearchTypeOK' /\ PublishInv'
    BY <1>5 DEF WritePoints, SearchInv, SearchTypeOK, PublishInv
<1> QED BY <1>4, <1>6 DEF WritePoints, SearchInv, FitInv, RowsInv

LEMMA SetTaskStatusSearch == ASSUME SearchInv, NEW t \in Task, SetTaskStatus(t) PROVE SearchInv'
<1>1. CASE ~Unmanaged(t)
    <2>1. UNCHANGED vars
        BY <1>1 DEF SetTaskStatus, Publishing, vars
    <2>2. CoreInv'
        BY <2>1, CoreStep DEF SearchInv
    <2> QED BY <1>1, <2>1, <2>2 DEF SetTaskStatus, Publishing, SearchInv, SearchTypeOK, PublishInv, FitInv, RowsInv, NoSearch,
                                  Ended, vars
<1>2. CASE Unmanaged(t)
    <2>1. /\ task' = [task EXCEPT ![t].status = "ready"] /\ mode # "worker"
          /\ UNCHANGED <<active, status, point, lost, worker, mode, created, channel, collection, search>>
          /\ publisher.pc = "setting"
        BY <1>2 DEF SetTaskStatus, Publishing, Unmanaged, SearchInv, PublishInv
    <2>2. RowOK(task[t]) /\ \A u \in Task : RowOK(task[u]) /\ Follows(u, task[u])
        BY RowFacts DEF SearchInv
    <2>3. task'[t] = [task[t] EXCEPT !.status = "ready"] /\ \A u \in Task \ {t} : task'[u] = task[u]
        BY <2>1 DEF SearchInv, CoreInv, CoreTypeOK
    <2>4. ~task[t].lapsed /\ task[t].due /\ (point[t] # None \/ t \in lost)
        BY <2>1 DEF SearchInv, PublishInv
    <2>5. RowOK(task'[t]) /\ Follows(t, task'[t]) /\ task'[t].vector = task[t].vector
          /\ ~task'[t].lapsed /\ task'[t].due /\ task'[t].status = "ready"
        BY <2>2, <2>3, <2>4 DEF RowOK, TaskRecord, Follows
    <2>6. task' = [u \in Task |-> task'[u]]
        BY <2>1 DEF SearchInv, CoreInv, CoreTypeOK
    <2>7. status' = "ready" => \A u \in Task : task'[u].status = "ready"
        BY <2>1, <2>3, <2>5 DEF SearchInv, CoreInv, ReadyInv
    <2>8. CoreInv'
        BY <2>1, <2>2, <2>3, <2>5, <2>6, <2>7, RowsAloneStep, StatusOK DEF SearchInv
    <2>9. publisher' \in [pc : {"setting", "marking"}, left : SUBSET Task]
        <3>1. publisher' = [publisher EXCEPT !.left = @ \ {t}, !.pc = IF publisher.left = {t} THEN "marking" ELSE @]
            BY <1>2 DEF SetTaskStatus
        <3> QED BY <2>1, <3>1 DEF SearchInv, SearchTypeOK
    <2>10. SearchTypeOK' /\ FitInv'
        BY <2>1, <2>9 DEF SearchInv, SearchTypeOK, FitInv, NoSearch
    <2>11. PublishInv'
        BY <2>1, <2>3, <2>5, <2>9 DEF SearchInv, PublishInv
    <2>12. RowsInv'
        BY <2>1, <2>3, <2>5 DEF SearchInv, SearchTypeOK, SearchRow, RowsInv
    <2> QED BY <2>8, <2>10, <2>11, <2>12 DEF SearchInv
<1> QED BY <1>1, <1>2

LEMMA MarkChannelReadySearch == ASSUME SearchInv, MarkChannelReady PROVE SearchInv'
<1>1. CASE MayMark
    <2>1. /\ \A t \in Task : task[t].status = "ready"
          /\ mode' = "diagnostic" /\ status' = "ready" /\ created' = Task
          /\ UNCHANGED <<active, task, point, lost, worker, created, channel, collection, search>>
        BY <1>1 DEF MarkChannelReady, MayMark, Publishing, Unmanaged, SearchInv, SearchTypeOK
    <2>2. task' = [t \in Task |-> task'[t]]
        BY <2>1 DEF SearchInv, CoreInv, CoreTypeOK
    <2>3. CoreInv'
        <3>1. \A t \in Task : RowOK(task[t]) /\ Follows(t, task[t])
            BY RowFacts DEF SearchInv
        <3>2. \A t \in Task : RowOK(task'[t]) /\ Follows(t, task'[t])
            BY <2>1, <3>1
        <3>3. status' \in RunStatuses /\ \A t \in Task : task'[t].status = "ready"
            BY <2>1 DEF RunStatuses
        <3> QED BY <2>1, <2>2, <3>2, <3>3, RowsAloneStep DEF SearchInv
    <2>4. publisher' \in [pc : {"channel"}, left : SUBSET Task] /\ publisher.pc = "marking"
        BY <1>1 DEF MarkChannelReady, Publishing, SearchInv, SearchTypeOK
    <2>5. mode # "worker"
        BY <1>1 DEF MayMark
    <2>6. SearchTypeOK'
        BY <2>1, <2>4 DEF SearchInv, SearchTypeOK
    <2>7. PublishInv'
        BY <2>1, <2>4, <2>5 DEF SearchInv, PublishInv
    <2>8. FitInv' /\ RowsInv'
        BY <2>1 DEF SearchInv, FitInv, RowsInv, NoSearch
    <2> QED BY <2>3, <2>6, <2>7, <2>8 DEF SearchInv
<1>2. CASE ~MayMark
    <2>1. UNCHANGED vars
        BY <1>2 DEF MarkChannelReady, Publishing, vars
    <2>2. CoreInv'
        BY <2>1, CoreStep DEF SearchInv
    <2> QED BY <1>2, <2>1, <2>2 DEF MarkChannelReady, Publishing, SearchInv, SearchTypeOK, PublishInv, FitInv, RowsInv,
                                  NoSearch, Ended, vars
<1> QED BY <1>1, <1>2

LEMMA SearchSteps == ASSUME SearchInv, Search PROVE SearchInv'
<1>1. UNCHANGED <<vars, mode, created, channel, publisher, collection>>
    BY DEF Search, Ask, Answered, Verify, Searching
<1>2. CoreInv' /\ PublishInv'
    BY <1>1, CoreStep DEF SearchInv, PublishInv, vars
<1>3. CASE Ask
    <2>1. search' = [search EXCEPT !.pc = "asked"] /\ collection # "differs"
        BY <1>3, ReadyFits DEF Ask, RunStatus
    <2> QED BY <1>1, <1>2, <2>1 DEF SearchInv, SearchTypeOK, FitInv, RowsInv, vars
<1>4. CASE search' \in {NoSearch, [NoSearch EXCEPT !.pc = "verified"]} /\ (collection = "differs" => search' = NoSearch)
    <2>1. search'.rows = {} /\ search' \in [pc : {"idle", "verified"}, rows : SUBSET SearchRow, strange : BOOLEAN]
        <3>1. NoSearch \in [pc : {"idle", "verified"}, rows : SUBSET SearchRow, strange : BOOLEAN] /\ NoSearch.rows = {}
            BY DEF NoSearch
        <3> QED BY <1>4, <3>1
    <2>2. SearchTypeOK' /\ RowsInv'
        BY <1>1, <2>1 DEF SearchInv, SearchTypeOK, RowsInv
    <2>3. FitInv'
        BY <1>1, <1>4 DEF SearchInv, FitInv, NoSearch, vars
    <2> QED BY <1>2, <2>2, <2>3 DEF SearchInv
<1>5. ASSUME collection = "fits", NEW rows \in SUBSET {[task |-> t, vector |-> point[t]] : t \in {u \in Task : point[u] # None}},
             NEW strange \in BOOLEAN, search' = [pc |-> "found", rows |-> rows, strange |-> strange]
      PROVE  SearchInv'
    <2>1. \A row \in rows : row \in SearchRow /\ row.vector \in {0, task[row.task].vector}
        BY DEF SearchInv, CoreInv, CoreTypeOK, PointsAreCached, SearchRow
    <2> QED BY <1>1, <1>2, <1>5, <2>1 DEF SearchInv, SearchTypeOK, FitInv, RowsInv, vars
<1>6. CASE Answered
    BY <1>4, <1>5, <1>6 DEF Answered
<1>7. CASE Verify
    BY <1>4, <1>7, ReadyFits DEF Verify, Verified, RunStatus
<1> QED BY <1>3, <1>6, <1>7 DEF Search

LEMMA SearchStep == ASSUME SearchInv, [SearchNext]_<<vars, searchVars>> PROVE SearchInv'
<1>1. CASE Begin \/ Report \/ SetChannelStatus \/ PublisherEnds \/ \E t \in Task : CreateTask(t)
    <2>1. UNCHANGED <<vars, collection, search>>
        BY <1>1 DEF Begin, Report, SetChannelStatus, PublisherEnds, CreateTask, Publishing, vars
    <2> QED BY <1>1, <2>1, PublisherMoves
<1> QED BY <1>1, SearchStays, ProjectSearch, EnqueueSearch, WritePointsSearch, SetTaskStatusSearch, MarkChannelReadySearch,
           SearchSteps DEF SearchNext, Publisher

LEMMA OthersStep == ASSUME SearchInv, [SearchNext]_<<vars, searchVars>> PROVE OthersAreLeftAlone
<1>1. ASSUME search.pc = "found", search'.pc = "verified"
      PROVE  /\ active /\ RunStatus = "ready" /\ ~search.strange
             /\ \A row \in search.rows : row.vector \in {0, task[row.task].vector} /\ task[row.task].status = "ready"
    <2>1. search' # search
        BY <1>1
    <2>2. Verify
        BY <1>1, <2>1 DEF SearchNext, Project, Enqueue, Publisher, Search, Ask, Answered, Searching, Begin, WritePoints, Report,
                          MarkChannelReady, SetChannelStatus, PublisherEnds, CreateTask, SetTaskStatus, Publishing, NoSearch,
                          searchVars
    <2>3. Verified
        BY <1>1, <2>2 DEF Verify, NoSearch
    <2> QED BY <2>3 DEF Verified, SearchInv, RowsInv
<1>2. ASSUME mode = "worker", publisher' # publisher PROVE UNCHANGED <<status, task, mode>>
    <2>1. created = {} /\ ~MayMark
        BY <1>2 DEF SearchInv, PublishInv, MayMark
    <2> QED BY <1>2, <2>1 DEF SearchNext, Project, Enqueue, Publisher, Search, Ask, Answered, Verify, Searching, Begin, WritePoints,
                              Report, MarkChannelReady, SetChannelStatus, PublisherEnds, CreateTask, SetTaskStatus, Publishing,
                              Unmanaged, searchVars, vars
<1>3. ASSUME mode = "worker" PROVE mode' = "worker"
    <2>1. ~MayMark
        BY <1>3 DEF MayMark
    <2> QED BY <1>3, <2>1 DEF SearchNext, Project, Enqueue, Publisher, Search, Ask, Answered, Verify, Searching, Begin, WritePoints,
                              Report, MarkChannelReady, SetChannelStatus, PublisherEnds, CreateTask, SetTaskStatus, Publishing,
                              searchVars, vars
<1> QED BY <1>1, <1>2, <1>3 DEF OthersAreLeftAlone

(* A run that is ready, whether a worker or a publisher without leases     *)
(* made it so, has every task ready and every point was in the index; the  *)
(* old channel says ready only of a run the publisher made ready; and a    *)
(* collection of another schema is never searched (publish,                *)
(* mark_channel_ready, _validate_collection).                              *)
THEOREM ReadyStaysReady == SearchInit /\ [][SearchNext]_<<vars, searchVars>> => []ReadyIsReady
<1>1. ASSUME SearchInv PROVE ReadyIsReady
    <2>1. ReadyRunIsComplete
        BY <1>1 DEF SearchInv, CoreInv, ReadyInv, ReadyRunIsComplete
    <2>2. channel = "ready" => mode = "diagnostic" /\ status = "ready"
        BY <1>1 DEF SearchInv, PublishInv
    <2>3. RunStatus = "ready" => mode = "worker" \/ created = Task
        BY <1>1 DEF SearchInv, SearchTypeOK, PublishInv, RunStatus
    <2>4. collection = "differs" => RunStatus # "ready" /\ search = NoSearch
        BY <1>1, ReadyFits DEF SearchInv, FitInv, RunStatus
    <2> QED BY <2>1, <2>2, <2>3, <2>4 DEF ReadyIsReady
<1> QED BY <1>1, SearchBegins, SearchStep, PTL

(* What a search returns was verified in one snapshot of the tables: of    *)
(* the active projection, and each row found by the vector the tables hold *)
(* or by the publisher's; and the publisher moves no task and no run of a  *)
(* worker, however the two are interleaved (verify_vector_rows,            *)
(* set_task_status, mark_channel_ready).                                   *)
THEOREM SearchesStayVerified ==
    SearchInit /\ [][SearchNext]_<<vars, searchVars>> => [][OthersAreLeftAlone]_<<vars, searchVars>>
<1>1. SearchInv /\ [SearchNext]_<<vars, searchVars>> => [OthersAreLeftAlone]_<<vars, searchVars>>
    BY OthersStep
<1> QED BY <1>1, SearchBegins, SearchStep, PTL
=============================================================================
