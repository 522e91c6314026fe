------------------------------ MODULE CodeMap ------------------------------
(***************************************************************************)
(* The code map's durable work queue: SQLiteCodeMapStore (code_map/        *)
(* store.py) with the processes around it, CodeMapScheduler.tick and       *)
(* CodeMapWorker.run_once as CodeMapDaemon.run_forever drives them, the    *)
(* administrator's commands of CodeMapService and the binding of an        *)
(* incident to a generation.                                               *)
(*                                                                         *)
(* Each method of the store is one BEGIN IMMEDIATE transaction and one     *)
(* step here, except the two that read before they open it.  Time is       *)
(* abstracted to what expiry comparisons tell: a lease is live or has      *)
(* lapsed, and a heartbeat, which only moves the expiry of a live lease,   *)
(* is the absence of a lapse.                                              *)
(***************************************************************************)
EXTENDS Naturals, FiniteSets, Sequences

CONSTANTS Repository, Commit,
          Scheduler, Worker, \* the ticking and the building processes
          Incident,          \* the diagnoses that pin a generation
          Token,             \* uuid4: enough of them that one is always fresh
          MaxPushes,         \* bound: commits pushed to the tracked branches
          MaxCommands,       \* bound: administrator commands
          MaxFaults,         \* bound: crashes, stalls and failed syncs
          None

Job == Repository \X Commit
Diagnosis == Incident \X Repository

ASSUME QueueAssumption ==
    /\ {MaxPushes, MaxCommands, MaxFaults} \subseteq Nat
    /\ None \notin Token \cup Commit \cup Job
    /\ \A S \in {Token, Repository, Commit, Scheduler, Worker} : IsFiniteSet(S)
    /\ Cardinality(Token) > Cardinality(Repository) + Cardinality(Scheduler)
    /\ Cardinality(Token) > Cardinality(Job) + Cardinality(Worker) + 1

VARIABLES
    repo,     \* code_map_repositories: enabled, blocked, due, observed, lease
    job,      \* code_map_scan_jobs: status, attempt and lease
    order,    \* the jobs in the order of created_at
    slot,     \* code_map_worker_slots: the lease of the global slot
    snapshot, \* code_map_snapshots: the status of each snapshot
    archive,  \* code_map_generations: what was published, per snapshot
    binding,  \* code_map_diagnosis_bindings: the pinned generation
    sched,    \* each scheduler: its check lease and the result of its sync
    work,     \* each worker: its job lease and how its build went
    binder,   \* each bind_incident call: the snapshot it has read
    head,     \* the commit the tracked branch of each repository is at
    pushes, commands, faults

tables == <<repo, job, order, slot, snapshot, archive, binding>>
counters == <<pushes, commands, faults>>
vars == <<tables, sched, work, binder, head, counters>>

NoLease == [token |-> None, live |-> FALSE]
Lease(t) == [token |-> t, live |-> TRUE]

(* A lease column pair with its expiry passed.                             *)
Lapsed(l) == [l EXCEPT !.live = FALSE]

Idle == [pc |-> "idle", on |-> None, token |-> None, result |-> None]

Bound == [key : Job, generation : Nat \ {0}, quality : {"partial", "ready"}]

CheckTokens == {repo[r].lease.token : r \in Repository} \cup {sched[s].token : s \in Scheduler}
JobTokens == {job[j].lease.token : j \in Job} \cup {slot.token} \cup {work[w].token : w \in Worker}

(* uuid4(): unlike every token it will be compared with.                   *)
Fresh(used) == CHOOSE t \in Token : t \notin used

Init ==
    /\ repo = [r \in Repository |-> [enabled |-> TRUE, blocked |-> FALSE, due |-> TRUE,
                                     observed |-> None, lease |-> NoLease]]
    /\ job = [j \in Job |-> [status |-> "absent", attempt |-> 0, lease |-> NoLease]]
    /\ order = <<>>
    /\ slot = NoLease
    /\ snapshot = [j \in Job |-> "none"]
    /\ archive = [j \in Job |-> <<>>]
    /\ binding = [d \in Diagnosis |-> None]
    /\ sched = [s \in Scheduler |-> Idle]
    /\ work = [w \in Worker |-> Idle]
    /\ binder = [d \in Diagnosis |-> None]
    /\ head \in [Repository -> Commit]
    /\ pushes = 0 /\ commands = 0 /\ faults = 0

Fault == faults < MaxFaults /\ faults' = faults + 1
-----------------------------------------------------------------------------
(* Jobs                                                                    *)

(* Mutants of InsertOrGet: only the latest commit is kept queued; a         *)
(* cancelled job is inserted again.                                        *)
InsertOrGetMerged(j) ==
    IF job[j].status = "absent" /\ \A k \in Job : job[k].status # "queued"
    THEN /\ job' = [job EXCEPT ![j].status = "queued"]
         /\ order' = Append(order, j)
    ELSE UNCHANGED <<job, order>>
InsertOrGetAgain(j) ==
    IF job[j].status \in {"absent", "cancelled"}
    THEN /\ job' = [job EXCEPT ![j].status = "queued"]
         /\ order' = Append(order, j)
    ELSE UNCHANGED <<job, order>>

(* _insert_or_get_job: the unique key makes a repeated request a no-op.    *)
InsertOrGet(j) ==
    IF job[j].status = "absent"
    THEN /\ job' = [job EXCEPT ![j].status = "queued"]
         /\ order' = Append(order, j)
    ELSE UNCHANGED <<job, order>>

(* Mutant of Claimable: an expired lease is not reclaimed.                 *)
ClaimableQueued(j) == job[j].status = "queued"

Claimable(j) == \/ job[j].status = "queued"
                \/ job[j].status = "running" /\ ~job[j].lease.live

(* ORDER BY created_at LIMIT 1                                             *)
Oldest == CHOOSE j \in Job :
              \E i \in 1..Len(order) :
                 /\ order[i] = j /\ Claimable(j)
                 /\ \A k \in 1..(i - 1) : ~Claimable(order[k])

(* Mutant of ClaimJob: the slot is overwritten, whoever holds it.          *)
ClaimJobAnySlot(w) ==
    /\ work[w].pc = "idle"
    /\ \E j \in Job : Claimable(j)
    /\ slot' = Lease(Fresh(JobTokens))
    /\ job' = [job EXCEPT ![Oldest] = [status |-> "running", attempt |-> @.attempt + 1,
                                       lease |-> Lease(Fresh(JobTokens))]]
    /\ work' = [work EXCEPT ![w] = [pc |-> "building", on |-> Oldest,
                                    token |-> Fresh(JobTokens), result |-> None]]
    /\ UNCHANGED <<repo, order, snapshot, archive, binding, sched, binder, head, counters>>

(* claim_job: the global slot first, then the oldest job; an interrupted   *)
(* one counts as another attempt.                                          *)
ClaimJob(w) ==
    /\ work[w].pc = "idle"
    /\ ~slot.live
    /\ \E j \in Job : Claimable(j)
    /\ slot' = Lease(Fresh(JobTokens))
    /\ job' = [job EXCEPT ![Oldest] = [status |-> "running", attempt |-> @.attempt + 1,
                                       lease |-> Lease(Fresh(JobTokens))]]
    /\ work' = [work EXCEPT ![w] = [pc |-> "building", on |-> Oldest, token |-> Fresh(JobTokens),
                                    result |-> None]]
    /\ UNCHANGED <<repo, order, snapshot, archive, binding, sched, binder, head, counters>>

(* The child process: a whole snapshot, one with files that failed, or an  *)
(* error, a timeout or a silent exit.                                      *)
Build(w) ==
    /\ work[w].pc = "building"
    /\ \/ \E q \in {"partial", "ready"} :
             work' = [work EXCEPT ![w].pc = "publishing", ![w].result = q]
       \/ work' = [work EXCEPT ![w].pc = "failing"]
    /\ UNCHANGED <<tables, sched, binder, head, counters>>

HoldsJob(w) == job[work[w].on].lease.token = work[w].token
HoldsSlot(w) == slot.token = work[w].token

(* Both leases are the worker's and neither has lapsed.                    *)
Fenced(w) == /\ HoldsJob(w) /\ job[work[w].on].lease.live
             /\ HoldsSlot(w) /\ slot.live

(* Mutant of Publish: a retried build replaces the archived generation.    *)
PublishInPlace(w) ==
    /\ work[w].pc = "publishing"
    /\ LET j == work[w].on
           q == work[w].result
       IN  IF Fenced(w) /\ snapshot[j] # "ready"
           THEN /\ snapshot' = [snapshot EXCEPT ![j] = q]
                /\ archive' = [archive EXCEPT ![j] = <<q>>]
                /\ job' = [job EXCEPT ![j].status = IF q = "partial" THEN q ELSE "succeeded",
                                      ![j].lease = NoLease]
                /\ slot' = NoLease
                /\ work' = [work EXCEPT ![w] = Idle]
           ELSE /\ work' = [work EXCEPT ![w].pc = "failing"]
                /\ UNCHANGED <<snapshot, archive, job, slot>>
    /\ UNCHANGED <<repo, order, binding, sched, binder, head, counters>>

(* publish: refused with lease_lost or snapshot_immutable, or the rows,    *)
(* the generation, the job and the slot change together.                   *)
Publish(w) ==
    /\ work[w].pc = "publishing"
    /\ LET j == work[w].on
           q == work[w].result
       IN  IF Fenced(w) /\ snapshot[j] # "ready"
           THEN /\ snapshot' = [snapshot EXCEPT ![j] = q]
                /\ archive' = [archive EXCEPT ![j] = Append(@, q)]
                /\ job' = [job EXCEPT ![j].status = IF q = "partial" THEN q ELSE "succeeded",
                                      ![j].lease = NoLease]
                /\ slot' = NoLease
                /\ work' = [work EXCEPT ![w] = Idle]
           ELSE /\ work' = [work EXCEPT ![w].pc = "failing"]
                /\ UNCHANGED <<snapshot, archive, job, slot>>
    /\ UNCHANGED <<repo, order, binding, sched, binder, head, counters>>

(* Mutant of FailJob: the job is failed by its id alone.                   *)
FailJobById(w) ==
    /\ work[w].pc = "failing"
    /\ job' = [job EXCEPT ![work[w].on].status = "failed", ![work[w].on].lease = NoLease]
    /\ slot' = IF HoldsSlot(w) THEN NoLease ELSE slot
    /\ work' = [work EXCEPT ![w] = Idle]
    /\ UNCHANGED <<repo, order, snapshot, archive, binding, sched, binder, head, counters>>

(* fail_job: fenced by the token, not by the expiry.                       *)
FailJob(w) ==
    /\ work[w].pc = "failing"
    /\ job' = IF HoldsJob(w)
              THEN [job EXCEPT ![work[w].on].status = "failed", ![work[w].on].lease = NoLease]
              ELSE job
    /\ slot' = IF HoldsSlot(w) THEN NoLease ELSE slot
    /\ work' = [work EXCEPT ![w] = Idle]
    /\ UNCHANGED <<repo, order, snapshot, archive, binding, sched, binder, head, counters>>

(* Time passes a lease by: its worker is gone, or too slow to heartbeat.   *)
LapseJob(t) ==
    /\ \/ slot = Lease(t)
       \/ \E j \in Job : job[j].lease = Lease(t)
    /\ IF \E w \in Worker : work[w].token = t THEN Fault ELSE UNCHANGED faults
    /\ job' = [j \in Job |-> IF job[j].lease.token = t
                             THEN [job[j] EXCEPT !.lease = Lapsed(@)] ELSE job[j]]
    /\ slot' = IF slot.token = t THEN Lapsed(slot) ELSE slot
    /\ UNCHANGED <<repo, order, snapshot, archive, binding, sched, work, binder, head,
                   pushes, commands>>

CrashWorker(w) ==
    /\ work[w].pc # "idle"
    /\ Fault
    /\ work' = [work EXCEPT ![w] = Idle]
    /\ UNCHANGED <<tables, sched, binder, head, pushes, commands>>
-----------------------------------------------------------------------------
(* Version checks                                                          *)

(* Mutant of ClaimCheck: a check that was claimed once is not reclaimed.   *)
ClaimCheckOnce(s, r) ==
    /\ sched[s].pc = "idle"
    /\ repo[r].enabled /\ ~repo[r].blocked /\ repo[r].due
    /\ repo[r].lease.token = None
    /\ repo' = [repo EXCEPT ![r].lease = Lease(Fresh(CheckTokens))]
    /\ sched' = [sched EXCEPT ![s] = [pc |-> "syncing", on |-> r,
                                      token |-> Fresh(CheckTokens), result |-> None]]
    /\ UNCHANGED <<job, order, slot, snapshot, archive, binding, work, binder, head,
                   counters>>

(* Mutant of ClaimCheck: a paused repository is checked too.               *)
ClaimCheckPaused(s, r) ==
    /\ sched[s].pc = "idle"
    /\ ~repo[r].blocked /\ repo[r].due /\ ~repo[r].lease.live
    /\ repo' = [repo EXCEPT ![r].lease = Lease(Fresh(CheckTokens))]
    /\ sched' = [sched EXCEPT ![s] = [pc |-> "syncing", on |-> r,
                                      token |-> Fresh(CheckTokens), result |-> None]]
    /\ UNCHANGED <<job, order, slot, snapshot, archive, binding, work, binder, head,
                   counters>>

ClaimCheck(s, r) ==
    /\ sched[s].pc = "idle"
    /\ repo[r].enabled /\ ~repo[r].blocked /\ repo[r].due
    /\ ~repo[r].lease.live
    /\ repo' = [repo EXCEPT ![r].lease = Lease(Fresh(CheckTokens))]
    /\ sched' = [sched EXCEPT ![s] = [pc |-> "syncing", on |-> r, token |-> Fresh(CheckTokens),
                                      result |-> None]]
    /\ UNCHANGED <<job, order, slot, snapshot, archive, binding, work, binder, head,
                   counters>>

(* sync_ref outside any transaction: the head it saw, or a failure that is *)
(* transient or blocks the repository.                                     *)
Sync(s) ==
    /\ sched[s].pc = "syncing"
    /\ \/ /\ sched' = [sched EXCEPT ![s].pc = "synced", ![s].result = head[sched[s].on]]
          /\ UNCHANGED faults
       \/ /\ Fault
          /\ \E f \in {"network_unavailable", "auth_failed"} :
                sched' = [sched EXCEPT ![s].pc = "synced", ![s].result = f]
    /\ UNCHANGED <<tables, work, binder, head, pushes, commands>>

(* A sync that times out has taken 60 seconds, which is the lease of the   *)
(* check (scheduler.py:43, config.py:23).                                  *)
SyncTimeout(s) ==
    /\ sched[s].pc = "syncing"
    /\ Fault
    /\ repo' = [r \in Repository |-> IF repo[r].lease.token = sched[s].token
                                     THEN [repo[r] EXCEPT !.lease = Lapsed(@)] ELSE repo[r]]
    /\ sched' = [sched EXCEPT ![s].pc = "synced", ![s].result = "sync_timeout"]
    /\ UNCHANGED <<job, order, slot, snapshot, archive, binding, work, binder, head,
                   pushes, commands>>

(* Mutant of CheckLive: a lease that has lapsed is believed.               *)
CheckHeld(s) == repo[sched[s].on].lease.token = sched[s].token

CheckLive(s) == repo[sched[s].on].lease = Lease(sched[s].token)

(* complete_check: a lost lease raises out of tick and ends the daemon;    *)
(* otherwise the observation, the schedule and the job are one commit.     *)
CompleteCheck(s) ==
    /\ sched[s].pc = "synced"
    /\ LET r == sched[s].on
           c == sched[s].result
       IN  \/ /\ ~CheckLive(s)
              /\ UNCHANGED <<repo, job, order>>
           \/ /\ CheckLive(s) /\ c \notin Commit
              /\ repo' = [repo EXCEPT ![r].due = FALSE, ![r].lease = NoLease,
                                      ![r].blocked = (c = "auth_failed")]
              /\ UNCHANGED <<job, order>>
           \/ /\ CheckLive(s) /\ c \in Commit
              /\ repo' = [repo EXCEPT ![r].due = FALSE, ![r].lease = NoLease,
                                      ![r].blocked = FALSE, ![r].observed = c]
              /\ IF repo[r].observed # c THEN InsertOrGet(<<r, c>>)
                                         ELSE UNCHANGED <<job, order>>
    /\ sched' = [sched EXCEPT ![s] = Idle]
    /\ UNCHANGED <<slot, snapshot, archive, binding, work, binder, head, counters>>

LapseCheck(r) ==
    /\ repo[r].lease.live
    /\ IF \E s \in Scheduler : sched[s].token = repo[r].lease.token
       THEN Fault ELSE UNCHANGED faults
    /\ repo' = [repo EXCEPT ![r].lease = Lapsed(@)]
    /\ UNCHANGED <<job, order, slot, snapshot, archive, binding, sched, work, binder,
                   head, pushes, commands>>

(* next_check_at is reached.                                               *)
DueAgain(r) ==
    /\ ~repo[r].due
    /\ repo' = [repo EXCEPT ![r].due = TRUE]
    /\ UNCHANGED <<job, order, slot, snapshot, archive, binding, sched, work, binder,
                   head, counters>>

CrashScheduler(s) ==
    /\ sched[s].pc # "idle"
    /\ Fault
    /\ sched' = [sched EXCEPT ![s] = Idle]
    /\ UNCHANGED <<tables, work, binder, head, pushes, commands>>

Push(r, c) ==
    /\ pushes < MaxPushes /\ head[r] # c
    /\ pushes' = pushes + 1
    /\ head' = [head EXCEPT ![r] = c]
    /\ UNCHANGED <<tables, sched, work, binder, commands, faults>>
-----------------------------------------------------------------------------
(* Administrator commands and diagnoses                                    *)

Command == commands < MaxCommands /\ commands' = commands + 1

(* Queued jobs are cancelled; a running one may finish.                    *)
Pause(r) ==
    /\ Command
    /\ repo' = [repo EXCEPT ![r].enabled = FALSE]
    /\ job' = [j \in Job |-> IF j[1] = r /\ job[j].status = "queued"
                             THEN [job[j] EXCEPT !.status = "cancelled"] ELSE job[j]]
    /\ UNCHANGED <<order, slot, snapshot, archive, binding, sched, work, binder, head,
                   pushes, faults>>

Resume(r) ==
    /\ Command
    /\ repo' = [repo EXCEPT ![r].enabled = TRUE, ![r].blocked = FALSE, ![r].due = TRUE]
    /\ UNCHANGED <<job, order, slot, snapshot, archive, binding, sched, work, binder,
                   head, pushes, faults>>

SubmitBuild(j) ==
    /\ Command
    /\ InsertOrGet(j)
    /\ UNCHANGED <<repo, slot, snapshot, archive, binding, sched, work, binder, head,
                   pushes, faults>>

RetryJob(j) ==
    /\ Command
    /\ job[j].status \in {"partial", "failed"}
    /\ job' = [job EXCEPT ![j].status = "queued"]
    /\ UNCHANGED <<repo, order, slot, snapshot, archive, binding, sched, work, binder,
                   head, pushes, faults>>

(* bind_incident(allow_partial) reads the snapshot, then writes the row.   *)
ReadForBinding(d, j) ==
    /\ binder[d] = None
    /\ j[1] = d[2]
    /\ snapshot[j] # "none"
    /\ binder' = [binder EXCEPT ![d] = [key |-> j, generation |-> Len(archive[j]),
                                        quality |-> snapshot[j]]]
    /\ UNCHANGED <<tables, sched, work, head, counters>>

(* Mutant of WriteBinding: the generation is the one current at the write. *)
WriteBindingCurrent(d) ==
    /\ binder[d] # None
    /\ binding' = [binding EXCEPT ![d] =
                      [binder[d] EXCEPT !.generation = Len(archive[binder[d].key])]]
    /\ binder' = [binder EXCEPT ![d] = None]
    /\ UNCHANGED <<repo, job, order, slot, snapshot, archive, sched, work, head, counters>>

WriteBinding(d) ==
    /\ binder[d] # None
    /\ binding' = [binding EXCEPT ![d] = binder[d]]
    /\ binder' = [binder EXCEPT ![d] = None]
    /\ UNCHANGED <<repo, job, order, slot, snapshot, archive, sched, work, head, counters>>

Building(w) == Build(w) \/ Publish(w) \/ FailJob(w)
Checking(s) == Sync(s) \/ CompleteCheck(s)

Next ==
    \/ \E w \in Worker : ClaimJob(w) \/ Building(w) \/ CrashWorker(w)
    \/ \E s \in Scheduler : \/ \E r \in Repository : ClaimCheck(s, r)
                            \/ Checking(s) \/ SyncTimeout(s) \/ CrashScheduler(s)
    \/ \E t \in Token : LapseJob(t)
    \/ \E r \in Repository : \/ LapseCheck(r) \/ DueAgain(r) \/ Pause(r) \/ Resume(r)
                             \/ \E c \in Commit : Push(r, c)
    \/ \E j \in Job : SubmitBuild(j) \/ RetryJob(j)
    \/ \E d \in Diagnosis : WriteBinding(d) \/ \E j \in Job : ReadForBinding(d, j)

Spec == Init /\ [][Next]_vars

(* The daemon's loop ticks for ever, time passes, and builds end.          *)
FairSpec ==
    /\ Spec
    /\ \A w \in Worker : WF_vars(Building(w)) /\ WF_vars(ClaimJob(w))
    /\ \A s \in Scheduler : WF_vars(Checking(s))
    /\ \A r \in Repository :
          /\ WF_vars(\E s \in Scheduler : ClaimCheck(s, r))
          /\ WF_vars(LapseCheck(r)) /\ WF_vars(DueAgain(r))
    /\ WF_vars(\E t \in Token : LapseJob(t))
-----------------------------------------------------------------------------
(* Properties                                                              *)

JobStatus == {"absent", "queued", "running", "succeeded", "partial", "failed", "cancelled"}

TypeOK ==
    /\ \A r \in Repository :
          /\ repo[r].enabled \in BOOLEAN /\ repo[r].blocked \in BOOLEAN
          /\ repo[r].due \in BOOLEAN /\ repo[r].observed \in Commit \cup {None}
          /\ repo[r].lease \in [token : Token \cup {None}, live : BOOLEAN]
    /\ job \in [Job -> [status : JobStatus, attempt : Nat,
                        lease : [token : Token \cup {None}, live : BOOLEAN]]]
    /\ order \in Seq(Job) /\ Cardinality({order[i] : i \in 1..Len(order)}) = Len(order)
    /\ slot \in [token : Token \cup {None}, live : BOOLEAN]
    /\ snapshot \in [Job -> {"none", "partial", "ready"}]
    /\ \A j \in Job : archive[j] \in Seq({"partial", "ready"})
    /\ \A d \in Diagnosis : {binding[d], binder[d]} \subseteq Bound \cup {None}

(* At most one build holds a live lease, over all processes, and the slot  *)
(* says which ("the global slot", store.py:251).                           *)
OneLiveBuild ==
    \A j \in Job : job[j].lease.live => slot = job[j].lease /\ job[j].status = "running"

(* A job's status tells the truth about its snapshot: it is succeeded just *)
(* when the snapshot is ready, and partial only when it is partial.  A     *)
(* late fail_job or a second build of the same input would break it.       *)
JobMatchesSnapshot ==
    \A j \in Job : /\ job[j].status = "succeeded" <=> snapshot[j] = "ready"
                   /\ job[j].status = "partial" => snapshot[j] = "partial"

(* A commit is never observed without a job for it: the next check would   *)
(* find it unchanged and no one would ever build it.                       *)
ObservedHasJob ==
    \A r \in Repository :
        repo[r].observed # None => job[<<r, repo[r].observed>>].status # "absent"

(* A diagnosis can always read the generation it is bound to, as it was    *)
(* when it was bound, however often the build was retried since.           *)
BindingReadable ==
    \A d \in Diagnosis :
        binding[d] # None =>
            LET b == binding[d]
            IN  /\ b.generation \in DOMAIN archive[b.key]
                /\ archive[b.key][b.generation] = b.quality

(* The queue, the snapshots and the bindings of diagnoses agree, whoever   *)
(* crashed and whichever lease lapsed between two transactions of the      *)
(* store.                                                                  *)
CodeMapAgrees == TypeOK /\ OneLiveBuild /\ JobMatchesSnapshot /\ ObservedHasJob /\ BindingReadable

(* The published generations evolve as SnapshotCatalog promises.           *)
Catalog == INSTANCE SnapshotCatalog WITH generations <- archive, shown <- snapshot

CatalogSpec == Catalog!Spec

(* No job waits for ever: it is built, fails or is cancelled, whoever      *)
(* crashed while holding the slot.                                         *)
JobsSettle ==
    \A j \in Job : job[j].status \in {"queued", "running"}
                       ~> job[j].status \notin {"queued", "running"}

(* The head of a tracked branch is observed, unless it moves on or the     *)
(* repository is paused or blocked.                                        *)
HeadObserved ==
    \A r \in Repository, c \in Commit :
        head[r] = c ~> \/ repo[r].observed = c \/ head[r] # c
                       \/ repo[r].blocked \/ ~repo[r].enabled

(* complete_check() does not ask whether its repository has been paused    *)
(* since: but of the checks that were under way only one can still observe *)
(* a commit, by the one lease that is live, no other begins, and nothing   *)
(* is queued but what it observed or an administrator asks for.            *)
PauseLetsOneCheckPass ==
    \A r \in Repository : ~repo[r].enabled /\ ~repo'[r].enabled =>
        /\ repo'[r].lease.live => repo[r].lease = repo'[r].lease
        /\ repo'[r].observed # repo[r].observed => repo[r].lease.live /\ ~repo'[r].lease.live
        /\ commands' = commands => \A c \in Commit :
              job'[<<r, c>>].status = "queued" => job[<<r, c>>].status = "queued" \/ (repo'[r].observed = c /\ repo[r].observed # c)

(* Scheduler and workers get to the end of what is there to do.            *)
CodeMapProgresses == JobsSettle /\ HeadObserved
=============================================================================
