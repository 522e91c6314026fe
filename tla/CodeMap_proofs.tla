--------------------------- MODULE CodeMap_proofs ---------------------------
(***************************************************************************)
(* Proofs about CodeMap for every number of repositories, commits,         *)
(* processes and diagnoses, and any number of pushes, commands and faults. *)
(* IInv is the inductive invariant.  A lease is known by its token: most   *)
(* of it says whose token may be found where.                              *)
(* GitCache and SnapshotBuild follow: the clone, and what a build makes of *)
(* a tree.                                                                 *)
(***************************************************************************)
EXTENDS CodeMap, FiniteSetTheorems, TLAPS

LeaseType == [token : Token \cup {None}, live : BOOLEAN]
RepoType == [enabled : BOOLEAN, blocked : BOOLEAN, due : BOOLEAN,
             observed : Commit \cup {None}, lease : LeaseType]
JobType == [status : JobStatus, attempt : Nat, lease : LeaseType]
SchedType == [pc : {"idle", "syncing", "synced"}, on : Repository \cup {None}, token : Token \cup {None},
              result : Commit \cup {None, "network_unavailable", "auth_failed", "sync_timeout"}]
WorkType == [pc : {"idle", "building", "publishing", "failing"}, on : Job \cup {None},
             token : Token \cup {None}, result : {None, "partial", "ready"}]

(* What a process does once it has a lease, it does to something.          *)
CheckOK(rec) == rec.pc # "idle" => rec.on \in Repository
BuildOK(rec) == /\ rec.pc # "idle" => rec.on \in Job /\ rec.token \in Token
                /\ rec.pc = "publishing" => rec.result \in {"partial", "ready"}

ProcessInv ==
    /\ repo \in [Repository -> RepoType]
    /\ head \in [Repository -> Commit] /\ commands \in Nat
    /\ sched \in [Scheduler -> SchedType] /\ \A s \in Scheduler : CheckOK(sched[s])
    /\ work \in [Worker -> WorkType] /\ \A w \in Worker : BuildOK(work[w])

(* created_at orders the jobs that were ever asked for, each once.         *)
OrderInv ==
    /\ order \in Seq(Job)
    /\ \A i, k \in 1..Len(order) : order[i] = order[k] => i = k
    /\ \A j \in Job : job[j].status # "absent" <=> \E i \in 1..Len(order) : order[i] = j

(* A job has a token just while it runs, no other job has the same, and a  *)
(* worker finds its own token at the job it has claimed or nowhere.        *)
TokenInv ==
    /\ job \in [Job -> JobType]
    /\ slot \in LeaseType
    /\ \A j \in Job : IF job[j].status = "running" THEN job[j].lease.token \in Token
                                                   ELSE job[j].lease = NoLease
    /\ \A j, k \in Job : job[j].lease.token \in Token /\ job[j].lease.token = job[k].lease.token => j = k
    /\ \A w \in Worker, j \in Job : work[w].pc # "idle" /\ job[j].lease.token = work[w].token => j = work[w].on

(* What get_snapshot shows is the last generation that was published.      *)
CatalogInv ==
    /\ snapshot \in [Job -> {"none", "partial", "ready"}]
    /\ archive \in [Job -> Seq({"partial", "ready"})]
    /\ \A j \in Job : snapshot[j] # "none" => Len(archive[j]) > 0 /\ archive[j][Len(archive[j])] = snapshot[j]

(* A generation that was read can be read again.                           *)
Readable(b) == b.generation \in 1..Len(archive[b.key]) /\ archive[b.key][b.generation] = b.quality
BindInv ==
    /\ binding \in [Diagnosis -> Bound \cup {None}] /\ binder \in [Diagnosis -> Bound \cup {None}]
    /\ \A d \in Diagnosis : /\ binding[d] # None => Readable(binding[d])
                            /\ binder[d] # None => Readable(binder[d])

IInv == ProcessInv /\ OrderInv /\ TokenInv /\ CatalogInv /\ BindInv
        /\ OneLiveBuild /\ JobMatchesSnapshot /\ ObservedHasJob
-----------------------------------------------------------------------------
(* uuid4                                                                   *)

(* As many values as arguments, at most.                                   *)
LEMMA ImageIsSmall ==
    ASSUME NEW S, IsFiniteSet(S), NEW f, f = [x \in S |-> f[x]]
    PROVE  IsFiniteSet({f[x] : x \in S}) /\ Cardinality({f[x] : x \in S}) <= Cardinality(S)
<1> f \in Surjection(S, {f[x] : x \in S})
    BY DEF Surjection
<1> QED BY FS_Surjection

LEMMA UnionIsSmall ==
    ASSUME NEW S, NEW T, IsFiniteSet(S), IsFiniteSet(T)
    PROVE  /\ IsFiniteSet(S \cup T) /\ Cardinality(S \cup T) \in Nat
           /\ Cardinality(S \cup T) <= Cardinality(S) + Cardinality(T)
<1> IsFiniteSet(S \cup T) /\ Cardinality(S \cup T) = Cardinality(S) + Cardinality(T) - Cardinality(S \cap T)
    BY FS_Union
<1> IsFiniteSet(S \cap T)
    BY FS_Intersection
<1> Cardinality(S) \in Nat /\ Cardinality(T) \in Nat /\ Cardinality(S \cap T) \in Nat /\ Cardinality(S \cup T) \in Nat
    BY FS_CardinalityType
<1> QED OBVIOUS

LEMMA FreshIsNew ==
    ASSUME NEW used, IsFiniteSet(used), Cardinality(used) < Cardinality(Token)
    PROVE  Fresh(used) \in Token /\ Fresh(used) \notin used
<1>1. ~ (Token \subseteq used)
    <2> SUFFICES ASSUME Token \in SUBSET used PROVE FALSE
        OBVIOUS
    <2> Cardinality(Token) <= Cardinality(used)
        BY FS_Subset
    <2> Cardinality(Token) \in Nat /\ Cardinality(used) \in Nat
        BY FS_CardinalityType, QueueAssumption
    <2> QED OBVIOUS
<1> QED BY <1>1 DEF Fresh

LEMMA CheckTokenIsNew == Fresh(CheckTokens) \in Token /\ Fresh(CheckTokens) \notin CheckTokens
<1> DEFINE held == [r \in Repository |-> repo[r].lease.token]
           sent == [s \in Scheduler |-> sched[s].token]
<1>1. IsFiniteSet({held[r] : r \in Repository}) /\ Cardinality({held[r] : r \in Repository}) <= Cardinality(Repository)
    BY ImageIsSmall, QueueAssumption
<1>2. IsFiniteSet({sent[s] : s \in Scheduler}) /\ Cardinality({sent[s] : s \in Scheduler}) <= Cardinality(Scheduler)
    BY ImageIsSmall, QueueAssumption
<1>3. CheckTokens = {held[r] : r \in Repository} \cup {sent[s] : s \in Scheduler}
    BY DEF CheckTokens
<1> HIDE DEF held, sent
<1>4. /\ IsFiniteSet(CheckTokens) /\ Cardinality(CheckTokens) \in Nat
      /\ Cardinality(CheckTokens) <= Cardinality({held[r] : r \in Repository}) + Cardinality({sent[s] : s \in Scheduler})
    BY <1>1, <1>2, <1>3, UnionIsSmall
<1>5. /\ Cardinality({held[r] : r \in Repository}) \in Nat /\ Cardinality({sent[s] : s \in Scheduler}) \in Nat
      /\ Cardinality(Repository) \in Nat /\ Cardinality(Scheduler) \in Nat /\ Cardinality(Token) \in Nat
    BY <1>1, <1>2, FS_CardinalityType, QueueAssumption
<1>6. Cardinality(CheckTokens) < Cardinality(Token)
    BY <1>1, <1>2, <1>4, <1>5, QueueAssumption
<1> QED BY <1>4, <1>6, FreshIsNew

LEMMA JobTokenIsNew == Fresh(JobTokens) \in Token /\ Fresh(JobTokens) \notin JobTokens
<1> DEFINE held == [j \in Job |-> job[j].lease.token]
           sent == [w \in Worker |-> work[w].token]
<1>1. IsFiniteSet(Job) /\ Cardinality(Job) \in Nat
    BY FS_Product, FS_CardinalityType, QueueAssumption DEF Job
<1>2. IsFiniteSet({held[j] : j \in Job}) /\ Cardinality({held[j] : j \in Job}) <= Cardinality(Job)
    BY <1>1, ImageIsSmall
<1>3. IsFiniteSet({sent[w] : w \in Worker}) /\ Cardinality({sent[w] : w \in Worker}) <= Cardinality(Worker)
    BY ImageIsSmall, QueueAssumption
<1>4. IsFiniteSet({slot.token}) /\ Cardinality({slot.token}) = 1
    BY FS_Singleton
<1>5. JobTokens = ({held[j] : j \in Job} \cup {slot.token}) \cup {sent[w] : w \in Worker}
    BY DEF JobTokens
<1> HIDE DEF held, sent
<1>6. /\ IsFiniteSet({held[j] : j \in Job} \cup {slot.token}) /\ Cardinality({held[j] : j \in Job} \cup {slot.token}) \in Nat
      /\ Cardinality({held[j] : j \in Job} \cup {slot.token}) <= Cardinality({held[j] : j \in Job}) + 1
    BY <1>2, <1>4, UnionIsSmall
<1>7. /\ IsFiniteSet(JobTokens) /\ Cardinality(JobTokens) \in Nat
      /\ Cardinality(JobTokens) <= Cardinality({held[j] : j \in Job} \cup {slot.token}) + Cardinality({sent[w] : w \in Worker})
    BY <1>3, <1>5, <1>6, UnionIsSmall
<1>8. /\ Cardinality({held[j] : j \in Job}) \in Nat /\ Cardinality({sent[w] : w \in Worker}) \in Nat
      /\ Cardinality(Worker) \in Nat /\ Cardinality(Token) \in Nat
    BY <1>2, <1>3, FS_CardinalityType, QueueAssumption
<1>9. Cardinality(JobTokens) < Cardinality(Token)
    BY <1>1, <1>2, <1>3, <1>6, <1>7, <1>8, QueueAssumption
<1> QED BY <1>7, <1>9, FreshIsNew

(* ORDER BY created_at LIMIT 1 answers with a job that can be claimed.     *)
LEMMA OldestIsClaimable ==
    ASSUME OrderInv, NEW j \in Job, Claimable(j)
    PROVE  Oldest \in Job /\ Claimable(Oldest)
<1> DEFINE Places == {i \in 1..Len(order) : Claimable(order[i])}
           Less == OpToRel(<, Nat)
<1>1. Less = {p \in Nat \X Nat : p[1] < p[2]}
    BY DEF OpToRel
<1>2. IsWellFoundedOn(Less, Nat)
    BY NatLessThanWellFounded
<1>3. Len(order) \in Nat /\ \A i \in 1..Len(order) : order[i] \in Job
    BY DEF OrderInv
<1>4. Places \subseteq Nat /\ Places # {}
    <2>1. PICK i \in 1..Len(order) : order[i] = j
        BY DEF OrderInv, Claimable
    <2> QED BY <1>3, <2>1
<1> HIDE DEF Less
<1>5. PICK x \in Places : \A y \in Places : ~ (<<y, x>> \in Less)
    BY <1>2, <1>4, WFMin
<1>6. ASSUME NEW k \in 1..(x - 1), Claimable(order[k]) PROVE FALSE
    <2>1. k \in Places /\ k < x /\ x \in Nat
        BY <1>3, <1>6
    <2>2. <<k, x>> \in Nat \X Nat /\ <<k, x>>[1] = k /\ <<k, x>>[2] = x
        BY <2>1
    <2> QED BY <1>1, <1>5, <2>1, <2>2
<1>7. /\ order[x] \in Job
      /\ \E i \in 1..Len(order) : /\ order[i] = order[x] /\ Claimable(order[x])
                                  /\ \A k \in 1..(i - 1) : ~Claimable(order[k])
    BY <1>3, <1>6
<1>8. /\ Oldest \in Job
      /\ \E i \in 1..Len(order) : order[i] = Oldest /\ Claimable(Oldest)
    BY <1>7 DEF Oldest
<1> QED BY <1>8

(* The order of created_at lists no job twice.                             *)
LEMMA OrderIsCounted ==
    ASSUME OrderInv
    PROVE  Cardinality({order[i] : i \in 1..Len(order)}) = Len(order)
<1> DEFINE listed == {order[i] : i \in 1..Len(order)}
           listing == [i \in 1..Len(order) |-> order[i]]
<1>1. Len(order) \in Nat
    BY DEF OrderInv
<1>2. listing \in Bijection(1..Len(order), listed)
    BY DEF OrderInv, Bijection, Injection, Surjection, IsInjective
<1> QED BY <1>1, <1>2, FS_CountingElements DEF ExistsBijection

(* What the model checker checks follows.                                  *)
LEMMA InvariantAgrees == IInv => CodeMapAgrees
<1> SUFFICES ASSUME IInv PROVE CodeMapAgrees
    OBVIOUS
<1>1. TypeOK
    <2>1. \A r \in Repository : repo[r] \in RepoType
        BY DEF IInv, ProcessInv
    <2>2. job \in [Job -> [status : JobStatus, attempt : Nat, lease : [token : Token \cup {None}, live : BOOLEAN]]]
        BY DEF IInv, TokenInv, JobType, LeaseType
    <2>3. slot \in [token : Token \cup {None}, live : BOOLEAN]
        BY DEF IInv, TokenInv, LeaseType
    <2>4. order \in Seq(Job) /\ Cardinality({order[i] : i \in 1..Len(order)}) = Len(order)
        BY OrderIsCounted DEF IInv, OrderInv
    <2>5. /\ snapshot \in [Job -> {"none", "partial", "ready"}]
          /\ \A j \in Job : archive[j] \in Seq({"partial", "ready"})
        BY DEF IInv, CatalogInv
    <2>6. \A d \in Diagnosis : {binding[d], binder[d]} \subseteq Bound \cup {None}
        BY DEF IInv, BindInv
    <2>7. \A r \in Repository :
              /\ repo[r].enabled \in BOOLEAN /\ repo[r].blocked \in BOOLEAN
              /\ repo[r].due \in BOOLEAN /\ repo[r].observed \in Commit \cup {None}
              /\ repo[r].lease \in [token : Token \cup {None}, live : BOOLEAN]
        BY <2>1 DEF RepoType, LeaseType
    <2> QED BY <2>2, <2>3, <2>4, <2>5, <2>6, <2>7 DEF TypeOK
<1>2. BindingReadable
    <2> SUFFICES ASSUME NEW d \in Diagnosis, binding[d] # None
                 PROVE  /\ binding[d].generation \in DOMAIN archive[binding[d].key]
                        /\ archive[binding[d].key][binding[d].generation] = binding[d].quality
        BY DEF BindingReadable
    <2>1. Readable(binding[d]) /\ binding[d].key \in Job
        BY DEF IInv, BindInv, Bound
    <2>2. DOMAIN archive[binding[d].key] = 1..Len(archive[binding[d].key])
        BY <2>1 DEF IInv, CatalogInv
    <2> QED BY <2>1, <2>2 DEF Readable
<1> QED BY <1>1, <1>2 DEF IInv, CodeMapAgrees

-----------------------------------------------------------------------------
(* What one part of the invariant needs of a step that is about others     *)

LEMMA OrderStays ==
    ASSUME OrderInv, order' = order, \A j \in Job : job'[j].status = "absent" <=> job[j].status = "absent"
    PROVE  OrderInv'
BY DEF OrderInv

LEMMA ObservedStays ==
    ASSUME IInv, \A r \in Repository : repo'[r].observed = repo[r].observed,
           \A j \in Job : job[j].status # "absent" => job'[j].status # "absent"
    PROVE  ObservedHasJob'
<1> SUFFICES ASSUME NEW r \in Repository, repo[r].observed # None
             PROVE  job'[<<r, repo[r].observed>>].status # "absent"
    BY DEF ObservedHasJob
<1> <<r, repo[r].observed>> \in Job
    BY DEF IInv, ProcessInv, RepoType, Job
<1> QED BY DEF IInv, ObservedHasJob

(* Schedulers, administrators and time move; no job does.                  *)
LEMMA CheckStep ==
    ASSUME IInv, sched' \in [Scheduler -> SchedType], \A s \in Scheduler : CheckOK(sched'[s]),
           repo' \in [Repository -> RepoType], \A r \in Repository : repo'[r].observed = repo[r].observed,
           head' \in [Repository -> Commit], commands' \in Nat,
           UNCHANGED <<job, order, slot, snapshot, archive, binding, work, binder>>
    PROVE  IInv'
<1>1. ProcessInv'
    BY DEF IInv, ProcessInv, CheckOK, BuildOK
<1>2. ObservedHasJob'
    BY ObservedStays
<1>3. TokenInv' /\ CatalogInv' /\ OrderInv'
    BY DEF IInv, TokenInv, CatalogInv, OrderInv
<1>4. BindInv' /\ OneLiveBuild' /\ JobMatchesSnapshot'
    BY DEF IInv, BindInv, Readable, OneLiveBuild, JobMatchesSnapshot
<1> QED BY <1>1, <1>2, <1>3, <1>4 DEF IInv

(* A worker goes on with the job it has claimed, or gives it up.           *)
LEMMA WorkStep ==
    ASSUME IInv, NEW w \in Worker, NEW rec \in WorkType, work' = [work EXCEPT ![w] = rec], BuildOK(rec),
           rec.pc # "idle" => work[w].pc # "idle" /\ rec.on = work[w].on /\ rec.token = work[w].token,
           UNCHANGED <<repo, job, order, slot, snapshot, archive, binding, sched, binder, head, commands>>
    PROVE  IInv'
<1>1. work'[w] = rec /\ \A v \in Worker \ {w} : work'[v] = work[v]
    BY DEF IInv, ProcessInv
<1>2. ProcessInv'
    BY <1>1 DEF IInv, ProcessInv, CheckOK, BuildOK
<1>3. TokenInv'
    BY <1>1 DEF IInv, TokenInv
<1> QED BY <1>2, <1>3 DEF IInv, OrderInv, CatalogInv, BindInv, Readable, OneLiveBuild, JobMatchesSnapshot, ObservedHasJob

LEMMA IdleIsTyped == Idle \in WorkType /\ BuildOK(Idle) /\ Idle \in SchedType /\ CheckOK(Idle) /\ Idle.pc = "idle"
BY DEF Idle, WorkType, SchedType, BuildOK, CheckOK

LEMMA BuildStep == ASSUME IInv, NEW w \in Worker, Build(w) PROVE IInv'
<1>1. work[w] \in WorkType /\ BuildOK(work[w]) /\ work \in [Worker -> WorkType]
    BY DEF IInv, ProcessInv
<1>2. CASE work' = [work EXCEPT ![w].pc = "failing"]
    <2>1. PICK rec : rec = [work[w] EXCEPT !.pc = "failing"]
        OBVIOUS
    <2>2. work' = [work EXCEPT ![w] = rec]
        BY <1>1, <1>2, <2>1
    <2>3. rec \in WorkType /\ rec.on = work[w].on /\ rec.token = work[w].token /\ rec.pc = "failing" /\ work[w].pc # "idle"
        BY <1>1, <2>1 DEF WorkType, Build
    <2>4. BuildOK(rec)
        BY <1>1, <2>3 DEF BuildOK
    <2> QED BY <2>2, <2>3, <2>4, WorkStep DEF Build, tables, counters
<1>3. CASE \E q \in {"partial", "ready"} : work' = [work EXCEPT ![w].pc = "publishing", ![w].result = q]
    <2>1. PICK q \in {"partial", "ready"} : work' = [work EXCEPT ![w].pc = "publishing", ![w].result = q]
        BY <1>3
    <2>2. PICK rec : rec = [work[w] EXCEPT !.pc = "publishing", !.result = q]
        OBVIOUS
    <2>3. work' = [work EXCEPT ![w] = rec]
        BY <1>1, <2>1, <2>2
    <2>4. /\ rec \in WorkType /\ rec.on = work[w].on /\ rec.token = work[w].token /\ rec.result = q
          /\ rec.pc = "publishing" /\ work[w].pc # "idle"
        BY <1>1, <2>2 DEF WorkType, Build
    <2>5. BuildOK(rec)
        BY <1>1, <2>4 DEF BuildOK
    <2> QED BY <2>3, <2>4, <2>5, WorkStep DEF Build, tables, counters
<1> QED BY <1>2, <1>3 DEF Build

LEMMA CrashWorkerStep == ASSUME IInv, NEW w \in Worker, CrashWorker(w) PROVE IInv'
BY IdleIsTyped, WorkStep DEF CrashWorker, tables

LEMMA ClaimCheckStep == ASSUME IInv, NEW s \in Scheduler, NEW r \in Repository, ClaimCheck(s, r) PROVE IInv'
<1>1. PICK t : t = Fresh(CheckTokens)
    OBVIOUS
<1>2. t \in Token
    BY <1>1, CheckTokenIsNew
<1>3. /\ repo' = [repo EXCEPT ![r].lease = Lease(t)]
      /\ sched' = [sched EXCEPT ![s] = [pc |-> "syncing", on |-> r, token |-> t, result |-> None]]
      /\ UNCHANGED <<job, order, slot, snapshot, archive, binding, work, binder, head, commands>>
    BY <1>1 DEF ClaimCheck, counters
<1>4. repo \in [Repository -> RepoType] /\ sched \in [Scheduler -> SchedType] /\ \A q \in Scheduler : CheckOK(sched[q])
    BY DEF IInv, ProcessInv
<1>5. repo' \in [Repository -> RepoType] /\ \A q \in Repository : repo'[q].observed = repo[q].observed
    BY <1>2, <1>3, <1>4 DEF RepoType, LeaseType, Lease
<1>6. sched' \in [Scheduler -> SchedType] /\ \A q \in Scheduler : CheckOK(sched'[q])
    BY <1>2, <1>3, <1>4 DEF SchedType, CheckOK
<1>7. head' \in [Repository -> Commit] /\ commands' \in Nat
    BY <1>3 DEF IInv, ProcessInv
<1> QED BY <1>3, <1>5, <1>6, <1>7, CheckStep

LEMMA SyncStep == ASSUME IInv, NEW s \in Scheduler, Sync(s) PROVE IInv'
<1>1. repo \in [Repository -> RepoType] /\ sched \in [Scheduler -> SchedType] /\ \A q \in Scheduler : CheckOK(sched[q])
    BY DEF IInv, ProcessInv
<1>2. sched[s].pc = "syncing" /\ head[sched[s].on] \in Commit
    BY <1>1 DEF IInv, ProcessInv, CheckOK, Sync
<1>3. PICK c \in Commit \cup {"network_unavailable", "auth_failed"} :
          sched' = [sched EXCEPT ![s].pc = "synced", ![s].result = c]
    BY <1>2 DEF Sync
<1>4. sched' \in [Scheduler -> SchedType] /\ \A q \in Scheduler : CheckOK(sched'[q])
    BY ZenonT(60), <1>1, <1>2, <1>3 DEF SchedType, CheckOK
<1>5. UNCHANGED <<repo, job, order, slot, snapshot, archive, binding, work, binder, head, commands>>
    BY DEF Sync, tables
<1>6. head' \in [Repository -> Commit] /\ commands' \in Nat
    BY <1>5 DEF IInv, ProcessInv
<1> QED BY <1>1, <1>4, <1>5, <1>6, CheckStep

LEMMA SyncTimeoutStep == ASSUME IInv, NEW s \in Scheduler, SyncTimeout(s) PROVE IInv'
<1>1. repo \in [Repository -> RepoType] /\ sched \in [Scheduler -> SchedType] /\ \A q \in Scheduler : CheckOK(sched[q])
    BY DEF IInv, ProcessInv
<1>2. sched' \in [Scheduler -> SchedType] /\ \A q \in Scheduler : CheckOK(sched'[q])
    BY ZenonT(60), <1>1 DEF SchedType, CheckOK, SyncTimeout
<1>3. UNCHANGED <<job, order, slot, snapshot, archive, binding, work, binder, head, commands>>
    BY DEF SyncTimeout
<1>4. head' \in [Repository -> Commit] /\ commands' \in Nat
    BY <1>3 DEF IInv, ProcessInv
<1>5. repo' \in [Repository -> RepoType] /\ \A q \in Repository : repo'[q].observed = repo[q].observed
    BY ZenonT(60), <1>1 DEF SyncTimeout, RepoType, LeaseType, Lapsed
<1> QED BY <1>2, <1>3, <1>4, <1>5, CheckStep

LEMMA CrashSchedulerStep == ASSUME IInv, NEW s \in Scheduler, CrashScheduler(s) PROVE IInv'
<1>1. UNCHANGED <<repo, job, order, slot, snapshot, archive, binding, work, binder, head, commands>>
    BY DEF CrashScheduler, tables
<1>2. sched' \in [Scheduler -> SchedType] /\ \A q \in Scheduler : CheckOK(sched'[q])
    BY IdleIsTyped DEF CrashScheduler, IInv, ProcessInv
<1>3. repo' \in [Repository -> RepoType] /\ head' \in [Repository -> Commit] /\ commands' \in Nat
    BY <1>1 DEF IInv, ProcessInv
<1> QED BY <1>1, <1>2, <1>3, CheckStep

(* No process moves, only the row of a repository and the world outside.   *)
LEMMA RepositoryStep ==
    ASSUME IInv, NEW r \in Repository, LapseCheck(r) \/ DueAgain(r) \/ Resume(r) \/ \E c \in Commit : Push(r, c)
    PROVE  IInv'
<1>1. /\ repo \in [Repository -> RepoType] /\ sched \in [Scheduler -> SchedType] /\ \A q \in Scheduler : CheckOK(sched[q])
      /\ head \in [Repository -> Commit] /\ commands \in Nat
    BY DEF IInv, ProcessInv
<1>2. UNCHANGED <<job, order, slot, snapshot, archive, binding, sched, work, binder>>
    BY DEF LapseCheck, DueAgain, Resume, Push, tables
<1>3. repo' \in [Repository -> RepoType] /\ \A q \in Repository : repo'[q].observed = repo[q].observed
    <2>1. CASE LapseCheck(r)
        BY ZenonT(60), <1>1, <2>1 DEF LapseCheck, RepoType, LeaseType, Lapsed
    <2>2. CASE DueAgain(r)
        BY <1>1, <2>2 DEF DueAgain, RepoType
    <2>3. CASE Resume(r)
        BY ZenonT(60), <1>1, <2>3 DEF Resume, RepoType
    <2>4. CASE \E c \in Commit : Push(r, c)
        BY <1>1, <2>4 DEF Push, tables
    <2> QED BY <2>1, <2>2, <2>3, <2>4
<1>4. head' \in [Repository -> Commit] /\ commands' \in Nat
    BY <1>1 DEF LapseCheck, DueAgain, Resume, Command, Push, counters
<1> QED BY <1>1, <1>2, <1>3, <1>4, CheckStep

-----------------------------------------------------------------------------
(* Steps of jobs                                                           *)

LEMMA Rows ==
    ASSUME IInv
    PROVE  /\ job \in [Job -> JobType] /\ \A j \in Job : job[j] \in JobType /\ job[j].lease \in LeaseType
           /\ slot \in LeaseType
           /\ work \in [Worker -> WorkType] /\ \A w \in Worker : work[w] \in WorkType /\ BuildOK(work[w])
           /\ None \notin Token
BY QueueAssumption DEF IInv, ProcessInv, TokenInv, JobType

(* The token is new: nobody takes the claimed job for his own.             *)
LEMMA ClaimJobStep == ASSUME IInv, NEW w \in Worker, ClaimJob(w) PROVE IInv'
<1>1. PICK t : t = Fresh(JobTokens)
    OBVIOUS
<1>2. t \in Token /\ t # slot.token /\ (\A j \in Job : t # job[j].lease.token) /\ (\A v \in Worker : t # work[v].token)
    BY <1>1, JobTokenIsNew DEF JobTokens
<1>3. PICK o : o = Oldest
    OBVIOUS
<1>4. o \in Job /\ Claimable(o)
    BY <1>3, OldestIsClaimable DEF ClaimJob, IInv
<1>5. PICK row : row = [status |-> "running", attempt |-> job[o].attempt + 1, lease |-> Lease(t)]
    OBVIOUS
<1>6. PICK rec : rec = [pc |-> "building", on |-> o, token |-> t, result |-> None]
    OBVIOUS
<1>7. /\ job' = [job EXCEPT ![o] = row] /\ work' = [work EXCEPT ![w] = rec] /\ slot' = Lease(t) /\ ~slot.live
      /\ UNCHANGED <<repo, order, snapshot, archive, binding, sched, binder, head, commands>>
    BY <1>1, <1>3, <1>5, <1>6 DEF ClaimJob, counters
<1>8. job'[o] = row /\ (\A j \in Job \ {o} : job'[j] = job[j]) /\ work'[w] = rec /\ \A v \in Worker \ {w} : work'[v] = work[v]
    BY <1>4, <1>7, Rows
<1>9. row \in JobType /\ row.status = "running" /\ row.lease = Lease(t) /\ Lease(t) \in LeaseType /\ Lease(t).token = t
    BY <1>2, <1>4, <1>5, Rows DEF JobType, JobStatus, Lease, LeaseType
<1>10. rec \in WorkType /\ BuildOK(rec) /\ rec.on = o /\ rec.token = t
    BY <1>2, <1>4, <1>6 DEF WorkType, BuildOK
<1>11. ProcessInv'
    <2>1. work' \in [Worker -> WorkType] /\ \A v \in Worker : BuildOK(work'[v])
        BY <1>7, <1>8, <1>10, Rows
    <2> QED BY <1>7, <2>1 DEF IInv, ProcessInv, CheckOK, BuildOK
<1>12. TokenInv'
    <2>1. job' \in [Job -> JobType] /\ slot' \in LeaseType
        BY <1>4, <1>7, <1>9, Rows
    <2>2. \A j \in Job : IF job'[j].status = "running" THEN job'[j].lease.token \in Token ELSE job'[j].lease = NoLease
        BY <1>2, <1>8, <1>9 DEF IInv, TokenInv
    <2>3. \A j, k \in Job : job'[j].lease.token \in Token /\ job'[j].lease.token = job'[k].lease.token => j = k
        BY <1>2, <1>8, <1>9 DEF IInv, TokenInv
    <2>4. \A v \in Worker, j \in Job : work'[v].pc # "idle" /\ job'[j].lease.token = work'[v].token => j = work'[v].on
        BY <1>2, <1>8, <1>9, <1>10 DEF IInv, TokenInv
    <2> QED BY <2>1, <2>2, <2>3, <2>4 DEF TokenInv
<1>13. job[o].status # "absent" /\ job[o].status # "succeeded" /\ job[o].status # "partial"
    BY <1>4 DEF Claimable
<1>14. OrderInv' /\ ObservedHasJob'
    BY <1>7, <1>8, <1>9, <1>13, OrderStays, ObservedStays DEF IInv
<1>15. OneLiveBuild'
    BY <1>7, <1>8, <1>9 DEF IInv, OneLiveBuild
<1>16. JobMatchesSnapshot'
    BY <1>7, <1>8, <1>9, <1>13 DEF IInv, JobMatchesSnapshot
<1>17. CatalogInv' /\ BindInv'
    BY <1>7 DEF IInv, CatalogInv, BindInv, Readable
<1> QED BY <1>11, <1>12, <1>14, <1>15, <1>16, <1>17 DEF IInv

(* The token that a worker finds at its job is at no other.                *)
LEMMA HolderIsAlone ==
    ASSUME IInv, NEW w \in Worker, work[w].pc # "idle", HoldsJob(w)
    PROVE  /\ work[w].on \in Job /\ work[w].token \in Token /\ job[work[w].on].status = "running"
           /\ \A j \in Job : job[j].lease.token = work[w].token => j = work[w].on
<1>1. work[w].on \in Job /\ work[w].token \in Token
    BY Rows DEF BuildOK
<1>2. NoLease.token \notin Token
    BY Rows DEF NoLease
<1> QED BY <1>1, <1>2 DEF IInv, TokenInv, HoldsJob

(* A job is over, for its worker has published or failed it: it gives its  *)
(* lease back, and the slot if that is still its own.                      *)
LEMMA EndedStep ==
    ASSUME IInv, NEW w \in Worker, work[w].pc # "idle", HoldsJob(w), NEW ending \in {"succeeded", "partial", "failed"},
           job' = [job EXCEPT ![work[w].on].status = ending, ![work[w].on].lease = NoLease],
           slot' = IF HoldsSlot(w) THEN NoLease ELSE slot,
           work' = [work EXCEPT ![w] = Idle],
           UNCHANGED <<repo, order, sched, head, commands>>
    PROVE  ProcessInv' /\ TokenInv' /\ OrderInv' /\ ObservedHasJob' /\ OneLiveBuild'
<1> DEFINE o == work[w].on
<1>1. o \in Job /\ work[w].token \in Token /\ job[o].status = "running" /\ \A j \in Job : job[j].lease.token = work[w].token => j = o
    BY HolderIsAlone
<1>2. PICK row : row = [job[o] EXCEPT !.status = ending, !.lease = NoLease]
    OBVIOUS
<1>3. job' = [job EXCEPT ![o] = row]
    BY <1>1, <1>2, Rows
<1>4. NoLease \in LeaseType /\ NoLease.token \notin Token /\ ~NoLease.live
    BY Rows DEF NoLease, LeaseType
<1>5. row \in JobType /\ row.status = ending /\ row.lease = NoLease
    BY <1>1, <1>2, <1>4, Rows DEF JobType, JobStatus
<1>6. job'[o] = row /\ (\A j \in Job \ {o} : job'[j] = job[j]) /\ work'[w] = Idle /\ \A v \in Worker \ {w} : work'[v] = work[v]
    BY <1>1, <1>3, Rows
<1>7. ProcessInv'
    <2>1. work' \in [Worker -> WorkType] /\ \A v \in Worker : BuildOK(work'[v])
        BY <1>6, IdleIsTyped, Rows
    <2> QED BY <2>1 DEF IInv, ProcessInv, CheckOK, BuildOK
<1>8. TokenInv'
    <2>1. job' \in [Job -> JobType] /\ slot' \in LeaseType
        BY <1>1, <1>3, <1>4, <1>5, Rows
    <2>2. \A j \in Job : IF job'[j].status = "running" THEN job'[j].lease.token \in Token ELSE job'[j].lease = NoLease
        BY <1>5, <1>6 DEF IInv, TokenInv
    <2>3. \A j, k \in Job : job'[j].lease.token \in Token /\ job'[j].lease.token = job'[k].lease.token => j = k
        BY <1>4, <1>5, <1>6 DEF IInv, TokenInv
    <2>4. \A v \in Worker, j \in Job : work'[v].pc # "idle" /\ job'[j].lease.token = work'[v].token => j = work'[v].on
        <3> SUFFICES ASSUME NEW v \in Worker \ {w}, NEW j \in Job, work[v].pc # "idle", job'[j].lease.token = work[v].token
                     PROVE  j = work[v].on
            BY <1>6, IdleIsTyped
        <3>1. work[v].token \in Token
            BY Rows DEF BuildOK
        <3> QED BY <1>4, <1>5, <1>6, <3>1 DEF IInv, TokenInv
    <2> QED BY <2>1, <2>2, <2>3, <2>4 DEF TokenInv
<1>9. OrderInv' /\ ObservedHasJob'
    BY <1>1, <1>5, <1>6, OrderStays, ObservedStays DEF IInv
<1>10. OneLiveBuild'
    <2> SUFFICES ASSUME NEW j \in Job, job'[j].lease.live PROVE slot' = job'[j].lease /\ job'[j].status = "running"
        BY DEF OneLiveBuild
    <2>1. j # o /\ job'[j] = job[j]
        BY <1>4, <1>5, <1>6
    <2>2. slot = job[j].lease /\ job[j].status = "running"
        BY <2>1 DEF IInv, OneLiveBuild
    <2>3. ~HoldsSlot(w)
        BY <1>1, <2>1, <2>2 DEF HoldsSlot
    <2> QED BY <2>1, <2>2, <2>3
<1> QED BY <1>7, <1>8, <1>9, <1>10

LEMMA PublishStep == ASSUME IInv, NEW w \in Worker, Publish(w) PROVE IInv'
<1> DEFINE o == work[w].on
           q == work[w].result
<1>1. work[w] \in WorkType /\ BuildOK(work[w]) /\ work[w].pc = "publishing" /\ o \in Job /\ q \in {"partial", "ready"}
    BY Rows DEF Publish, BuildOK
<1>2. CASE Fenced(w) /\ snapshot[o] # "ready"
    <2>1. HoldsJob(w) /\ HoldsSlot(w)
        BY <1>2 DEF Fenced
    <2>2. PICK ending : ending = IF q = "partial" THEN q ELSE "succeeded"
        OBVIOUS
    <2>3. /\ snapshot' = [snapshot EXCEPT ![o] = q] /\ archive' = [archive EXCEPT ![o] = Append(@, q)]
          /\ job' = [job EXCEPT ![o].status = ending, ![o].lease = NoLease]
          /\ slot' = NoLease /\ work' = [work EXCEPT ![w] = Idle]
          /\ UNCHANGED <<repo, order, binding, sched, binder, head, commands>>
        BY <1>2, <2>2 DEF Publish, counters
    <2>4. ending \in {"succeeded", "partial", "failed"} /\ (ending = "succeeded" <=> q = "ready") /\ (ending = "partial" <=> q = "partial")
        BY <1>1, <2>2
    <2>5. ProcessInv' /\ TokenInv' /\ OrderInv' /\ ObservedHasJob' /\ OneLiveBuild'
        <3>1. slot' = IF HoldsSlot(w) THEN NoLease ELSE slot
            BY <2>1, <2>3
        <3> HIDE DEF o
        <3>2. UNCHANGED <<repo, order, sched, head, commands>> /\ work[w].pc # "idle"
            BY <1>1, <2>3
        <3> QED BY <2>1, <2>3, <2>4, <3>1, <3>2, EndedStep DEF o
    <2>6. CatalogInv'
        <3>1. snapshot \in [Job -> {"none", "partial", "ready"}] /\ archive \in [Job -> Seq({"partial", "ready"})]
            BY DEF IInv, CatalogInv
        <3>2. snapshot' \in [Job -> {"none", "partial", "ready"}] /\ archive' \in [Job -> Seq({"partial", "ready"})]
            BY <1>1, <2>3, <3>1
        <3>3. /\ archive'[o] = Append(archive[o], q) /\ snapshot'[o] = q /\ archive[o] \in Seq({"partial", "ready"})
              /\ \A j \in Job \ {o} : archive'[j] = archive[j] /\ snapshot'[j] = snapshot[j]
            BY <1>1, <2>3, <3>1
        <3>4. Len(archive'[o]) > 0 /\ archive'[o][Len(archive'[o])] = snapshot'[o]
            BY <1>1, <3>3
        <3> QED BY <3>2, <3>3, <3>4 DEF IInv, CatalogInv
    <2>7. BindInv'
        <3>1. archive \in [Job -> Seq({"partial", "ready"})]
            BY DEF IInv, CatalogInv
        <3>2. ASSUME NEW b \in Bound, Readable(b) PROVE b.generation \in 1..Len(archive'[b.key]) /\ archive'[b.key][b.generation] = b.quality
            <4>1. b.key \in Job /\ archive[b.key] \in Seq({"partial", "ready"})
                BY <3>1 DEF Bound
            <4>2. archive'[b.key] = archive[b.key] \/ archive'[b.key] = Append(archive[b.key], q)
                BY <1>1, <2>3, <3>1, <4>1
            <4> QED BY <1>1, <3>2, <4>1, <4>2 DEF Readable
        <3>3. UNCHANGED <<binding, binder>>
            BY <2>3
        <3>4. \A d \in Diagnosis : (binding[d] # None => binding[d] \in Bound) /\ (binder[d] # None => binder[d] \in Bound)
            BY DEF IInv, BindInv
        <3> QED BY <3>2, <3>3, <3>4 DEF IInv, BindInv, Readable
    <2>8. JobMatchesSnapshot'
        <3>1. job'[o].status = ending /\ snapshot'[o] = q /\ \A j \in Job \ {o} : job'[j] = job[j] /\ snapshot'[j] = snapshot[j]
            <4>1. job \in [Job -> JobType] /\ snapshot \in [Job -> {"none", "partial", "ready"}] /\ job[o] \in JobType
                BY <1>1, Rows DEF IInv, CatalogInv
            <4> QED BY <1>1, <2>3, <4>1 DEF JobType
        <3> QED BY <1>1, <2>4, <3>1 DEF IInv, JobMatchesSnapshot
    <2> QED BY <2>5, <2>6, <2>7, <2>8 DEF IInv
<1>3. CASE ~ (Fenced(w) /\ snapshot[o] # "ready")
    <2>1. PICK rec : rec = [work[w] EXCEPT !.pc = "failing"]
        OBVIOUS
    <2>2. work' = [work EXCEPT ![w] = rec]
        BY <1>3, <2>1, Rows DEF Publish
    <2>3. rec \in WorkType /\ rec.on = work[w].on /\ rec.token = work[w].token /\ rec.pc = "failing" /\ BuildOK(rec)
        BY <1>1, <2>1 DEF WorkType, BuildOK
    <2>4. UNCHANGED <<repo, job, order, slot, snapshot, archive, binding, sched, binder, head, commands>>
        BY <1>3 DEF Publish, counters
    <2> QED BY <1>1, <2>2, <2>3, <2>4, WorkStep
<1> QED BY <1>2, <1>3

LEMMA FailJobStep == ASSUME IInv, NEW w \in Worker, FailJob(w) PROVE IInv'
<1>1. work[w].pc = "failing" /\ work' = [work EXCEPT ![w] = Idle] /\ slot' = (IF HoldsSlot(w) THEN NoLease ELSE slot)
      /\ UNCHANGED <<repo, order, snapshot, archive, binding, sched, binder, head, commands>>
    BY DEF FailJob, counters
<1>2. CASE HoldsJob(w)
    <2>1. job' = [job EXCEPT ![work[w].on].status = "failed", ![work[w].on].lease = NoLease]
        BY <1>2 DEF FailJob
    <2>2. ProcessInv' /\ TokenInv' /\ OrderInv' /\ ObservedHasJob' /\ OneLiveBuild'
        BY <1>1, <1>2, <2>1, EndedStep
    <2>3. CatalogInv' /\ BindInv'
        BY <1>1 DEF IInv, CatalogInv, BindInv, Readable
    <2>4. JobMatchesSnapshot'
        <3>1. work[w].on \in Job /\ job[work[w].on].status = "running"
            BY <1>1, <1>2, HolderIsAlone
        <3>2. job'[work[w].on].status = "failed" /\ \A j \in Job \ {work[w].on} : job'[j] = job[j]
            BY <2>1, <3>1, Rows DEF JobType
        <3> QED BY <1>1, <3>1, <3>2 DEF IInv, JobMatchesSnapshot
    <2> QED BY <2>2, <2>3, <2>4 DEF IInv
<1>3. CASE ~HoldsJob(w)
    <2>1. job' = job
        BY <1>3 DEF FailJob
    <2>2. work'[w] = Idle /\ \A v \in Worker \ {w} : work'[v] = work[v]
        BY <1>1, Rows
    <2>3. ProcessInv'
        <3>1. work' \in [Worker -> WorkType] /\ \A v \in Worker : BuildOK(work'[v])
            BY <1>1, <2>2, IdleIsTyped, Rows
        <3> QED BY <1>1, <3>1 DEF IInv, ProcessInv, CheckOK, BuildOK
    <2>4. NoLease \in LeaseType
        BY DEF NoLease, LeaseType
    <2>5. TokenInv'
        BY <1>1, <2>1, <2>2, <2>4, IdleIsTyped DEF IInv, TokenInv
    <2>6. OneLiveBuild'
        <3> SUFFICES ASSUME NEW j \in Job, job[j].lease.live PROVE slot' = job[j].lease /\ job[j].status = "running"
            BY <2>1 DEF OneLiveBuild
        <3>1. slot = job[j].lease /\ job[j].status = "running"
            BY DEF IInv, OneLiveBuild
        <3>2. ~HoldsSlot(w)
            BY <1>1, <1>3, <3>1 DEF HoldsSlot, HoldsJob, IInv, TokenInv
        <3> QED BY <1>1, <3>1, <3>2
    <2>7. OrderInv' /\ ObservedHasJob' /\ JobMatchesSnapshot'
        BY <1>1, <2>1 DEF IInv, OrderInv, ObservedHasJob, JobMatchesSnapshot
    <2>8. CatalogInv' /\ BindInv'
        BY <1>1 DEF IInv, CatalogInv, BindInv, Readable
    <2> QED BY <2>3, <2>5, <2>6, <2>7, <2>8 DEF IInv
<1> QED BY <1>2, <1>3

(* A lease lapses at the job and at the slot together.                     *)
LEMMA LapseJobStep == ASSUME IInv, NEW t \in Token, LapseJob(t) PROVE IInv'
<1>1. /\ job' = [j \in Job |-> IF job[j].lease.token = t THEN [job[j] EXCEPT !.lease = Lapsed(@)] ELSE job[j]]
      /\ slot' = IF slot.token = t THEN Lapsed(slot) ELSE slot
      /\ UNCHANGED <<repo, order, snapshot, archive, binding, sched, work, binder, head, commands>>
    BY DEF LapseJob
<1>2. \A l \in LeaseType : Lapsed(l) \in LeaseType /\ Lapsed(l).token = l.token /\ ~Lapsed(l).live
    BY DEF Lapsed, LeaseType
<1>3. ASSUME NEW j \in Job
      PROVE  /\ job'[j] \in JobType /\ job'[j].status = job[j].status /\ job'[j].lease.token = job[j].lease.token
             /\ job'[j] = job[j] \/ (job[j].lease.token = t /\ ~job'[j].lease.live)
    <2>1. job[j] \in JobType /\ job[j].lease \in LeaseType
        BY Rows
    <2>2. CASE job[j].lease.token = t
        <3>1. job'[j] = [job[j] EXCEPT !.lease = Lapsed(job[j].lease)]
            BY <1>1, <2>2
        <3> QED BY <1>2, <2>1, <2>2, <3>1 DEF JobType
    <2>3. CASE job[j].lease.token # t
        BY <1>1, <2>1, <2>3
    <2> QED BY <2>2, <2>3
<1>4. slot' \in LeaseType /\ (slot' = slot \/ slot.token = t)
    BY <1>1, <1>2, Rows
<1>5. ProcessInv'
    BY <1>1 DEF IInv, ProcessInv, CheckOK, BuildOK
<1>6. TokenInv'
    <2>1. job' \in [Job -> JobType]
        BY <1>1, <1>3
    <2>2. \A j \in Job : IF job'[j].status = "running" THEN job'[j].lease.token \in Token ELSE job'[j].lease = NoLease
        <3>1. NoLease.token # t
            BY Rows DEF NoLease
        <3> QED BY <1>3, <3>1 DEF IInv, TokenInv
    <2> QED BY <1>1, <1>3, <1>4, <2>1, <2>2 DEF IInv, TokenInv
<1>7. OrderInv' /\ ObservedHasJob'
    BY <1>1, <1>3, OrderStays, ObservedStays DEF IInv
<1>8. OneLiveBuild'
    <2> SUFFICES ASSUME NEW j \in Job, job'[j].lease.live PROVE slot' = job'[j].lease /\ job'[j].status = "running"
        BY DEF OneLiveBuild
    <2>1. job'[j] = job[j]
        BY <1>3
    <2>2. slot = job[j].lease /\ job[j].status = "running"
        BY <2>1 DEF IInv, OneLiveBuild
    <2>3. job[j].lease.token # t
        <3> SUFFICES ASSUME job[j].lease.token = t PROVE FALSE
            OBVIOUS
        <3>1. job'[j] = [job[j] EXCEPT !.lease = Lapsed(job[j].lease)]
            BY <1>1
        <3> QED BY <1>2, <2>1, <3>1, Rows DEF JobType
    <2> QED BY <1>1, <2>1, <2>2, <2>3
<1>9. JobMatchesSnapshot'
    BY <1>1, <1>3 DEF IInv, JobMatchesSnapshot
<1>10. CatalogInv' /\ BindInv'
    BY <1>1 DEF IInv, CatalogInv, BindInv, Readable
<1> QED BY <1>5, <1>6, <1>7, <1>8, <1>9, <1>10 DEF IInv

(* Jobs that do not run come into the queue or leave it.                   *)
LEMMA QueueStep ==
    ASSUME IInv, job' \in [Job -> JobType],
           \A j \in Job : \/ job'[j] = job[j]
                          \/ /\ job'[j].lease = job[j].lease
                             /\ job[j].status \in {"absent", "queued", "partial", "failed"}
                             /\ job'[j].status \in {"queued", "cancelled"},
           UNCHANGED <<slot, snapshot, work>>
    PROVE  TokenInv' /\ OneLiveBuild' /\ JobMatchesSnapshot'
<1>1. \A j \in Job : job'[j].lease = job[j].lease /\ (job'[j].status = "running" <=> job[j].status = "running")
    OBVIOUS
<1>2. TokenInv'
    BY <1>1 DEF IInv, TokenInv
<1>3. OneLiveBuild'
    BY <1>1 DEF IInv, OneLiveBuild
<1>4. JobMatchesSnapshot'
    BY DEF IInv, JobMatchesSnapshot
<1> QED BY <1>2, <1>3, <1>4

(* _insert_or_get_job                                                      *)
LEMMA InsertStep ==
    ASSUME IInv, NEW j \in Job, InsertOrGet(j), UNCHANGED <<slot, snapshot, work>>
    PROVE  /\ TokenInv' /\ OneLiveBuild' /\ JobMatchesSnapshot' /\ OrderInv'
           /\ job'[j].status # "absent" /\ \A k \in Job : job[k].status # "absent" => job'[k].status # "absent"
<1>1. CASE job[j].status = "absent"
    <2>1. PICK row : row = [job[j] EXCEPT !.status = "queued"]
        OBVIOUS
    <2>2. job' = [job EXCEPT ![j] = row] /\ order' = Append(order, j)
        BY <1>1, <2>1, Rows DEF InsertOrGet
    <2>3. row \in JobType /\ row.status = "queued" /\ row.lease = job[j].lease
        BY <2>1, Rows DEF JobType, JobStatus
    <2>4. job' \in [Job -> JobType] /\ job'[j] = row /\ \A k \in Job \ {j} : job'[k] = job[k]
        BY <2>2, <2>3, Rows
    <2>5. TokenInv' /\ OneLiveBuild' /\ JobMatchesSnapshot'
        BY <1>1, <2>3, <2>4, QueueStep
    <2>6. order \in Seq(Job) /\ Len(order) \in Nat /\ \A i \in 1..Len(order) : order[i] \in Job
        BY DEF IInv, OrderInv
    <2>7. /\ order' \in Seq(Job) /\ Len(order') = Len(order) + 1 /\ order'[Len(order) + 1] = j
          /\ \A i \in 1..Len(order) : order'[i] = order[i]
        BY <2>2, <2>6
    <2>8. \A i \in 1..Len(order) : order[i] # j
        BY <1>1 DEF IInv, OrderInv
    <2>9. \A i, k \in 1..Len(order') : order'[i] = order'[k] => i = k
        <3> SUFFICES ASSUME NEW i \in 1..Len(order'), NEW k \in 1..Len(order'), order'[i] = order'[k] PROVE i = k
            OBVIOUS
        <3>1. (i \in 1..Len(order) \/ i = Len(order) + 1) /\ (k \in 1..Len(order) \/ k = Len(order) + 1)
            BY <2>6, <2>7
        <3>2. CASE i \in 1..Len(order) /\ k \in 1..Len(order)
            BY <2>7, <3>2 DEF IInv, OrderInv
        <3> QED BY <2>7, <2>8, <3>1, <3>2
    <2>10. ASSUME NEW k \in Job PROVE job'[k].status # "absent" <=> \E i \in 1..Len(order') : order'[i] = k
        <3>1. CASE k = j
            <4>1. Len(order) + 1 \in 1..Len(order')
                BY <2>6, <2>7
            <4> QED BY <2>3, <2>4, <2>7, <3>1, <4>1
        <3>2. CASE k # j
            <4>1. \A i \in 1..Len(order') : i \in 1..Len(order) \/ i = Len(order) + 1
                BY <2>6, <2>7
            <4>2. 1..Len(order) \subseteq 1..Len(order')
                BY <2>6, <2>7
            <4>3. job[k].status # "absent" <=> \E i \in 1..Len(order) : order[i] = k
                BY DEF IInv, OrderInv
            <4> QED BY <2>4, <2>7, <3>2, <4>1, <4>2, <4>3
        <3> QED BY <3>1, <3>2
    <2>11. OrderInv'
        BY <2>7, <2>9, <2>10 DEF OrderInv
    <2> QED BY <2>3, <2>4, <2>5, <2>11
<1>2. CASE job[j].status # "absent"
    <2>1. UNCHANGED <<job, order>>
        BY <1>2 DEF InsertOrGet
    <2> QED BY <1>2, <2>1, QueueStep, Rows DEF IInv, OrderInv
<1> QED BY <1>1, <1>2

LEMMA SubmitBuildStep == ASSUME IInv, NEW j \in Job, SubmitBuild(j) PROVE IInv'
<1>1. UNCHANGED <<repo, slot, snapshot, archive, binding, sched, work, binder, head>> /\ InsertOrGet(j)
    BY DEF SubmitBuild
<1>2. TokenInv' /\ OneLiveBuild' /\ JobMatchesSnapshot' /\ OrderInv'
    BY <1>1, InsertStep
<1>3. ObservedHasJob'
    BY <1>1, InsertStep, ObservedStays
<1>4. ProcessInv'
    BY <1>1 DEF IInv, ProcessInv, CheckOK, BuildOK, SubmitBuild, Command
<1>5. CatalogInv' /\ BindInv'
    BY <1>1 DEF IInv, CatalogInv, BindInv, Readable
<1> QED BY <1>2, <1>3, <1>4, <1>5 DEF IInv

LEMMA RetryJobStep == ASSUME IInv, NEW j \in Job, RetryJob(j) PROVE IInv'
<1>1. UNCHANGED <<repo, order, slot, snapshot, archive, binding, sched, work, binder, head>>
    BY DEF RetryJob
<1>2. PICK row : row = [job[j] EXCEPT !.status = "queued"]
    OBVIOUS
<1>3. job' = [job EXCEPT ![j] = row] /\ job[j].status \in {"partial", "failed"}
    BY <1>2, Rows DEF RetryJob
<1>4. row \in JobType /\ row.status = "queued" /\ row.lease = job[j].lease
    BY <1>2, Rows DEF JobType, JobStatus
<1>5. job' \in [Job -> JobType] /\ job'[j] = row /\ \A k \in Job \ {j} : job'[k] = job[k]
    BY <1>3, <1>4, Rows
<1>6. TokenInv' /\ OneLiveBuild' /\ JobMatchesSnapshot'
    BY <1>1, <1>3, <1>4, <1>5, QueueStep
<1>7. OrderInv' /\ ObservedHasJob'
    BY <1>1, <1>3, <1>4, <1>5, OrderStays, ObservedStays DEF IInv
<1>8. ProcessInv'
    BY <1>1 DEF IInv, ProcessInv, CheckOK, BuildOK, RetryJob, Command
<1>9. CatalogInv' /\ BindInv'
    BY <1>1 DEF IInv, CatalogInv, BindInv, Readable
<1> QED BY <1>6, <1>7, <1>8, <1>9 DEF IInv

LEMMA PauseStep == ASSUME IInv, NEW r \in Repository, Pause(r) PROVE IInv'
<1>1. UNCHANGED <<order, slot, snapshot, archive, binding, sched, work, binder, head>>
    BY DEF Pause
<1>2. ASSUME NEW j \in Job
      PROVE  /\ job'[j] \in JobType
             /\ \/ job'[j] = job[j]
                \/ job'[j].lease = job[j].lease /\ job[j].status = "queued" /\ job'[j].status = "cancelled"
    <2>1. CASE j[1] = r /\ job[j].status = "queued"
        <3>1. job'[j] = [job[j] EXCEPT !.status = "cancelled"]
            BY <2>1 DEF Pause
        <3> QED BY <2>1, <3>1, Rows DEF JobType, JobStatus
    <2>2. CASE ~ (j[1] = r /\ job[j].status = "queued")
        BY <2>2, Rows DEF Pause
    <2> QED BY <2>1, <2>2
<1>3. job' \in [Job -> JobType]
    BY <1>2 DEF Pause
<1>4. TokenInv' /\ OneLiveBuild' /\ JobMatchesSnapshot'
    BY <1>1, <1>2, <1>3, QueueStep
<1>5. repo \in [Repository -> RepoType] /\ repo' = [repo EXCEPT ![r].enabled = FALSE]
    BY DEF IInv, ProcessInv, Pause
<1>6. repo' \in [Repository -> RepoType] /\ \A q \in Repository : repo'[q].observed = repo[q].observed
    BY <1>5 DEF RepoType
<1>7. OrderInv' /\ ObservedHasJob'
    BY <1>1, <1>2, <1>6, OrderStays, ObservedStays DEF IInv
<1>8. ProcessInv'
    BY <1>1, <1>6 DEF IInv, ProcessInv, CheckOK, BuildOK, Pause, Command
<1>9. CatalogInv' /\ BindInv'
    BY <1>1 DEF IInv, CatalogInv, BindInv, Readable
<1> QED BY <1>4, <1>7, <1>8, <1>9 DEF IInv

(* The observation of a commit and its job are one transaction.            *)
LEMMA CompleteCheckStep == ASSUME IInv, NEW s \in Scheduler, CompleteCheck(s) PROVE IInv'
<1> DEFINE r == sched[s].on
           c == sched[s].result
<1>1. /\ repo \in [Repository -> RepoType] /\ sched \in [Scheduler -> SchedType] /\ \A q \in Scheduler : CheckOK(sched[q])
      /\ head \in [Repository -> Commit] /\ commands \in Nat
    BY DEF IInv, ProcessInv
<1>2. r \in Repository
    BY <1>1 DEF CheckOK, CompleteCheck
<1>3. UNCHANGED <<slot, snapshot, archive, binding, work, binder, head, commands>>
    BY DEF CompleteCheck, counters
<1>4. sched' \in [Scheduler -> SchedType] /\ \A q \in Scheduler : CheckOK(sched'[q])
    BY <1>1, IdleIsTyped DEF CompleteCheck
<1>5. NoLease \in LeaseType
    BY DEF NoLease, LeaseType
<1>6. CASE ~CheckLive(s) /\ UNCHANGED <<repo, job, order>>
    BY <1>1, <1>3, <1>4, <1>6, CheckStep
<1>7. CASE /\ repo' = [repo EXCEPT ![r].due = FALSE, ![r].lease = NoLease, ![r].blocked = (c = "auth_failed")]
           /\ UNCHANGED <<job, order>>
    <2>1. repo' \in [Repository -> RepoType] /\ \A q \in Repository : repo'[q].observed = repo[q].observed
        <3>1. (c = "auth_failed") \in BOOLEAN
            OBVIOUS
        <3>2. PICK b \in BOOLEAN : b = (c = "auth_failed")
            BY <3>1
        <3>3. repo' = [repo EXCEPT ![r].due = FALSE, ![r].lease = NoLease, ![r].blocked = b]
            BY <1>7, <3>2
        <3> HIDE DEF r
        <3> QED BY ZenonT(60), <1>1, <1>2, <1>5, <3>3 DEF RepoType
    <2> QED BY <1>1, <1>3, <1>4, <1>7, <2>1, CheckStep
<1>8. CASE /\ c \in Commit
           /\ repo' = [repo EXCEPT ![r].due = FALSE, ![r].lease = NoLease, ![r].blocked = FALSE, ![r].observed = c]
           /\ IF repo[r].observed # c THEN InsertOrGet(<<r, c>>) ELSE UNCHANGED <<job, order>>
    <2>1. /\ repo' \in [Repository -> RepoType] /\ repo'[r].observed = c
          /\ \A q \in Repository \ {r} : repo'[q].observed = repo[q].observed
        <3> HIDE DEF r, c
        <3>1. PICK row : row = [repo[r] EXCEPT !.due = FALSE, !.lease = NoLease, !.blocked = FALSE, !.observed = c]
            OBVIOUS
        <3>2. repo' = [repo EXCEPT ![r] = row]
            BY <1>1, <1>2, <1>8, <3>1
        <3>3. row \in RepoType /\ row.observed = c
            BY <1>1, <1>2, <1>5, <1>8, <3>1 DEF RepoType
        <3> QED BY <1>1, <1>2, <3>2, <3>3
    <2>2. ProcessInv'
        BY <1>1, <1>3, <1>4, <2>1 DEF IInv, ProcessInv, CheckOK, BuildOK
    <2>3. <<r, c>> \in Job
        BY <1>2, <1>8 DEF Job
    <2>4. /\ TokenInv' /\ OneLiveBuild' /\ JobMatchesSnapshot' /\ OrderInv' /\ job'[<<r, c>>].status # "absent"
          /\ \A k \in Job : job[k].status # "absent" => job'[k].status # "absent"
        <3>1. CASE repo[r].observed # c
            BY <1>3, <1>8, <2>3, <3>1, InsertStep
        <3>2. CASE repo[r].observed = c
            <4>1. c # None
                BY <1>8, QueueAssumption
            <4>2. UNCHANGED <<job, order>>
                BY <1>8, <3>2
            <4>3. job[<<r, c>>].status # "absent"
                BY <1>2, <3>2, <4>1 DEF IInv, ObservedHasJob
            <4> QED BY <1>3, <4>2, <4>3, QueueStep, Rows DEF IInv, OrderInv
        <3> QED BY <3>1, <3>2
    <2>5. ObservedHasJob'
        <3> SUFFICES ASSUME NEW q \in Repository, repo'[q].observed # None
                     PROVE  job'[<<q, repo'[q].observed>>].status # "absent"
            BY DEF ObservedHasJob
        <3>1. CASE q = r
            BY <2>1, <2>4, <3>1
        <3>2. CASE q # r
            <4>1. repo'[q].observed = repo[q].observed /\ <<q, repo[q].observed>> \in Job
                BY <1>1, <2>1, <3>2 DEF RepoType, Job
            <4> QED BY <2>4, <4>1 DEF IInv, ObservedHasJob
        <3> QED BY <3>1, <3>2
    <2>6. CatalogInv' /\ BindInv'
        BY <1>3 DEF IInv, CatalogInv, BindInv, Readable
    <2> QED BY <2>2, <2>4, <2>5, <2>6 DEF IInv
<1> QED BY <1>6, <1>7, <1>8 DEF CompleteCheck

(* Between its two transactions a binding keeps what it has read.          *)
LEMMA BindingStep ==
    ASSUME IInv, NEW d \in Diagnosis, WriteBinding(d) \/ \E j \in Job : ReadForBinding(d, j)
    PROVE  IInv'
<1>1. UNCHANGED <<repo, job, order, slot, snapshot, archive, sched, work, head, commands>>
    BY DEF WriteBinding, ReadForBinding, tables, counters
<1>2. binding \in [Diagnosis -> Bound \cup {None}] /\ binder \in [Diagnosis -> Bound \cup {None}]
    BY DEF IInv, BindInv
<1>3. ASSUME WriteBinding(d) PROVE BindInv'
    <2>1. binding' \in [Diagnosis -> Bound \cup {None}] /\ binder' \in [Diagnosis -> Bound \cup {None}]
        BY <1>2, <1>3 DEF WriteBinding
    <2>2. /\ \A e \in Diagnosis \ {d} : binding'[e] = binding[e] /\ binder'[e] = binder[e]
          /\ binding'[d] = binder[d] /\ binder'[d] = None
        BY <1>2, <1>3 DEF WriteBinding
    <2> QED BY <1>1, <2>1, <2>2 DEF IInv, BindInv, Readable
<1>4. ASSUME \E j \in Job : ReadForBinding(d, j) PROVE BindInv'
    <2>1. PICK j \in Job : ReadForBinding(d, j)
        BY <1>4
    <2>2. PICK b : b = [key |-> j, generation |-> Len(archive[j]), quality |-> snapshot[j]]
        OBVIOUS
    <2>3. /\ snapshot[j] \in {"partial", "ready"} /\ archive[j] \in Seq({"partial", "ready"}) /\ Len(archive[j]) > 0
          /\ archive[j][Len(archive[j])] = snapshot[j]
        BY <2>1 DEF ReadForBinding, IInv, CatalogInv
    <2>4. b \in Bound /\ Readable(b)
        BY <2>2, <2>3 DEF Bound, Readable
    <2>5. binder' = [binder EXCEPT ![d] = b] /\ binding' = binding
        BY <2>1, <2>2 DEF ReadForBinding, tables
    <2>6. binder' \in [Diagnosis -> Bound \cup {None}] /\ binder'[d] = b /\ \A e \in Diagnosis \ {d} : binder'[e] = binder[e]
        BY <1>2, <2>4, <2>5
    <2> QED BY <1>1, <1>2, <2>4, <2>5, <2>6 DEF IInv, BindInv, Readable
<1>5. BindInv'
    BY <1>3, <1>4
<1>6. ProcessInv' /\ OrderInv' /\ TokenInv' /\ CatalogInv'
    BY <1>1 DEF IInv, ProcessInv, OrderInv, TokenInv, CatalogInv, CheckOK, BuildOK
<1>7. OneLiveBuild' /\ JobMatchesSnapshot' /\ ObservedHasJob'
    BY <1>1 DEF IInv, OneLiveBuild, JobMatchesSnapshot, ObservedHasJob
<1> QED BY <1>5, <1>6, <1>7 DEF IInv

-----------------------------------------------------------------------------
(* The invariant and what follows from it                                  *)

LEMMA Begins == Init => IInv
<1> SUFFICES ASSUME Init PROVE IInv
    OBVIOUS
<1>1. NoLease \in LeaseType /\ NoLease.token = None /\ ~NoLease.live /\ None \notin Token
    BY QueueAssumption DEF NoLease, LeaseType
<1>2. ProcessInv
    BY <1>1, IdleIsTyped DEF Init, ProcessInv, RepoType
<1>3. OrderInv
    BY DEF Init, OrderInv
<1>4. job \in [Job -> JobType] /\ \A j \in Job : job[j].status = "absent" /\ job[j].lease = NoLease
    BY <1>1 DEF Init, JobType, JobStatus
<1>5. TokenInv
    BY <1>1, <1>4, IdleIsTyped DEF Init, TokenInv
<1>6. CatalogInv /\ BindInv
    BY DEF Init, CatalogInv, BindInv
<1>7. OneLiveBuild /\ JobMatchesSnapshot /\ ObservedHasJob
    BY <1>1, <1>4 DEF Init, OneLiveBuild, JobMatchesSnapshot, ObservedHasJob
<1> QED BY <1>2, <1>3, <1>5, <1>6, <1>7 DEF IInv

LEMMA Stutter == ASSUME IInv, UNCHANGED vars PROVE IInv'
<1>1. UNCHANGED <<repo, job, order, slot, snapshot, archive, binding, sched, work, binder, head, commands>>
    BY DEF vars, tables, counters
<1>2. ProcessInv' /\ OrderInv' /\ TokenInv' /\ CatalogInv'
    BY ZenonT(60), <1>1 DEF IInv, ProcessInv, OrderInv, TokenInv, CatalogInv, CheckOK, BuildOK
<1>3. BindInv' /\ OneLiveBuild' /\ JobMatchesSnapshot' /\ ObservedHasJob'
    BY <1>1 DEF IInv, BindInv, Readable, OneLiveBuild, JobMatchesSnapshot, ObservedHasJob
<1> QED BY <1>2, <1>3 DEF IInv

LEMMA Step == IInv /\ [Next]_vars => IInv'
<1> SUFFICES ASSUME IInv, [Next]_vars PROVE IInv'
    OBVIOUS
<1>1. CASE \E w \in Worker : ClaimJob(w) \/ Building(w) \/ CrashWorker(w)
    BY <1>1, ClaimJobStep, BuildStep, PublishStep, FailJobStep, CrashWorkerStep DEF Building
<1>2. CASE \E s \in Scheduler : \/ \E r \in Repository : ClaimCheck(s, r)
                                \/ Checking(s) \/ SyncTimeout(s) \/ CrashScheduler(s)
    BY <1>2, ClaimCheckStep, SyncStep, CompleteCheckStep, SyncTimeoutStep, CrashSchedulerStep DEF Checking
<1>3. CASE \E t \in Token : LapseJob(t)
    BY <1>3, LapseJobStep
<1>4. CASE \E r \in Repository : \/ LapseCheck(r) \/ DueAgain(r) \/ Pause(r) \/ Resume(r)
                                 \/ \E c \in Commit : Push(r, c)
    BY <1>4, RepositoryStep, PauseStep
<1>5. CASE \E j \in Job : SubmitBuild(j) \/ RetryJob(j)
    BY <1>5, SubmitBuildStep, RetryJobStep
<1>6. CASE \E d \in Diagnosis : WriteBinding(d) \/ \E j \in Job : ReadForBinding(d, j)
    BY <1>6, BindingStep
<1>7. CASE UNCHANGED vars
    BY <1>7, Stutter
<1> QED BY <1>1, <1>2, <1>3, <1>4, <1>5, <1>6, <1>7 DEF Next

(* The leases, queue, catalog and bindings of the store agree between any  *)
(* two transactions, whoever crashed or came late (store.py).              *)
THEOREM InvariantHolds == Spec => []IInv
BY Begins, Step, PTL DEF Spec

(* At most one build is live over all processes; a job is succeeded just   *)
(* when its snapshot is ready, though failed builds and lost publications  *)
(* come late; no commit is observed without a job; and a diagnosis can     *)
(* read what it is bound to (store.py, bind_incident).                     *)
THEOREM CodeMapsAgree == Spec => []CodeMapAgrees
BY InvariantHolds, InvariantAgrees, PTL

(* Every step that publishes is one of the catalog, and no other step      *)
(* touches a generation or what is shown of it.                            *)
LEMMA CatalogStep == IInv /\ [Next]_vars => [Catalog!Next]_<<archive, snapshot>>
<1> SUFFICES ASSUME IInv, [Next]_vars PROVE Catalog!Next \/ UNCHANGED <<archive, snapshot>>
    OBVIOUS
<1>1. ASSUME NEW w \in Worker, Publish(w) PROVE Catalog!Next \/ UNCHANGED <<archive, snapshot>>
    <2>1. work[w].on \in Job /\ work[w].result \in Catalog!Quality
        BY <1>1, Rows DEF Publish, BuildOK, Catalog!Quality
    <2>2. CASE Fenced(w) /\ snapshot[work[w].on] # "ready"
        <3>1. Catalog!Publish(work[w].on, work[w].result)
            BY <1>1, <2>2 DEF Publish, Catalog!Publish
        <3> QED BY <2>1, <3>1 DEF Catalog!Next
    <2>3. CASE ~ (Fenced(w) /\ snapshot[work[w].on] # "ready")
        BY <1>1, <2>3 DEF Publish
    <2> QED BY <2>2, <2>3
<1>2. CASE \E w \in Worker : ClaimJob(w) \/ Build(w) \/ FailJob(w) \/ CrashWorker(w)
    BY <1>2 DEF ClaimJob, Build, FailJob, CrashWorker, tables
<1>3. CASE \E s \in Scheduler : \/ \E r \in Repository : ClaimCheck(s, r)
                                \/ Checking(s) \/ SyncTimeout(s) \/ CrashScheduler(s)
    BY <1>3 DEF ClaimCheck, Checking, Sync, CompleteCheck, SyncTimeout, CrashScheduler, tables
<1>4. CASE \/ \E t \in Token : LapseJob(t)
           \/ \E r \in Repository : LapseCheck(r) \/ DueAgain(r) \/ Pause(r) \/ Resume(r) \/ \E c \in Commit : Push(r, c)
    BY <1>4 DEF LapseJob, LapseCheck, DueAgain, Pause, Resume, Push, tables
<1>5. CASE \/ \E j \in Job : SubmitBuild(j) \/ RetryJob(j)
           \/ \E d \in Diagnosis : WriteBinding(d) \/ \E j \in Job : ReadForBinding(d, j)
    BY <1>5 DEF SubmitBuild, RetryJob, WriteBinding, ReadForBinding, tables
<1>6. CASE UNCHANGED vars
    BY <1>6 DEF vars, tables
<1> QED BY <1>1, <1>2, <1>3, <1>4, <1>5, <1>6 DEF Next, Building

(* For its readers the store, its queue, workers and leases together are   *)
(* a catalog: the generations of a build input only grow, and no longer    *)
(* once one of them is complete (publish, store.py).                       *)
THEOREM ImplementsCatalog == Spec => CatalogSpec
<1>1. Init => Catalog!Init
    BY DEF Init, Catalog!Init
<1> QED BY <1>1, InvariantHolds, CatalogStep, PTL DEF Spec, CatalogSpec, Catalog!Spec

(* A step at a repository r that is paused and stays paused.               *)
LeaseOnlyEnds(r) ==
    /\ repo'[r].lease.live => repo[r].lease = repo'[r].lease
    /\ repo'[r].observed # repo[r].observed => repo[r].lease.live /\ ~repo'[r].lease.live
NothingIsQueued(r) ==
    commands' = commands => \A c \in Commit :
        job'[<<r, c>>].status = "queued" =>
            job[<<r, c>>].status = "queued" \/ (repo'[r].observed = c /\ repo[r].observed # c)

LEMMA PausedCheck ==
    ASSUME IInv, NEW r \in Repository, ~repo[r].enabled, ~repo'[r].enabled, NEW s \in Scheduler,
           \/ \E q \in Repository : ClaimCheck(s, q)
           \/ Checking(s) \/ SyncTimeout(s) \/ CrashScheduler(s)
    PROVE  LeaseOnlyEnds(r) /\ NothingIsQueued(r)
<1>1. repo \in [Repository -> RepoType] /\ repo[r] \in RepoType /\ \A q \in Scheduler : CheckOK(sched[q])
    BY DEF IInv, ProcessInv
<1>2. CASE \E q \in Repository : ClaimCheck(s, q)
    <2>1. PICK q \in Repository : ClaimCheck(s, q)
        BY <1>2
    <2>2. repo'[r] = repo[r] /\ job' = job
        BY <1>1, <2>1 DEF ClaimCheck
    <2> QED BY <2>2 DEF LeaseOnlyEnds, NothingIsQueued
<1>3. CASE Sync(s) \/ CrashScheduler(s)
    BY <1>3 DEF Sync, CrashScheduler, tables, LeaseOnlyEnds, NothingIsQueued
<1>4. CASE SyncTimeout(s)
    <2>1. repo'[r] = repo[r] \/ repo'[r] = [repo[r] EXCEPT !.lease = Lapsed(repo[r].lease)]
        BY <1>1, <1>4 DEF SyncTimeout
    <2>2. ~Lapsed(repo[r].lease).live
        BY <1>1 DEF Lapsed, RepoType, LeaseType
    <2>3. repo'[r].observed = repo[r].observed /\ (repo'[r].lease = repo[r].lease \/ ~repo'[r].lease.live)
        BY <1>1, <2>1, <2>2 DEF RepoType
    <2> QED BY <1>4, <2>3 DEF SyncTimeout, LeaseOnlyEnds, NothingIsQueued
<1>5. CASE CompleteCheck(s) /\ sched[s].on # r
    <2>1. repo'[r] = repo[r]
        BY <1>1, <1>5 DEF CompleteCheck
    <2>2. \A c \in Commit : job'[<<r, c>>] = job[<<r, c>>]
        <3>1. \A c \in Commit : <<r, c>> \in Job
            BY DEF Job
        <3> QED BY <1>5, <3>1, Rows DEF CompleteCheck, InsertOrGet
    <2> QED BY <2>1, <2>2 DEF LeaseOnlyEnds, NothingIsQueued
<1>6. CASE CompleteCheck(s) /\ sched[s].on = r
    <2>1. NoLease.live = FALSE
        BY DEF NoLease
    <2>2. CASE UNCHANGED <<repo, job>>
        BY <2>2 DEF LeaseOnlyEnds, NothingIsQueued
    <2>3. CASE /\ repo' = [repo EXCEPT ![r].due = FALSE, ![r].lease = NoLease, ![r].blocked = (sched[s].result = "auth_failed")]
               /\ UNCHANGED job
        <3>1. repo'[r].observed = repo[r].observed /\ repo'[r].lease = NoLease
            BY <1>1, <2>3 DEF RepoType
        <3> QED BY <2>1, <2>3, <3>1 DEF LeaseOnlyEnds, NothingIsQueued
    <2>4. CASE /\ CheckLive(s)
               /\ repo' = [repo EXCEPT ![r].due = FALSE, ![r].lease = NoLease, ![r].blocked = FALSE, ![r].observed = sched[s].result]
               /\ IF repo[r].observed # sched[s].result THEN InsertOrGet(<<r, sched[s].result>>) ELSE UNCHANGED <<job, order>>
        <3>1. repo'[r].observed = sched[s].result /\ repo'[r].lease = NoLease
            BY <1>1, <2>4 DEF RepoType
        <3>2. repo[r].lease.live
            BY <1>6, <2>4 DEF CheckLive, Lease
        <3>3. \A c \in Commit : job'[<<r, c>>] # job[<<r, c>>] => c = sched[s].result /\ repo[r].observed # c
            <4>1. \A c \in Commit : <<r, c>> \in Job
                BY DEF Job
            <4>2. CASE repo[r].observed = sched[s].result
                BY <2>4, <4>2
            <4>3. CASE repo[r].observed # sched[s].result
                <5>1. \A c \in Commit : job'[<<r, c>>] # job[<<r, c>>] => <<r, c>> = <<r, sched[s].result>>
                    BY <2>4, <4>1, <4>3, Rows DEF InsertOrGet
                <5> QED BY <4>3, <5>1
            <4> QED BY <4>2, <4>3
        <3> QED BY <2>1, <3>1, <3>2, <3>3 DEF LeaseOnlyEnds, NothingIsQueued
    <2> QED BY <1>6, <2>2, <2>3, <2>4 DEF CompleteCheck
<1> QED BY <1>2, <1>3, <1>4, <1>5, <1>6 DEF Checking

LEMMA PausedJobs ==
    ASSUME IInv, NEW r \in Repository,
           \/ \E w \in Worker : ClaimJob(w) \/ Building(w) \/ CrashWorker(w)
           \/ \E t \in Token : LapseJob(t)
    PROVE  LeaseOnlyEnds(r) /\ NothingIsQueued(r)
<1>1. repo' = repo
    BY DEF ClaimJob, Building, Build, Publish, FailJob, CrashWorker, LapseJob, tables
<1>2. ASSUME NEW j \in Job PROVE job'[j].status = "queued" => job[j].status = "queued"
    <2>1. CASE \E w \in Worker : ClaimJob(w)
        BY <2>1, Rows DEF ClaimJob
    <2>2. CASE \E w \in Worker : Build(w) \/ CrashWorker(w)
        BY <2>2 DEF Build, CrashWorker, tables
    <2>3. CASE \E w \in Worker : Publish(w)
        <3>1. PICK w \in Worker : Publish(w)
            BY <2>3
        <3>2. job[j] \in JobType /\ job[work[w].on] \in JobType
            BY <3>1, Rows DEF Publish, BuildOK
        <3>3. PICK ending : ending = IF work[w].result = "partial" THEN work[w].result ELSE "succeeded"
            OBVIOUS
        <3>4. job' = job \/ job' = [job EXCEPT ![work[w].on].status = ending, ![work[w].on].lease = NoLease]
            BY <3>1, <3>3 DEF Publish
        <3>5. ending # "queued"
            BY <3>3
        <3> QED BY <3>2, <3>4, <3>5, Rows DEF JobType
    <2>4. CASE \E w \in Worker : FailJob(w)
        <3>1. PICK w \in Worker : job' = job \/ job' = [job EXCEPT ![work[w].on].status = "failed", ![work[w].on].lease = NoLease]
            BY <2>4 DEF FailJob
        <3> QED BY <3>1, Rows DEF JobType
    <2>5. CASE \E t \in Token : LapseJob(t)
        <3>1. job'[j] = job[j] \/ job'[j] = [job[j] EXCEPT !.lease = Lapsed(job[j].lease)]
            BY <2>5 DEF LapseJob
        <3> QED BY <3>1, Rows DEF JobType
    <2> QED BY <2>1, <2>2, <2>3, <2>4, <2>5 DEF Building
<1>3. \A c \in Commit : <<r, c>> \in Job
    BY DEF Job
<1> QED BY <1>1, <1>2, <1>3 DEF LeaseOnlyEnds, NothingIsQueued

LEMMA PausedOthers ==
    ASSUME IInv, NEW r \in Repository, ~repo[r].enabled, ~repo'[r].enabled,
           \/ \E q \in Repository : \/ LapseCheck(q) \/ DueAgain(q) \/ Pause(q) \/ Resume(q)
                                    \/ \E c \in Commit : Push(q, c)
           \/ \E j \in Job : SubmitBuild(j) \/ RetryJob(j)
           \/ \E d \in Diagnosis : WriteBinding(d) \/ \E j \in Job : ReadForBinding(d, j)
    PROVE  LeaseOnlyEnds(r) /\ NothingIsQueued(r)
<1>1. repo \in [Repository -> RepoType] /\ repo[r] \in RepoType /\ commands \in Nat
    BY DEF IInv, ProcessInv
<1>2. CASE \E q \in Repository : LapseCheck(q)
    <2>1. repo'[r] = repo[r] \/ repo'[r] = [repo[r] EXCEPT !.lease = Lapsed(repo[r].lease)]
        BY <1>1, <1>2 DEF LapseCheck
    <2>2. ~Lapsed(repo[r].lease).live
        BY <1>1 DEF Lapsed, RepoType, LeaseType
    <2>3. repo'[r].observed = repo[r].observed /\ (repo'[r].lease = repo[r].lease \/ ~repo'[r].lease.live)
        BY <1>1, <2>1, <2>2 DEF RepoType
    <2> QED BY <1>2, <2>3 DEF LapseCheck, LeaseOnlyEnds, NothingIsQueued
<1>3. CASE \E q \in Repository : DueAgain(q)
    <2>1. repo'[r].observed = repo[r].observed /\ repo'[r].lease = repo[r].lease
        BY <1>1, <1>3 DEF DueAgain, RepoType
    <2> QED BY <1>3, <2>1 DEF DueAgain, LeaseOnlyEnds, NothingIsQueued
<1>4. CASE \/ \E q \in Repository : Pause(q) \/ Resume(q)
           \/ \E j \in Job : SubmitBuild(j) \/ RetryJob(j)
    <2>1. commands' # commands
        <3>1. Command
            BY <1>4 DEF Pause, Resume, SubmitBuild, RetryJob
        <3> QED BY <1>1, <3>1 DEF Command
    <2>2. repo'[r].observed = repo[r].observed /\ repo'[r].lease = repo[r].lease
        <3>1. CASE \E q \in Repository : Pause(q)
            <4>1. PICK q \in Repository : repo' = [repo EXCEPT ![q].enabled = FALSE]
                BY <3>1 DEF Pause
            <4> QED BY <1>1, <4>1 DEF RepoType
        <3>2. CASE \E q \in Repository : Resume(q)
            <4>1. PICK q \in Repository : repo' = [repo EXCEPT ![q].enabled = TRUE, ![q].blocked = FALSE, ![q].due = TRUE]
                BY <3>2 DEF Resume
            <4> QED BY <1>1, <4>1 DEF RepoType
        <3>3. CASE \E j \in Job : SubmitBuild(j) \/ RetryJob(j)
            BY <3>3 DEF SubmitBuild, RetryJob
        <3> QED BY <1>4, <3>1, <3>2, <3>3
    <2> QED BY <2>1, <2>2 DEF LeaseOnlyEnds, NothingIsQueued
<1>5. CASE \/ \E q \in Repository, c \in Commit : Push(q, c)
           \/ \E d \in Diagnosis : WriteBinding(d) \/ \E j \in Job : ReadForBinding(d, j)
    BY <1>5 DEF Push, WriteBinding, ReadForBinding, tables, LeaseOnlyEnds, NothingIsQueued
<1> QED BY <1>2, <1>3, <1>4, <1>5

(* complete_check does not ask whether its repository was paused in the    *)
(* meantime, and needs not for this: of the checks under way one at most   *)
(* can still observe a commit, and it ends with that (store.py).           *)
THEOREM PausesHold == Spec => [][PauseLetsOneCheckPass]_vars
<1>1. ASSUME IInv, [Next]_vars PROVE PauseLetsOneCheckPass
    <2>1. ASSUME NEW r \in Repository, ~repo[r].enabled, ~repo'[r].enabled
          PROVE  LeaseOnlyEnds(r) /\ NothingIsQueued(r)
        <3>1. CASE UNCHANGED vars
            BY <3>1 DEF vars, tables, LeaseOnlyEnds, NothingIsQueued
        <3>2. CASE Next
            BY <1>1, <2>1, <3>2, PausedCheck, PausedJobs, PausedOthers DEF Next
        <3> QED BY <1>1, <3>1, <3>2
    <2> QED BY <2>1 DEF PauseLetsOneCheckPass, LeaseOnlyEnds, NothingIsQueued
<1> QED BY <1>1, InvariantHolds, PTL DEF Spec
-----------------------------------------------------------------------------
(* The clone the commits are read from (GitCache).                         *)
CONSTANTS Process, Ref, Revision, Tracks, MaxRevisions, MaxSyncs
VARIABLES tip, clone, objects, fetched, pins, lock, step, commit, known, seen, synced, wrong, changes, ended
Git == INSTANCE GitCache

GitAt == {"idle", "ensure", "fetch", "parse", "pin", "read"}

GitType ==
    /\ tip \in [Ref -> Revision] /\ fetched \in Revision \cup {"none"}
    /\ step \in [Process -> GitAt] /\ commit \in [Process -> Revision \cup {"none"}]
    /\ known \in [Process -> SUBSET Revision] /\ seen \in [Process -> SUBSET Revision]
    /\ lock \in Process \cup {"none"} /\ objects \subseteq Revision

(* A process is within a sync or a read just while it holds the lock, and  *)
(* each step finds what the one before it left.                            *)
LockInv ==
    \A p \in Process :
        /\ step[p] # "idle" <=> lock = p
        /\ step[p] \in {"ensure", "fetch", "parse", "pin"} => tip[Tracks[p]] \in seen[p]
        /\ step[p] = "parse" => fetched \in objects \cap seen[p]
        /\ step[p] = "pin" => commit[p] \in objects \cap seen[p]
        /\ step[p] = "read" => commit[p] \in synced
        /\ step[p] \in {"fetch", "parse", "pin", "read"} => clone = "ready"

(* What was returned or verified has a pin, which a prune leaves alone.    *)
PinInv ==
    /\ ~wrong /\ synced \subseteq pins /\ pins \subseteq objects
    /\ \A p \in Process : known[p] \subseteq pins
    /\ clone # "ready" => synced = {}

GitInv == GitType /\ LockInv /\ PinInv

(* The clone a service begins with is no clone at all.                     *)
LEMMA GitInitInv == ASSUME Git!ConstantsOK, Git!GitInit PROVE GitInv
BY DEF Git!ConstantsOK, Git!GitInit, GitInv, GitType, LockInv, PinInv, GitAt

(* Nothing a process, a push, a fault or a prune does breaks it.           *)
LEMMA GitStepInv == ASSUME Git!ConstantsOK, GitInv, [Git!GitNext]_(Git!gitState) PROVE GitInv'
<1> USE DEF Git!ConstantsOK, GitInv, GitType, LockInv, PinInv, GitAt
<1>1. ASSUME NEW f \in Ref, Git!Push(f) PROVE GitInv'
  BY <1>1 DEF Git!Push
<1>2. ASSUME NEW p \in Process, Git!Begin(p) PROVE GitInv'
  BY <1>2 DEF Git!Begin, Git!LockFree, Git!Go
<1>3. ASSUME NEW p \in Process, Git!Ensure(p) PROVE GitInv'
  BY <1>3 DEF Git!Ensure, Git!Go
<1>4. ASSUME NEW p \in Process, Git!Fetch(p) PROVE GitInv'
  BY <1>4 DEF Git!Fetch, Git!Go
<1>5. ASSUME NEW p \in Process, Git!RevParse(p) PROVE GitInv'
  BY <1>5 DEF Git!RevParse, Git!Go
<1>6. ASSUME NEW p \in Process, Git!Pin(p) PROVE GitInv'
  <2>1. GitType' /\ LockInv'
    BY <1>6 DEF Git!Pin, Git!Returned, Git!Leave, Git!Go
  <2>2. PinInv'
    <3>1. commit[p] \in objects \cap seen[p] /\ clone = "ready"
      BY <1>6 DEF Git!Pin
    <3>2. pins' = pins \cup {commit[p]} /\ known' = [known EXCEPT ![p] = @ \cup {commit[p]}]
      BY <1>6 DEF Git!Pin
    <3>3. synced' = synced \cup {commit[p]} /\ wrong' = FALSE /\ UNCHANGED <<objects, clone>>
      BY <1>6, <3>1 DEF Git!Pin, Git!Returned
    <3>4. \A q \in Process : known'[q] \subseteq pins'
      BY <3>2
    <3> QED BY <3>1, <3>2, <3>3, <3>4
  <2> QED BY <2>1, <2>2
<1>7. ASSUME NEW p \in Process, Git!Fault(p) PROVE GitInv'
  BY <1>7 DEF Git!Fault, Git!Leave, Git!Go
<1>8. ASSUME NEW p \in Process, Git!Broken(p) PROVE GitInv'
  BY <1>8 DEF Git!Broken, Git!Leave, Git!Go
<1>9. ASSUME NEW p \in Process, Git!Open(p) PROVE GitInv'
  BY <1>9 DEF Git!Open, Git!LockFree, Git!Go
<1>10. ASSUME NEW p \in Process, Git!ReadObjects(p) PROVE GitInv'
  <2>1. commit[p] \in pins /\ known' = [known EXCEPT ![p] = @ \cup {commit[p]}] /\ ~wrong'
    <3>1. commit[p] \in synced
      BY <1>10 DEF Git!ReadObjects
    <3>2. commit[p] \in objects /\ objects \cap {commit[p]} = {commit[p]}
      BY <3>1
    <3>3. known' = [known EXCEPT ![p] = @ \cup {commit[p]}]
      BY <1>10, <3>2 DEF Git!ReadObjects
    <3>4. ~wrong'
      BY <1>10, <3>2 DEF Git!ReadObjects
    <3> QED BY <3>1, <3>3, <3>4
  <2>2. step' = [step EXCEPT ![p] = "idle"] /\ lock' = "none"
    BY <1>10 DEF Git!ReadObjects, Git!Leave, Git!Go
  <2>3. GitType'
    BY <1>10, <2>1, <2>2 DEF Git!ReadObjects
  <2>4. LockInv'
    <3>1. UNCHANGED <<tip, clone, objects, fetched, commit, seen, synced>>
      BY <1>10 DEF Git!ReadObjects
    <3>2. \A q \in Process : step'[q] # "idle" => step'[q] = step[q] /\ q # p
      BY <2>2
    <3>3. lock = p
      BY <1>10 DEF Git!ReadObjects
    <3> QED BY <3>1, <3>2, <3>3, <2>2
  <2>5. PinInv'
    BY <1>10, <2>1 DEF Git!ReadObjects
  <2> QED BY <2>3, <2>4, <2>5
<1>11. CASE UNCHANGED Git!gitState
  BY <1>11 DEF Git!gitState
<1> QED BY <1>1, <1>2, <1>3, <1>4, <1>5, <1>6, <1>7, <1>8, <1>9, <1>10, <1>11 DEF Git!GitNext

(* What sync_ref returns was its own ref's commit at some time of the sync *)
(* and has its objects and its pin from then on, and list_tree, read_blob  *)
(* and diff_paths find the objects of every commit that was returned: for  *)
(* every number of processes and refs that share the clone, and any number *)
(* of pushes, prunes and faults.                                           *)
THEOREM CloneStaysSound ==
    ASSUME Git!ConstantsOK
    PROVE  Git!GitInit /\ [][Git!GitNext]_(Git!gitState) => []Git!CloneIsSound
<1>1. GitInv => Git!CloneIsSound
  BY DEF GitInv, PinInv, Git!CloneIsSound
<1> QED BY <1>1, GitInitInv, GitStepInv, PTL
-----------------------------------------------------------------------------
(* The facts of one commit (SnapshotBuild).                                *)
CONSTANTS Content, MaxFiles, MaxFileBytes, MaxTextBytes
Builder == INSTANCE SnapshotBuild

LEMMA RowCount == \A S : Builder!Cardinality(S) = Cardinality(S)
BY Zenon DEF Builder!Cardinality, Cardinality

(* A cached fact is of the file's own path and content: whatever an        *)
(* earlier build put there, it is what parsing would give.                 *)
LEMMA CachedIsParsed ==
    ASSUME NEW before, NEW tree, Builder!SameLanguages(before, tree),
           NEW Id, NEW lease \in [repository : Id, commit : Id, parser : Id, rules : Id, multi : BOOLEAN],
           NEW e \in Builder!Read(tree, lease)
    PROVE  /\ Builder!Facts(Builder!NoFacts, e, lease) = Builder!Parse(e)
           /\ Builder!Facts(Builder!After([lease EXCEPT !.commit = "earlier"], before), e, lease) = Builder!Parse(e)
<1> DEFINE earlier == [lease EXCEPT !.commit = "earlier"]
           cache == Builder!After(earlier, before)
           key == Builder!Key(e, lease)
           same(d) == Builder!Key(d, earlier) = key
<1>1. Builder!Facts(Builder!NoFacts, e, lease) = Builder!Parse(e)
    BY DEF Builder!Facts, Builder!NoFacts
<1>2. CASE Builder!OverBudget(before)
    BY <1>1, <1>2 DEF Builder!After
<1>3. CASE ~Builder!OverBudget(before)
    <2>1. cache = Builder!Cached(Builder!NoFacts, before, earlier)
        BY <1>3 DEF Builder!After
    <2>2. /\ DOMAIN cache = {Builder!Key(d, earlier) : d \in Builder!Read(before, earlier)}
          /\ \A k \in DOMAIN cache :
                cache[k] = Builder!Parse(CHOOSE d \in Builder!Read(before, earlier) : Builder!Key(d, earlier) = k)
        BY <2>1 DEF Builder!Cached, Builder!NoFacts
    <2>3. CASE key \notin DOMAIN cache
        BY <1>1, <2>3 DEF Builder!Facts
    <2>4. CASE key \in DOMAIN cache
        <3>1. PICK d \in Builder!Read(before, earlier) : same(d) /\ cache[key] = Builder!Parse(d)
            <4> DEFINE d == CHOOSE d \in Builder!Read(before, earlier) : Builder!Key(d, earlier) = key
            <4>1. \E f \in Builder!Read(before, earlier) : Builder!Key(f, earlier) = key
                BY <2>2, <2>4
            <4>2. d \in Builder!Read(before, earlier) /\ same(d)
                BY <4>1
            <4> HIDE DEF d, cache, key
            <4>3. cache[key] = Builder!Parse(d)
                BY <2>2, <2>4 DEF d
            <4> QED BY <4>2, <4>3
        <3>2. d.blob = e.blob /\ d.path = e.path
            BY <3>1 DEF Builder!Key
        <3>3. d \in Builder!ToSet(before) /\ e \in Builder!ToSet(tree)
            BY DEF Builder!Read
        <3>4. d.language = e.language
            BY <3>2, <3>3 DEF Builder!SameLanguages
        <3>5. Builder!Parse(d) = Builder!Parse(e)
            BY <3>2, <3>4 DEF Builder!Parse
        <3>6. Builder!Facts(cache, e, lease) = cache[key]
            BY <2>4 DEF Builder!Facts
        <3> QED BY <1>1, <3>1, <3>5, <3>6
    <2> QED BY <2>3, <2>4
<1> QED BY <1>1, <1>2, <1>3

(* What is staged of a file, by its entry.                                 *)
Symbols(e) == IF Content[e.blob].parses THEN DOMAIN Content[e.blob].symbols ELSE {}
Row(lease, e, k) == Builder!Node(Builder!SnapshotId(lease), e.path, Content[e.blob].symbols[k])
Parsed(lease, e) == Builder!Rebind(Builder!Parse(e), Builder!SnapshotId(lease))

LEMMA RowIs ==
    ASSUME NEW S, NEW p, NEW symbol
    PROVE  LET old == Builder!Node(Builder!FileFacts, p, symbol) IN
           /\ Builder!Rename(S, old.id) = Builder!NodeId(S, p, symbol)
           /\ [old EXCEPT !.id = Builder!Rename(S, old.id), !.scope = S] = Builder!Node(S, p, symbol)
<1> DEFINE old == Builder!Node(Builder!FileFacts, p, symbol)
<1>1. Builder!Rename(S, Builder!NodeId(Builder!FileFacts, p, symbol)) = Builder!NodeId(S, p, symbol)
    BY DEF Builder!NodeId, Builder!Rename
<1>2. old.id = Builder!NodeId(Builder!FileFacts, p, symbol)
    BY DEF Builder!Node
<1>3. ASSUME NEW id
      PROVE  [old EXCEPT !.id = id, !.scope = S] =
          [id |-> id, scope |-> S, path |-> p, name |-> symbol.name, kind |-> symbol.kind, first |-> symbol.first, last |-> symbol.last]
    <2> DEFINE fields == {"id", "scope", "path", "name", "kind", "first", "last"}
               moved == [old EXCEPT !.id = id, !.scope = S]
               wanted == [id |-> id, scope |-> S, path |-> p, name |-> symbol.name, kind |-> symbol.kind,
                          first |-> symbol.first, last |-> symbol.last]
    <2>1. /\ old = [x \in fields |-> old[x]] /\ old.path = p /\ old.name = symbol.name /\ old.kind = symbol.kind
          /\ old.first = symbol.first /\ old.last = symbol.last
        BY DEF Builder!Node
    <2>2. wanted = [x \in fields |-> wanted[x]] /\ wanted.id = id /\ wanted.scope = S /\ wanted.path = p
          /\ wanted.name = symbol.name /\ wanted.kind = symbol.kind /\ wanted.first = symbol.first /\ wanted.last = symbol.last
        OBVIOUS
    <2> HIDE DEF old, wanted
    <2>3. moved = [x \in fields |-> moved[x]] /\ moved.id = id /\ moved.scope = S
          /\ \A x \in fields \ {"id", "scope"} : moved[x] = old[x]
        BY <2>1
    <2> HIDE DEF moved
    <2>4. \A x \in fields : moved[x] = wanted[x]
        BY <2>1, <2>2, <2>3
    <2>5. moved = wanted
        BY <2>2, <2>3, <2>4
    <2> QED BY <2>5 DEF moved, wanted
<1>4. Builder!Node(S, p, symbol) =
          [id |-> Builder!NodeId(S, p, symbol), scope |-> S, path |-> p, name |-> symbol.name, kind |-> symbol.kind,
           first |-> symbol.first, last |-> symbol.last]
    BY DEF Builder!Node
<1> HIDE DEF old
<1>5. [old EXCEPT !.id = Builder!Rename(S, old.id), !.scope = S] = Builder!Node(S, p, symbol)
    BY <1>1, <1>2, <1>3, <1>4
<1> QED BY <1>1, <1>2, <1>5 DEF old

LEMMA ParsedRows ==
    ASSUME Builder!ContentHolds, NEW lease, NEW e, e.blob \in DOMAIN Content
    PROVE  LET file == Parsed(lease, e) IN
           /\ file.path = e.path /\ file.blob = e.blob /\ file.parses = Content[e.blob].parses
           /\ file.tree = (e.language = "python")
           /\ file.nodes = {Row(lease, e, k) : k \in Symbols(e)}
           /\ \A c \in file.chunks : \E n \in file.nodes :
                 c.node = n.id /\ c.scope = Builder!SnapshotId(lease) /\ c.id[1] = c.node
           /\ \A p \in file.parents : \E m, n \in file.nodes : p = <<m.id, n.id>>
<1> DEFINE S == Builder!SnapshotId(lease)
           facts == Content[e.blob]
           parsed == Builder!Parse(e)
           file == Parsed(lease, e)
           old(k) == Builder!NodeId(Builder!FileFacts, e.path, facts.symbols[k])
           new(k) == Builder!NodeId(S, e.path, facts.symbols[k])
<1>1. /\ parsed.path = e.path /\ parsed.blob = e.blob /\ parsed.parses = facts.parses
      /\ parsed.tree = (e.language = "python")
      /\ parsed.nodes = {Builder!Node(Builder!FileFacts, e.path, facts.symbols[k]) : k \in Symbols(e)}
      /\ \A c \in parsed.chunks : \E k \in Symbols(e) : \E piece \in facts.symbols[k].pieces :
            c = [id |-> Builder!ChunkId(old(k), piece), node |-> old(k), scope |-> Builder!FileFacts, path |-> e.path,
                 from |-> piece.from, to |-> piece.to]
      /\ parsed.parents = {<<old(k), old(facts.symbols[k].parent)>> : k \in {j \in Symbols(e) : facts.symbols[j].parent # 0}}
    BY DEF Builder!Parse, Symbols
<1>2. \A k : Builder!Rename(S, old(k)) = new(k)
    BY DEF Builder!NodeId, Builder!Rename
<1>3. /\ file.path = parsed.path /\ file.blob = parsed.blob /\ file.parses = parsed.parses /\ file.tree = parsed.tree
      /\ file.nodes = {[n EXCEPT !.id = Builder!Rename(S, n.id), !.scope = S] : n \in parsed.nodes}
      /\ file.chunks = {[c EXCEPT !.id = Builder!ChunkId(Builder!Rename(S, c.node), c), !.node = Builder!Rename(S, c.node), !.scope = S] :
                            c \in parsed.chunks}
      /\ file.parents = {<<Builder!Rename(S, p[1]), Builder!Rename(S, p[2])>> : p \in parsed.parents}
    <2> DEFINE N == {[n EXCEPT !.id = Builder!Rename(S, n.id), !.scope = S] : n \in parsed.nodes}
               C == {[c EXCEPT !.id = Builder!ChunkId(Builder!Rename(S, c.node), c), !.node = Builder!Rename(S, c.node), !.scope = S] :
                        c \in parsed.chunks}
               P == {<<Builder!Rename(S, p[1]), Builder!Rename(S, p[2])>> : p \in parsed.parents}
    <2>1. DOMAIN parsed = {"path", "blob", "parses", "tree", "nodes", "chunks", "parents"}
        BY DEF Builder!Parse
    <2>2. file = [parsed EXCEPT !.nodes = N, !.chunks = C, !.parents = P]
        BY DEF Parsed, Builder!Rebind
    <2> HIDE DEF N, C, P, parsed, file
    <2>3. /\ file.path = parsed.path /\ file.blob = parsed.blob /\ file.parses = parsed.parses /\ file.tree = parsed.tree
          /\ file.nodes = N /\ file.chunks = C /\ file.parents = P
        BY <2>1, <2>2
    <2> QED BY <2>3 DEF N, C, P
<1> HIDE DEF parsed, file
<1>5. file.nodes = {Row(lease, e, k) : k \in Symbols(e)}
    <2>1. \A k : LET n == Builder!Node(Builder!FileFacts, e.path, facts.symbols[k]) IN
             [n EXCEPT !.id = Builder!Rename(S, n.id), !.scope = S] = Row(lease, e, k)
        BY RowIs DEF Row
    <2> DEFINE move(n) == [n EXCEPT !.id = Builder!Rename(S, n.id), !.scope = S]
               node(k) == Builder!Node(Builder!FileFacts, e.path, facts.symbols[k])
    <2>2. /\ file.nodes = {move(n) : n \in parsed.nodes} /\ parsed.nodes = {node(k) : k \in Symbols(e)}
          /\ \A k : move(node(k)) = Row(lease, e, k)
        BY <1>1, <1>3, <2>1
    <2> HIDE DEF move, node
    <2> QED BY <2>2
<1>6. \A k \in Symbols(e) : Row(lease, e, k).id = new(k)
    BY DEF Row, Builder!Node
<1>7. \A c \in file.chunks : \E n \in file.nodes :
         c.node = n.id /\ c.scope = S /\ c.id[1] = c.node
    <2> TAKE c \in file.chunks
    <2>1. PICK d \in parsed.chunks :
             c = [d EXCEPT !.id = Builder!ChunkId(Builder!Rename(S, d.node), d), !.node = Builder!Rename(S, d.node), !.scope = S]
        BY <1>3
    <2>2. PICK k \in Symbols(e) : \E piece \in facts.symbols[k].pieces :
             d = [id |-> Builder!ChunkId(old(k), piece), node |-> old(k), scope |-> Builder!FileFacts, path |-> e.path,
                  from |-> piece.from, to |-> piece.to]
        BY <1>1
    <2>3. d.node = old(k) /\ {"id", "node", "scope"} \subseteq DOMAIN d
        BY <2>2
    <2>4. c.node = Builder!Rename(S, d.node) /\ c.scope = S /\ c.id = Builder!ChunkId(Builder!Rename(S, d.node), d)
        BY <2>1, <2>3
    <2>5. c.node = new(k) /\ c.id[1] = c.node
        BY <1>2, <2>3, <2>4 DEF Builder!ChunkId
    <2> QED BY <1>5, <1>6, <2>4, <2>5
<1>8. \A p \in file.parents : \E m, n \in file.nodes : p = <<m.id, n.id>>
    <2> TAKE p \in file.parents
    <2>1. PICK k \in Symbols(e) :
             /\ facts.symbols[k].parent # 0
             /\ p = <<Builder!Rename(S, old(k)), Builder!Rename(S, old(facts.symbols[k].parent))>>
        <3>1. PICK q \in parsed.parents : p = <<Builder!Rename(S, q[1]), Builder!Rename(S, q[2])>>
            BY <1>3
        <3>2. PICK k \in Symbols(e) : facts.symbols[k].parent # 0 /\ q = <<old(k), old(facts.symbols[k].parent)>>
            BY <1>1
        <3>3. q[1] = old(k) /\ q[2] = old(facts.symbols[k].parent)
            BY <3>2
        <3> QED BY <3>1, <3>2, <3>3
    <2>2. facts.symbols[k].parent \in Symbols(e)
        BY <2>1 DEF Builder!ContentHolds, Symbols
    <2>3. p = <<new(k), new(facts.symbols[k].parent)>>
        BY <1>2, <2>1
    <2> QED BY <1>5, <1>6, <2>2, <2>3
<1> QED BY <1>1, <1>3, <1>5, <1>7, <1>8 DEF file

(* A row is known by its identity.                                         *)
LEMMA RowsDiffer ==
    ASSUME NEW lease, NEW d, NEW e, NEW j, NEW k
    PROVE  /\ Row(lease, e, k).scope = Builder!SnapshotId(lease) /\ Row(lease, e, k).path = e.path
           /\ Row(lease, e, k).id = Builder!NodeId(Builder!SnapshotId(lease), e.path, Row(lease, e, k))
           /\ Row(lease, e, k).id[2] = e.path
           /\ Row(lease, d, j).id = Row(lease, e, k).id => Row(lease, d, j) = Row(lease, e, k)
<1> DEFINE S == Builder!SnapshotId(lease)
           s == Content[e.blob].symbols[k]
           t == Content[d.blob].symbols[j]
           row == Row(lease, e, k)
           other == Row(lease, d, j)
<1>1. /\ row = [id |-> Builder!NodeId(S, e.path, s), scope |-> S, path |-> e.path, name |-> s.name, kind |-> s.kind,
                first |-> s.first, last |-> s.last]
      /\ other = [id |-> Builder!NodeId(S, d.path, t), scope |-> S, path |-> d.path, name |-> t.name, kind |-> t.kind,
                  first |-> t.first, last |-> t.last]
    BY DEF Row, Builder!Node
<1>2. /\ Builder!NodeId(S, e.path, s) = <<S, e.path, s.kind, s.name, s.first, s.last>>
      /\ Builder!NodeId(S, d.path, t) = <<S, d.path, t.kind, t.name, t.first, t.last>>
      /\ Builder!NodeId(S, e.path, row) = <<S, e.path, row.kind, row.name, row.first, row.last>>
    BY DEF Builder!NodeId
<1> HIDE DEF row, other, S, s, t
<1>3. /\ row.id = Builder!NodeId(S, e.path, s) /\ row.scope = S /\ row.path = e.path /\ row.name = s.name
      /\ row.kind = s.kind /\ row.first = s.first /\ row.last = s.last /\ other.id = Builder!NodeId(S, d.path, t)
    BY <1>1
<1>4. row.id[2] = e.path /\ row.id = Builder!NodeId(S, e.path, row)
    BY <1>2, <1>3
<1>5. ASSUME other.id = row.id
      PROVE  other = row
    <2>1. d.path = e.path /\ t.kind = s.kind /\ t.name = s.name /\ t.first = s.first /\ t.last = s.last
        BY <1>2, <1>3, <1>5
    <2>2. Builder!NodeId(S, d.path, t) = Builder!NodeId(S, e.path, s)
        BY <1>3, <1>5
    <2> QED BY <1>1, <2>1, <2>2
<1> QED BY <1>3, <1>4, <1>5 DEF row, other, S

LEMMA ListIsFinite ==
    ASSUME NEW T, NEW list \in Seq(T)
    PROVE  IsFiniteSet(DOMAIN list)
<1>1. DOMAIN list = 1..Len(list) /\ Len(list) \in Nat
    OBVIOUS
<1> QED BY <1>1, FS_Interval

LEMMA RowsHold ==
    ASSUME Builder!ContentHolds, NEW Symbol, \A blob \in DOMAIN Content : Content[blob].symbols \in Seq(Symbol),
           NEW Entry, NEW tree \in Seq(Entry), Builder!IsTree(tree), NEW lease
    PROVE  Builder!RowsAreSound(lease, tree,
               Builder!Staged(lease, tree, {Parsed(lease, e) : e \in Builder!Read(tree, lease)}))
<1> DEFINE S == Builder!SnapshotId(lease)
           read == Builder!Read(tree, lease)
           parsed == {Parsed(lease, e) : e \in read}
           files == {f \in parsed : f.parses}
           failed == {f \in parsed : ~f.parses}
           out == Builder!Staged(lease, tree, parsed)
           ids == {n.id : n \in out.nodes}
<1>1. /\ out.snapshot = S /\ out.nodes = UNION {f.nodes : f \in files} /\ out.chunks = UNION {f.chunks : f \in files}
      /\ out.contains = UNION {f.parents : f \in files} /\ out.files = {<<f.path, f.blob>> : f \in files}
      /\ out.failed = {f.path : f \in failed}
      /\ out.resolver = "RelationResolver" => \A f \in files : f.tree
      /\ out.status = "building" => failed = {} /\ ~(\A f \in files : f.nodes = {})
    BY DEF Builder!Staged, Builder!Output
<1>2. \A e \in read : e \in Builder!ToSet(tree) /\ e.blob \in DOMAIN Content
    BY DEF Builder!Read, Builder!ToSet, Builder!IsTree
<1>3. \A d, e \in Builder!ToSet(tree) : d.path = e.path => d = e
    BY DEF Builder!ToSet, Builder!IsTree
<1>4. \A e \in read : LET file == Parsed(lease, e) IN
         /\ file.path = e.path /\ file.blob = e.blob /\ file.parses = Content[e.blob].parses
         /\ file.tree = (e.language = "python")
         /\ file.nodes = {Row(lease, e, k) : k \in Symbols(e)}
         /\ \A c \in file.chunks : \E n \in file.nodes : c.node = n.id /\ c.scope = S /\ c.id[1] = c.node
         /\ \A p \in file.parents : \E m, n \in file.nodes : p = <<m.id, n.id>>
    BY <1>2, ParsedRows
<1> HIDE DEF S, read, parsed, out
<1>5. \A f \in parsed : \E e \in read : f = Parsed(lease, e)
    BY DEF parsed
<1>6. \A f \in files : \E e \in read : f = Parsed(lease, e) /\ f.path = e.path /\ f.nodes = {Row(lease, e, k) : k \in Symbols(e)}
    BY <1>4, <1>5
<1>7. \A n \in out.nodes : \E e \in read : \E k \in Symbols(e) :
         Parsed(lease, e) \in files /\ n = Row(lease, e, k)
    BY <1>1, <1>6
<1>8. \A n \in out.nodes : n.scope = out.snapshot /\ n.id = Builder!NodeId(n.scope, n.path, n)
    BY <1>1, <1>7, RowsDiffer DEF S
<1>9. Builder!Cardinality(ids) = Builder!Cardinality(out.nodes)
    <2>1. IsFiniteSet(out.nodes)
        <3>1. IsFiniteSet(Builder!ToSet(tree))
            <4>1. Builder!ToSet(tree) = {tree[k] : k \in DOMAIN tree} /\ tree = [k \in DOMAIN tree |-> tree[k]]
                BY DEF Builder!ToSet
            <4> QED BY <4>1, ListIsFinite, ImageIsSmall
        <3>2. IsFiniteSet(read)
            BY <1>2, <3>1, FS_Subset
        <3>3. IsFiniteSet(parsed)
            <4> DEFINE g == [e \in read |-> Parsed(lease, e)]
            <4>1. parsed = {g[e] : e \in read} /\ g = [e \in read |-> g[e]]
                BY DEF parsed
            <4> HIDE DEF g
            <4> QED BY <3>2, <4>1, ImageIsSmall
        <3>4. IsFiniteSet(files)
            BY <3>3, FS_Subset
        <3>5. IsFiniteSet({f.nodes : f \in files})
            <4> DEFINE g == [f \in files |-> f.nodes]
            <4>1. {f.nodes : f \in files} = {g[f] : f \in files} /\ g = [f \in files |-> g[f]]
                OBVIOUS
            <4> HIDE DEF g, files
            <4>2. IsFiniteSet({g[f] : f \in files})
                BY <3>4, <4>1, ImageIsSmall
            <4> QED BY <4>1, <4>2
        <3>6. ASSUME NEW f \in files
              PROVE  IsFiniteSet(f.nodes)
            <4>1. PICK e \in read : f.nodes = {Row(lease, e, k) : k \in Symbols(e)}
                BY <1>6
            <4>2. IsFiniteSet(Symbols(e))
                BY <1>2, ListIsFinite, FS_EmptySet DEF Symbols
            <4> DEFINE g == [k \in Symbols(e) |-> Row(lease, e, k)]
            <4>3. f.nodes = {g[k] : k \in Symbols(e)} /\ g = [k \in Symbols(e) |-> g[k]]
                BY <4>1
            <4> HIDE DEF g
            <4> QED BY <4>2, <4>3, ImageIsSmall
        <3> QED BY <1>1, <3>5, <3>6, FS_UNION
    <2>2. \A m, n \in out.nodes : m.id = n.id => m = n
        BY <1>7, RowsDiffer
    <2> DEFINE f == [n \in out.nodes |-> n.id]
    <2>3. f \in Bijection(out.nodes, ids)
        <3>1. f \in [out.nodes -> ids] /\ \A n \in out.nodes : f[n] = n.id
            OBVIOUS
        <3>2. \A t \in ids : \E n \in out.nodes : f[n] = t
            OBVIOUS
        <3>3. \A m, n \in out.nodes : f[m] = f[n] => m = n
            BY <2>2
        <3> HIDE DEF f, ids
        <3>4. f \in Injection(out.nodes, ids)
            BY <3>1, <3>3 DEF Injection, IsInjective
        <3>5. f \in Surjection(out.nodes, ids)
            BY <3>1, <3>2 DEF Surjection
        <3> QED BY <3>4, <3>5 DEF Bijection
    <2>4. Cardinality(ids) = Cardinality(out.nodes)
        BY <2>1, <2>3, FS_Bijection DEF ExistsBijection
    <2> QED BY <2>4, RowCount
<1>10. \A c \in out.chunks : c.node \in ids /\ c.scope = out.snapshot /\ c.id[1] = c.node
    BY <1>1, <1>4, <1>5
<1>11. \A p \in out.contains : {p[1], p[2]} \subseteq ids /\ p[1][2] = p[2][2]
    <2> TAKE p \in out.contains
    <2>1. PICK f \in files : p \in f.parents
        BY <1>1
    <2>2. PICK e \in read : f = Parsed(lease, e)
        BY <1>5
    <2>3. PICK m \in f.nodes, n \in f.nodes : p = <<m.id, n.id>>
        BY <1>4, <2>1, <2>2
    <2>4. m.id[2] = e.path /\ n.id[2] = e.path
        BY <1>4, <2>2, RowsDiffer
    <2>5. p[1] = m.id /\ p[2] = n.id /\ m \in out.nodes /\ n \in out.nodes
        BY <1>1, <2>3
    <2> QED BY <2>4, <2>5
<1>12. /\ {f[1] : f \in out.files} \cup out.failed = {e.path : e \in read}
       /\ {f[1] : f \in out.files} \cap out.failed = {}
    <2>1. {f[1] : f \in out.files} = {f.path : f \in files}
        <3> DEFINE pair(f) == <<f.path, f.blob>>
        <3>1. out.files = {pair(f) : f \in files} /\ \A f : pair(f)[1] = f.path
            BY <1>1
        <3> HIDE DEF files, pair
        <3> QED BY <3>1
    <2>2. \A f \in files : \A g \in failed : f.path # g.path
        BY <1>2, <1>3, <1>4, <1>5
    <2>3. \A e \in read : Parsed(lease, e) \in files \cup failed /\ Parsed(lease, e).path = e.path
        BY <1>4 DEF parsed
    <2>4. \A f \in files \cup failed : \E e \in read : f.path = e.path
        BY <1>4, <1>5
    <2> QED BY SMTT(30), <1>1, <2>1, <2>2, <2>3, <2>4
<1>13. \A n \in out.nodes : n.path \notin out.failed
    <2> TAKE n \in out.nodes
    <2>1. PICK e \in read : Parsed(lease, e) \in files /\ n.path = e.path
        BY <1>7, RowsDiffer
    <2>2. e.path \in {f[1] : f \in out.files}
        <3>1. <<e.path, e.blob>> \in out.files /\ <<e.path, e.blob>>[1] = e.path
            BY <1>1, <1>4, <2>1
        <3> QED BY <3>1
    <2> QED BY <1>12, <2>1, <2>2
<1>14. out.status = "building" => out.failed = {} /\ out.nodes # {}
    BY <1>1
<1>15. out.resolver = "RelationResolver" =>
          \A e \in Builder!ToSet(tree) : e.language = "other" => e.path \notin {f[1] : f \in out.files}
    <2> SUFFICES ASSUME out.resolver = "RelationResolver", NEW e \in Builder!ToSet(tree), e.language = "other",
                        NEW f \in files, f.path = e.path
                 PROVE  FALSE
        BY <1>1
    <2>1. f.tree BY <1>1
    <2>2. PICK d \in read : f = Parsed(lease, d) BY <1>5
    <2>3. d.language = "python" /\ d = e BY <1>2, <1>3, <1>4, <2>1, <2>2
    <2> QED BY <2>3
<1> QED BY <1>8, <1>9, <1>10, <1>11, <1>12, <1>13, <1>14, <1>15 DEF Builder!RowsAreSound, read, out, parsed

(* The rows of a snapshot are of it alone and hang together, and every     *)
(* file of the commit is there whole or named as failed; and what a cache  *)
(* of facts holds of an earlier commit changes nothing, whatever was       *)
(* added, changed or renamed since: for every tree and every content of    *)
(* its files (SnapshotBuilder.build, _rebind, AstFactCache).               *)
THEOREM BuildsStaySound ==
    ASSUME Builder!ContentHolds, NEW Symbol, \A blob \in DOMAIN Content : Content[blob].symbols \in Seq(Symbol),
           NEW Id, NEW lease \in [repository : Id, commit : Id, parser : Id, rules : Id, multi : BOOLEAN],
           NEW Entry, NEW before \in Seq(Entry), NEW tree \in Seq(Entry),
           Builder!IsTree(tree), Builder!SameLanguages(before, tree)
    PROVE  Builder!BuildIsSound(lease, before, tree)
<1> DEFINE cache == Builder!After([lease EXCEPT !.commit = "earlier"], before)
           read == Builder!Read(tree, lease)
           S == Builder!SnapshotId(lease)
<1>1. CASE Builder!OverBudget(tree)
    BY <1>1 DEF Builder!BuildIsSound, Builder!Build
<1>2. CASE ~Builder!OverBudget(tree)
    <2>1. \A e \in read : /\ Builder!Facts(Builder!NoFacts, e, lease) = Builder!Parse(e)
                          /\ Builder!Facts(cache, e, lease) = Builder!Parse(e)
        BY CachedIsParsed
    <2>2. {Builder!Rebind(Builder!Facts(Builder!NoFacts, e, lease), S) : e \in read} = {Parsed(lease, e) : e \in read}
        BY <2>1 DEF Parsed
    <2>3. {Builder!Rebind(Builder!Facts(cache, e, lease), S) : e \in read} = {Parsed(lease, e) : e \in read}
        BY <2>1 DEF Parsed
    <2>4. /\ Builder!Build(lease, tree, Builder!NoFacts) = Builder!Staged(lease, tree, {Parsed(lease, e) : e \in read})
          /\ Builder!Build(lease, tree, cache) = Builder!Staged(lease, tree, {Parsed(lease, e) : e \in read})
        BY <1>2, <2>2, <2>3 DEF Builder!Build
    <2>5. Builder!RowsAreSound(lease, tree, Builder!Staged(lease, tree, {Parsed(lease, e) : e \in read}))
        BY RowsHold
    <2> QED BY <1>2, <2>4, <2>5 DEF Builder!BuildIsSound
<1> QED BY <1>1, <1>2
=============================================================================
