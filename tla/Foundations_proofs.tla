-------------------------- MODULE Foundations_proofs --------------------------
(***************************************************************************)
(* Proofs about what everything else rests on.  The full-text projections  *)
(* and their coordinator: what a search reads is complete, what was        *)
(* published stays, and the clients are never used by two callers or after *)
(* they were closed, for any number of scopes, revisions, queries,         *)
(* publishers and crashes.  The records: the events of the entities        *)
(* (DomainLifecycles), the import of the JSON files (LegacyImport), the    *)
(* copy of the memories and the tables of the database (SQLiteStores), for *)
(* any number of parts, records, deaths, processes and threads.            *)
(* The answers of a search and the bindings it is made under (CodeSearch), *)
(* for every input.                                                        *)
(***************************************************************************)
EXTENDS RetrievalCoordinator, Integers, Sequences, FiniteSetTheorems, SequenceTheorems, TLAPS

Manifest ==
    [status : {"absent", "building", "ready", "failed"}, expected : SUBSET Document,
     base : Revision \cup {None}, once : BOOLEAN]

(* Where the thread has the lock, and where it has a scope in hand.        *)
Holding == {"woken", "choosing", "resolving", "reading", "beginning", "writing", "publishing", "enqueuing", "working"}
Projecting == {"resolving", "reading", "beginning", "writing", "publishing", "enqueuing"}

TableType ==
    /\ manifest \in [Scope -> [Revision -> Manifest]]
    /\ documents \in [Scope -> [Revision -> SUBSET Document]]
    /\ pointer \in [Scope -> Revision \cup {None}]

MemoryType ==
    /\ state \in {"new", "running", "stopping", "stopped", "failed"}
    /\ stopping \in BOOLEAN
    /\ lock \in {"free", "starter", "thread"} \cup Query
    /\ thread \in {"none", "waiting", "ending", "ended"} \cup Holding
    /\ scope \in Scope \cup {None} /\ runs \subseteq Scope /\ errors \subseteq Scope
    /\ clients \in {"none", "open", "closed"}
    /\ query \in [Query -> {"idle", "waiting", "inside", "answered", "late", "refused"}]
    /\ stopper \in {"idle", "joining", "done", "timeout", "raised"}

(* A manifest that was never begun has never been published, and one that  *)
(* is ready was, with the documents it expects.                            *)
TableInv == \A s \in Scope, r \in Revision :
    /\ manifest[s][r].once => manifest[s][r].status # "absent"
    /\ manifest[s][r].status = "ready" => manifest[s][r].once /\ documents[s][r] = manifest[s][r].expected

(* The scope in hand is neither enqueued nor quarantined; what is enqueued *)
(* was published, and nothing enqueued is quarantined.                     *)
ScopeInv ==
    /\ thread \in Projecting => scope \in Open
    /\ EnqueuedIsPublished

(* Who has the lock, and what the clients are then.                        *)
LockInv ==
    /\ lock = "thread" <=> thread \in Holding
    /\ \A q \in Query : query[q] = "inside" <=> lock = q
    /\ lock = "starter" => thread = "none" /\ clients = "open"
    /\ lock \in Query => thread \notin {"none", "ended"}

ThreadInv ==
    /\ state = "new" => thread = "none"
    /\ state = "running" => thread \notin {"none", "ended"}
    /\ thread \notin {"none", "ended"} => clients = "open"
    /\ thread = "ended" => clients = "closed"

(* After a stop that has returned the thread takes nothing up again.       *)
StopInv == (stopper # "idle" => stopping) /\ (stopper = "done" => thread \notin Holding)

MemoryInv == MemoryType /\ LockInv /\ ThreadInv /\ StopInv

Tables == TableType /\ TableInv

IInv == Tables /\ MemoryInv /\ ScopeInv
-----------------------------------------------------------------------------
(* The tables.  A step of any publisher keeps them, and rewrites nothing   *)
(* that was published once.                                                *)
Kept == \A s \in Scope, r \in Revision : manifest[s][r].once => manifest'[s][r].once

LEMMA BeginStep ==
    ASSUME Tables, NEW s \in Scope, NEW r \in Revision, Begin(s, r)
    PROVE  Tables' /\ Unrewritten /\ Kept
<1>0. Expected[s][r] \in SUBSET Document
    BY LexicalAssumption
<1>1. manifest[s][r] \in Manifest /\ pointer[s] \in Revision \cup {None} /\ manifest \in [Scope -> [Revision -> Manifest]]
    BY DEF Tables, TableType
<1>2. CASE manifest[s][r].status \in {"ready", "building"}
    <2>1. UNCHANGED <<manifest, documents, pointer>>
        BY <1>2 DEF Begin
    <2> QED BY <2>1 DEF Tables, TableType, TableInv, Unrewritten, Kept
<1>3. CASE manifest[s][r].status \notin {"ready", "building"}
    <2>1. PICK rec \in Manifest :
             /\ manifest' = [manifest EXCEPT ![s][r] = rec]
             /\ rec.status = "building" /\ rec.once = manifest[s][r].once /\ rec.expected = Expected[s][r]
        <3> DEFINE rec == [manifest[s][r] EXCEPT !.status = "building", !.expected = Expected[s][r],
                              !.base = IF manifest[s][r].status = "absent" THEN pointer[s] ELSE @]
        <3>1. rec \in Manifest
            BY <1>0, <1>1 DEF Manifest
        <3>2. manifest' = [manifest EXCEPT ![s][r] = rec]
            BY <1>3 DEF Begin
        <3>3. rec.status = "building" /\ rec.once = manifest[s][r].once /\ rec.expected = Expected[s][r]
            BY <1>0, <1>1 DEF Manifest
        <3> HIDE DEF rec
        <3> QED BY <3>1, <3>2, <3>3
    <2>2. /\ manifest' \in [Scope -> [Revision -> Manifest]] /\ UNCHANGED <<documents, pointer>>
          /\ \A t \in Scope, q \in Revision : manifest'[t][q] = IF t = s /\ q = r THEN rec ELSE manifest[t][q]
        BY <1>1, <2>1 DEF Begin
    <2>3. manifest[s][r].once => manifest[s][r].expected = Expected[s][r]
        BY DEF Begin, MayBegin, Tables, TableInv
    <2> QED BY <2>1, <2>2, <2>3 DEF Tables, TableType, TableInv, Unrewritten, Kept
<1> QED BY <1>2, <1>3

LEMMA UpsertStep ==
    ASSUME Tables, NEW s \in Scope, NEW r \in Revision, NEW docs \in SUBSET Document, Upsert(s, r, docs)
    PROVE  Tables' /\ Unrewritten /\ Kept
<1>1. documents \in [Scope -> [Revision -> SUBSET Document]] /\ manifest[s][r] \in Manifest
    BY DEF Tables, TableType
<1>2. /\ documents' \in [Scope -> [Revision -> SUBSET Document]] /\ UNCHANGED <<manifest, pointer>>
      /\ \A t \in Scope, q \in Revision :
            documents'[t][q] = IF t = s /\ q = r THEN documents[s][r] \cup docs ELSE documents[t][q]
    BY <1>1 DEF Upsert
<1>3. manifest[s][r].once => documents'[s][r] = documents[s][r]
    BY <1>2 DEF Upsert, MayUpsert, Frozen
<1>4. \A t \in Scope, q \in Revision : manifest[t][q].once => documents'[t][q] = documents[t][q]
    BY <1>2, <1>3
<1> QED BY <1>2, <1>4 DEF Tables, TableType, TableInv, Unrewritten, Kept

LEMMA PublishStep ==
    ASSUME Tables, NEW s \in Scope, NEW r \in Revision, Publish(s, r)
    PROVE  Tables' /\ Unrewritten /\ Kept
<1>1. manifest[s][r] \in Manifest /\ pointer \in [Scope -> Revision \cup {None}] /\ manifest \in [Scope -> [Revision -> Manifest]]
    BY DEF Tables, TableType
<1>2. PICK rec \in Manifest :
         /\ manifest' = [manifest EXCEPT ![s][r] = rec]
         /\ rec.status = (IF Consistent(s, r) THEN "ready" ELSE "failed")
         /\ rec.once = (manifest[s][r].once \/ Consistent(s, r)) /\ rec.expected = manifest[s][r].expected
    <2> DEFINE rec == [manifest[s][r] EXCEPT !.status = IF Consistent(s, r) THEN "ready" ELSE "failed",
                                             !.once = @ \/ Consistent(s, r)]
    <2>1. Consistent(s, r) \in BOOLEAN
        BY DEF Consistent
    <2>2. rec \in Manifest
        BY <1>1, <2>1 DEF Manifest
    <2>3. manifest' = [manifest EXCEPT ![s][r] = rec]
        BY DEF Publish
    <2>4. /\ rec.status = (IF Consistent(s, r) THEN "ready" ELSE "failed")
          /\ rec.once = (manifest[s][r].once \/ Consistent(s, r)) /\ rec.expected = manifest[s][r].expected
        BY <1>1 DEF Manifest
    <2> HIDE DEF rec
    <2> QED BY <2>2, <2>3, <2>4
<1>3. /\ manifest' \in [Scope -> [Revision -> Manifest]] /\ documents' = documents
      /\ \A t \in Scope, q \in Revision : manifest'[t][q] = IF t = s /\ q = r THEN rec ELSE manifest[t][q]
    BY <1>1, <1>2 DEF Publish
<1>4. /\ pointer' \in [Scope -> Revision \cup {None}]
      /\ \A t \in Scope : pointer'[t] # pointer[t] => t = s /\ pointer'[t] = r /\ Consistent(s, r)
    BY <1>1 DEF Publish
<1>5. Tables'
    <2>1. TableType'
        BY <1>3, <1>4 DEF Tables, TableType
    <2>2. TableInv'
        <3>1. /\ rec.status # "absent" /\ (rec.status = "ready" => Consistent(s, r))
              /\ (rec.status = "ready" => rec.once /\ documents[s][r] = rec.expected)
            BY <1>2 DEF Consistent
        <3>2. ASSUME NEW t \in Scope, NEW q \in Revision
              PROVE  /\ manifest'[t][q].once => manifest'[t][q].status # "absent"
                     /\ manifest'[t][q].status = "ready" => manifest'[t][q].once /\ documents'[t][q] = manifest'[t][q].expected
            <4>1. CASE t = s /\ q = r
                BY <1>3, <3>1, <4>1
            <4>2. CASE ~(t = s /\ q = r)
                <5>1. manifest'[t][q] = manifest[t][q] /\ documents' = documents
                    BY <1>3, <4>2
                <5> QED BY <5>1 DEF Tables, TableInv
            <4> QED BY <4>1, <4>2
        <3> QED BY <3>2 DEF TableInv
    <2> QED BY <2>1, <2>2 DEF Tables
<1>6. Unrewritten
    <2>1. ASSUME NEW t \in Scope, NEW q \in Revision, pointer'[t] # pointer[t]
          PROVE  pointer[t] = manifest[t][pointer'[t]].base
        BY <1>4, <2>1 DEF Consistent, Conflict
    <2>2. \A t \in Scope, q \in Revision : documents'[t][q] = documents[t][q] /\ manifest'[t][q].expected = manifest[t][q].expected
        BY <1>2, <1>3
    <2> QED BY <2>1, <2>2 DEF Unrewritten
<1>7. Kept
    BY <1>2, <1>3 DEF Kept
<1> QED BY <1>5, <1>6, <1>7

(* Every step of the system is a stutter for the tables or one of those    *)
(* three, by the thread or by another publisher.                           *)
LEMMA SameTables ==
    ASSUME Tables, UNCHANGED <<manifest, documents, pointer>>
    PROVE  Tables' /\ Unrewritten /\ Kept
BY DEF Tables, TableType, TableInv, Unrewritten, Kept

LEMMA OpenIsScope ==
    ASSUME ScopeInv, thread \in Projecting
    PROVE  scope \in Scope /\ scope \notin runs /\ scope \notin errors
BY DEF ScopeInv, Open

LEMMA ThreadTables ==
    ASSUME IInv, Thread
    PROVE  Tables' /\ Unrewritten /\ Kept
<1>0. Tables /\ ScopeInv /\ Mine \in Revision
    BY CoordinatorAssumption DEF IInv
<1>1. CASE ThreadBegins
    <2>1. scope \in Scope
        BY <1>0, <1>1, OpenIsScope DEF ThreadBegins, ThreadStep, Projecting
    <2>2. Begin(scope, Mine) \/ UNCHANGED lexicalVars
        BY <1>1 DEF ThreadBegins, ThreadStep
    <2> QED BY <1>0, <2>1, <2>2, BeginStep, SameTables DEF lexicalVars
<1>2. CASE ThreadWrites
    <2>1. scope \in Scope
        BY <1>0, <1>2, OpenIsScope DEF ThreadWrites, ThreadStep, Projecting
    <2>2. Upsert(scope, Mine, Expected[scope][Mine]) \/ UNCHANGED lexicalVars
        BY <1>2 DEF ThreadWrites, ThreadStep
    <2>3. Expected[scope][Mine] \in SUBSET Document
        BY <1>0, <2>1, LexicalAssumption
    <2> QED BY <1>0, <2>1, <2>2, <2>3, UpsertStep, SameTables DEF lexicalVars
<1>3. CASE ThreadPublishes
    <2>1. scope \in Scope /\ Publish(scope, Mine)
        BY <1>0, <1>3, OpenIsScope DEF ThreadPublishes, Projecting
    <2> QED BY <1>0, <2>1, PublishStep
<1>4. CASE Wake \/ CheckState \/ Choose \/ Resolve \/ ReadArchive \/ Enqueue \/ WorkRuns \/ StopSeen \/ Close
    <2>1. UNCHANGED <<manifest, documents, pointer>>
        BY <1>4 DEF Wake, CheckState, Choose, Resolve, ReadArchive, Enqueue, WorkRuns, StopSeen, Close, lexicalVars
    <2> QED BY <1>0, <2>1, SameTables
<1> QED BY <1>1, <1>2, <1>3, <1>4 DEF Thread

LEMMA OtherTables ==
    ASSUME IInv, NEW p \in Publication, OtherPublishes(p)
    PROVE  Tables' /\ Unrewritten /\ Kept
<1>1. Tables /\ p[1] \in Scope /\ p[2] \in Revision
    BY CoordinatorAssumption DEF IInv
<1>2. Expected[p[1]][p[2]] \in SUBSET Document
    BY <1>1, LexicalAssumption
<1>3. \/ Begin(p[1], p[2]) \/ Upsert(p[1], p[2], Expected[p[1]][p[2]]) \/ Publish(p[1], p[2])
      \/ UNCHANGED <<manifest, documents, pointer>>
    BY DEF OtherPublishes, lexicalVars
<1> QED BY <1>1, <1>2, <1>3, BeginStep, UpsertStep, PublishStep, SameTables

LEMMA TableStep ==
    ASSUME IInv, [Next]_coordinatorVars
    PROVE  Tables' /\ Unrewritten /\ Kept
<1>1. CASE Thread
    BY <1>1, ThreadTables
<1>2. CASE \E p \in Publication : OtherPublishes(p)
    BY <1>2, OtherTables
<1>3. CASE \/ StartOpens \/ StartRuns \/ Stop \/ Joined \/ Crash \/ UNCHANGED coordinatorVars
           \/ \E q \in Query : Ask(q) \/ Enter(q) \/ Finish(q) \/ WaitedTooLong(q)
    <2>1. UNCHANGED <<manifest, documents, pointer>>
        BY <1>3 DEF StartOpens, StartRuns, Stop, Joined, Crash, Ask, Enter, Finish, WaitedTooLong, QueryRest,
                    coordinatorVars, lexicalVars
    <2> QED BY <2>1, SameTables DEF IInv
<1> QED BY <1>1, <1>2, <1>3 DEF Next

-----------------------------------------------------------------------------
(* The scopes.  EnqueuedIsPublished is kept by whatever enqueues nothing   *)
(* and quarantines only the scope in hand.                                 *)
LEMMA ScopesKept ==
    ASSUME IInv, Kept, UNCHANGED <<runs, errors, scope>>, thread' \in Projecting => thread \in Projecting
    PROVE  ScopeInv'
<1>1. \A s \in runs : s \in Scope /\ Mine \in Revision
    BY CoordinatorAssumption DEF IInv, MemoryInv, MemoryType
<1>2. EnqueuedIsPublished'
    BY <1>1 DEF IInv, ScopeInv, EnqueuedIsPublished, Kept
<1>3. thread' \in Projecting => scope' \in Open'
    BY DEF IInv, ScopeInv, Open
<1> QED BY <1>2, <1>3 DEF ScopeInv

LEMMA ScopeQuarantined ==
    ASSUME IInv, Kept, Quarantine, UNCHANGED <<runs, scope>>, thread \in Projecting
    PROVE  ScopeInv'
<1>1. \A s \in runs : s \in Scope /\ Mine \in Revision
    BY CoordinatorAssumption DEF IInv, MemoryInv, MemoryType
<1>2. scope \notin runs /\ errors' = errors \cup {scope} /\ thread' \notin Projecting
    BY OpenIsScope DEF IInv, Quarantine, Projecting
<1>3. EnqueuedIsPublished'
    BY <1>1, <1>2 DEF IInv, ScopeInv, EnqueuedIsPublished, Kept
<1> QED BY <1>2, <1>3 DEF ScopeInv

LEMMA ActiveIsReady ==
    ASSUME Tables, NEW s \in Scope, Active(s) # None
    PROVE  /\ Active(s) \in Revision
           /\ manifest[s][Active(s)].once /\ documents[s][Active(s)] = manifest[s][Active(s)].expected
<1>1. pointer[s] \in Revision /\ Active(s) = pointer[s] /\ manifest[s][pointer[s]].status = "ready"
    BY DEF Tables, TableType, Active
<1> QED BY <1>1 DEF Tables, TableInv

LEMMA ScopeEnqueued ==
    ASSUME IInv, Kept, Enqueue
    PROVE  ScopeInv'
<1>1. /\ \A s \in runs : s \in Scope
      /\ Mine \in Revision /\ Mine # None
    BY CoordinatorAssumption, LexicalAssumption DEF IInv, MemoryInv, MemoryType
<1>2. thread \in Projecting /\ UNCHANGED scope
    BY DEF Enqueue, Projecting
<1>3. scope \in Scope /\ scope \notin runs /\ scope \notin errors
    BY <1>2, OpenIsScope DEF IInv
<1>4. CASE Active(scope) = Mine
    <2>1. runs' = runs \cup {scope} /\ errors' = errors /\ thread' = "choosing"
        BY <1>4 DEF Enqueue
    <2>2. manifest[scope][Mine].once
        BY <1>1, <1>3, <1>4, ActiveIsReady DEF IInv
    <2>3. EnqueuedIsPublished'
        BY <1>1, <1>3, <2>1, <2>2 DEF IInv, ScopeInv, EnqueuedIsPublished, Kept
    <2> QED BY <2>1, <2>3 DEF ScopeInv, Projecting
<1>5. CASE Active(scope) # Mine
    <2>1. Quarantine /\ runs' = runs
        BY <1>5 DEF Enqueue
    <2> QED BY <1>2, <2>1, ScopeQuarantined
<1> QED BY <1>4, <1>5

LEMMA ScopeStep ==
    ASSUME IInv, Kept, [Next]_coordinatorVars
    PROVE  ScopeInv'
<1>1. CASE Choose
    <2>1. UNCHANGED <<runs, errors>> /\ (thread' \in Projecting => scope' \in Open)
        BY <1>1 DEF Choose, ThreadRest, Projecting
    <2>2. \A s \in runs : s \in Scope /\ Mine \in Revision
        BY CoordinatorAssumption DEF IInv, MemoryInv, MemoryType
    <2>3. EnqueuedIsPublished'
        BY <2>1, <2>2 DEF IInv, ScopeInv, EnqueuedIsPublished, Kept
    <2> QED BY <2>1, <2>3 DEF ScopeInv, Open
<1>2. CASE Enqueue
    BY <1>2, ScopeEnqueued
<1>3. CASE Resolve \/ ReadArchive \/ ThreadBegins \/ ThreadWrites \/ ThreadPublishes
    <2>1. thread \in Projecting /\ UNCHANGED <<runs, scope>> /\ (Quarantine \/ UNCHANGED errors)
        BY <1>3 DEF Resolve, ReadArchive, ThreadBegins, ThreadWrites, ThreadPublishes, ThreadStep, Projecting
    <2> QED BY <2>1, ScopeQuarantined, ScopesKept
<1>4. CASE Wake \/ CheckState \/ WorkRuns \/ StopSeen \/ Close
    <2>1. UNCHANGED <<runs, errors, scope>> /\ thread' \notin Projecting
        BY <1>4 DEF Wake, CheckState, WorkRuns, StopSeen, Close, Projecting
    <2> QED BY <2>1, ScopesKept
<1>5. CASE Crash
    BY <1>5 DEF Crash, ScopeInv, EnqueuedIsPublished, Projecting
<1>6. CASE \/ StartOpens \/ StartRuns \/ Stop \/ Joined \/ UNCHANGED coordinatorVars
           \/ \E q \in Query : Ask(q) \/ Enter(q) \/ Finish(q) \/ WaitedTooLong(q)
           \/ \E p \in Publication : OtherPublishes(p)
    <2>1. UNCHANGED <<runs, errors, scope>> /\ (thread' \in Projecting => thread \in Projecting)
        BY <1>6 DEF StartOpens, StartRuns, Stop, Joined, Ask, Enter, Finish, WaitedTooLong, OtherPublishes,
                    QueryRest, inMemory, coordinatorVars, Projecting
    <2> QED BY <2>1, ScopesKept
<1> QED BY <1>1, <1>2, <1>3, <1>4, <1>5, <1>6 DEF Next, Thread

-----------------------------------------------------------------------------
(* The lock, the thread and the clients.                                   *)
LEMMA NoQueryIsAnOwner == \A q \in Query : q # "free" /\ q # "starter" /\ q # "thread"
BY CoordinatorAssumption

LEMMA StartStep ==
    ASSUME IInv, StartOpens \/ StartRuns
    PROVE  MemoryInv'
<1> USE NoQueryIsAnOwner DEF IInv, MemoryInv, MemoryType, LockInv, ThreadInv, StopInv, Holding
<1>1. CASE StartOpens
    BY <1>1 DEF StartOpens
<1>2. CASE StartRuns
    BY <1>2 DEF StartRuns
<1> QED BY <1>1, <1>2

LEMMA StopStep ==
    ASSUME IInv, Stop \/ Joined
    PROVE  MemoryInv'
<1> USE NoQueryIsAnOwner DEF IInv, MemoryInv, MemoryType, LockInv, ThreadInv, StopInv, Holding
<1>1. CASE Stop
    BY <1>1 DEF Stop
<1>2. CASE Joined
    BY <1>2 DEF Joined
<1> QED BY <1>1, <1>2

(* The steps of the thread that keep the lock, and those that take it or   *)
(* let it go.                                                              *)
LEMMA ThreadHolds ==
    ASSUME IInv, UNCHANGED <<state, stopping, lock, clients, query, stopper>>,
           thread \in Holding, thread' \in Holding,
           scope' \in Scope \cup {None}, runs' \subseteq Scope, errors' \subseteq Scope
    PROVE  MemoryInv'
BY DEF IInv, MemoryInv, MemoryType, LockInv, ThreadInv, StopInv, Holding

LEMMA ThreadMemory ==
    ASSUME IInv, Thread
    PROVE  MemoryInv'
<1>0. /\ scope \in Scope \cup {None} /\ runs \subseteq Scope /\ errors \subseteq Scope
      /\ thread \in Projecting => scope \in Scope
    BY OpenIsScope DEF IInv, MemoryInv, MemoryType
<1>1. CASE Choose
    <2>1. /\ UNCHANGED <<state, stopping, lock, clients, query, stopper, runs, errors>>
          /\ thread \in Holding /\ thread' \in Holding /\ scope' \in Scope \cup {None}
        BY <1>0, <1>1 DEF Choose, ThreadRest, Holding, Open
    <2> QED BY <1>0, <2>1, ThreadHolds
<1>2. CASE Resolve \/ ReadArchive \/ ThreadBegins \/ ThreadWrites \/ ThreadPublishes \/ Enqueue
    <2>1. thread \in Projecting /\ thread' \in Holding /\ UNCHANGED <<state, stopping, lock, clients, query, stopper, scope>>
        BY <1>2 DEF Resolve, ReadArchive, ThreadBegins, ThreadWrites, ThreadPublishes, Enqueue, ThreadStep, Quarantine,
                    ThreadRest, Holding, Projecting
    <2>2. errors' \in {errors, errors \cup {scope}} /\ runs' \in {runs, runs \cup {scope}}
        BY <1>2 DEF Resolve, ReadArchive, ThreadBegins, ThreadWrites, ThreadPublishes, Enqueue, ThreadStep, Quarantine
    <2>3. thread \in Holding /\ errors' \subseteq Scope /\ runs' \subseteq Scope /\ scope' \in Scope \cup {None}
        BY <1>0, <2>1, <2>2 DEF Holding, Projecting
    <2> QED BY <2>1, <2>3, ThreadHolds
<1>3. CASE CheckState \/ StopSeen \/ WorkRuns
    <2>1. UNCHANGED <<stopping, clients, query, stopper, scope, runs, errors>> /\ thread \in Holding
        BY <1>3 DEF CheckState, StopSeen, WorkRuns, ThreadRest, Holding
    <2>2. \/ thread' = "choosing" /\ UNCHANGED <<state, lock>>
          \/ thread' \in {"waiting", "ending"} /\ lock' = "free" /\ (state' = state \/ state' = "failed")
        BY <1>3 DEF CheckState, StopSeen, WorkRuns
    <2>3. CASE thread' = "choosing" /\ UNCHANGED <<state, lock>>
        BY <1>0, <2>1, <2>3, ThreadHolds DEF Holding
    <2>4. CASE thread' \in {"waiting", "ending"} /\ lock' = "free" /\ (state' = state \/ state' = "failed")
        BY <2>1, <2>4, NoQueryIsAnOwner DEF IInv, MemoryInv, MemoryType, LockInv, ThreadInv, StopInv, Holding
    <2> QED BY <2>2, <2>3, <2>4
<1>4. CASE Wake
    BY <1>4, NoQueryIsAnOwner DEF Wake, ThreadRest, IInv, MemoryInv, MemoryType, LockInv, ThreadInv, StopInv, Holding
<1>5. CASE Close
    BY <1>5, NoQueryIsAnOwner DEF Close, IInv, MemoryInv, MemoryType, LockInv, ThreadInv, StopInv, Holding
<1> QED BY <1>1, <1>2, <1>3, <1>4, <1>5 DEF Thread

LEMMA QueryMemory ==
    ASSUME IInv, NEW q \in Query, Ask(q) \/ Enter(q) \/ Finish(q) \/ WaitedTooLong(q)
    PROVE  MemoryInv'
<1>0. query \in [Query -> {"idle", "waiting", "inside", "answered", "late", "refused"}]
    BY DEF IInv, MemoryInv, MemoryType
<1>1. UNCHANGED <<state, stopping, thread, scope, runs, errors, clients, stopper>>
    BY DEF Ask, Enter, Finish, WaitedTooLong, QueryRest
<1>2. CASE Enter(q) /\ Running
    <2>1. lock = "free" /\ lock' = q /\ query' = [query EXCEPT ![q] = "inside"] /\ state = "running"
        BY <1>2 DEF Enter, Running
    <2> QED BY <1>0, <1>1, <2>1, NoQueryIsAnOwner DEF IInv, MemoryInv, MemoryType, LockInv, ThreadInv, StopInv, Holding
<1>3. CASE Finish(q)
    <2>1. PICK outcome \in {"answered", "late"} : query' = [query EXCEPT ![q] = outcome]
        BY <1>3 DEF Finish
    <2>2. lock = q /\ lock' = "free"
        BY <1>3 DEF Finish, IInv, MemoryInv, LockInv
    <2> QED BY <1>0, <1>1, <2>1, <2>2, NoQueryIsAnOwner
            DEF IInv, MemoryInv, MemoryType, LockInv, ThreadInv, StopInv, Holding
<1>4. CASE Ask(q) \/ WaitedTooLong(q) \/ (Enter(q) /\ ~Running)
    <2>1. PICK outcome \in {"waiting", "late", "refused"} : query' = [query EXCEPT ![q] = outcome]
        BY <1>4 DEF Ask, WaitedTooLong, Enter
    <2>2. lock' = lock /\ query[q] # "inside"
        BY <1>4 DEF Ask, WaitedTooLong, Enter
    <2> QED BY <1>0, <1>1, <2>1, <2>2 DEF IInv, MemoryInv, MemoryType, LockInv, ThreadInv, StopInv, Holding
<1> QED BY <1>2, <1>3, <1>4

LEMMA MemoryStep ==
    ASSUME IInv, [Next]_coordinatorVars
    PROVE  MemoryInv'
<1>1. CASE StartOpens \/ StartRuns
    BY <1>1, StartStep
<1>2. CASE Stop \/ Joined
    BY <1>2, StopStep
<1>3. CASE Thread
    BY <1>3, ThreadMemory
<1>4. CASE Crash
    BY <1>4, NoQueryIsAnOwner DEF Crash, MemoryInv, MemoryType, LockInv, ThreadInv, StopInv, Holding
<1>5. CASE \E q \in Query : Ask(q) \/ Enter(q) \/ Finish(q) \/ WaitedTooLong(q)
    BY <1>5, QueryMemory
<1>6. CASE UNCHANGED coordinatorVars \/ \E p \in Publication : OtherPublishes(p)
    <2>1. UNCHANGED <<state, stopping, lock, thread, scope, runs, errors, clients, query, stopper>>
        BY <1>6 DEF OtherPublishes, coordinatorVars, inMemory
    <2> QED BY <2>1 DEF IInv, MemoryInv, MemoryType, LockInv, ThreadInv, StopInv
<1> QED BY <1>1, <1>2, <1>3, <1>4, <1>5, <1>6 DEF Next

-----------------------------------------------------------------------------
(* Whatever the publishers, the queries, a stop and crashes do: the        *)
(* invariant holds.                                                        *)
THEOREM InvariantHolds == Spec => []IInv
<1>1. Init => IInv
    <2> SUFFICES ASSUME Init PROVE IInv
        OBVIOUS
    <2>1. NoManifest \in Manifest
        BY DEF NoManifest, Manifest
    <2>2. documents \in [Scope -> [Revision -> SUBSET Document]]
        BY LexicalAssumption DEF Init, LexicalInit
    <2>3. Tables
        BY <2>1, <2>2 DEF Init, LexicalInit, Tables, TableType, TableInv, NoManifest
    <2>4. MemoryInv
        BY NoQueryIsAnOwner DEF Init, Fresh, MemoryInv, MemoryType, LockInv, ThreadInv, StopInv, Holding
    <2>5. ScopeInv
        BY DEF Init, Fresh, ScopeInv, EnqueuedIsPublished, Projecting
    <2> QED BY <2>3, <2>4, <2>5 DEF IInv
<1>2. IInv /\ [Next]_coordinatorVars => IInv'
    BY TableStep, ScopeStep, MemoryStep DEF IInv
<1> QED BY <1>1, <1>2, PTL DEF Spec

(* What a search reads of a scope is exactly what its manifest expects;    *)
(* the index and the embedder are used by one caller at a time and by none *)
(* after they were closed; what is enqueued was published.                 *)
THEOREM RetrievalStaysSound == Spec => []RetrievalIsSound
<1>1. IInv => RetrievalIsSound
    <2> SUFFICES ASSUME IInv PROVE RetrievalIsSound
        OBVIOUS
    <2>1. ActiveIsComplete
        BY ActiveIsReady DEF IInv, ActiveIsComplete
    <2>2. ClientsAreGuarded
        BY NoQueryIsAnOwner DEF IInv, MemoryInv, LockInv, ThreadInv, StopInv, Holding, ClientsAreGuarded
    <2>3. EnqueuedIsPublished
        BY DEF IInv, ScopeInv
    <2> QED BY <2>1, <2>2, <2>3 DEF RetrievalIsSound
<1> QED BY <1>1, InvariantHolds, PTL

(* What was published once is never rewritten, and the pointer of a scope  *)
(* moves only to a revision that was begun when it stood where it stands,  *)
(* whoever publishes and whatever dies.                                    *)
THEOREM PublicationsStayOrderly == Spec => PublicationsAreOrderly
<1>1. IInv /\ [Next]_coordinatorVars => [Unrewritten]_lexicalVars
    BY TableStep
<1> QED BY <1>1, InvariantHolds, PTL DEF Spec, PublicationsAreOrderly

-----------------------------------------------------------------------------
(* The entities of a diagnosis and their events (DomainLifecycles).        *)
CONSTANTS Part, MaxEvents
VARIABLES entity, raised, stored
Lifecycles == INSTANCE DomainLifecycles

Kind == {"incident", "session", "turn", "task", "tool_call", "attempt"}
Status == UNION {{Lifecycles!Class[kind].first} \cup {op.to : op \in Lifecycles!Ops(kind)} : kind \in Kind}
Entity == [kind : Kind, status : Status, events : Seq(Status), parts : Seq(Part), started : BOOLEAN, ended : BOOLEAN]

(* What an entity tells, whether its last move raised or not.              *)
Tells(e, r) ==
    LET ops == Lifecycles!Ops(e.kind) final == Lifecycles!Final(e.kind)
    IN  /\ e.events # <<>>
        /\ \A k \in 1..(Len(e.events) - 1) : \E op \in ops : e.events[k] \in op.from /\ e.events[k + 1] = op.to
        /\ ~r => e.status = e.events[Len(e.events)]
        /\ r => e.status \in final /\ e.status # e.events[Len(e.events)]
        /\ \A j, k \in 1..Len(e.parts) : e.parts[j] = e.parts[k] => j = k
        /\ Lifecycles!Class[e.kind].timed =>
              /\ e.ended <=> e.status \in final
              /\ e.status # Lifecycles!Class[e.kind].first => e.started

LifecycleInv ==
    /\ entity \in Entity /\ raised \in BOOLEAN /\ Tells(entity, raised)
    /\ stored \in [entity : Entity, raised : BOOLEAN] /\ Tells(stored.entity, stored.raised)

(* What the classes have in common: an entity is created in a status that  *)
(* is left and not entered, an error ends it, and one that is timed starts *)
(* by running.                                                             *)
Regular(class) ==
    /\ class.timed \in BOOLEAN
    /\ \E op \in class.ops : class.first \in op.from
    /\ \A op \in class.ops :
          /\ op.to # class.first
          /\ op.error => \A next \in class.ops : op.to \notin next.from
          /\ class.timed /\ class.first \in op.from => op.to = "running"

LEMMA Classes == \A kind \in Kind : Regular(Lifecycles!Class[kind])
<1>1. Regular(Lifecycles!Incident)
    <2>1. \A op \in Lifecycles!Incident.ops :
              \/ op.from = {"open"} /\ op.to = "resolved" /\ op.error = FALSE
              \/ op.from = {"resolved"} /\ op.to = "closed" /\ op.error = FALSE
        BY DEF Lifecycles!Incident, Lifecycles!Op, Lifecycles!Failing
    <2>2. Lifecycles!Incident.first = "open" /\ Lifecycles!Incident.timed = FALSE
        BY DEF Lifecycles!Incident
    <2>3. \E op \in Lifecycles!Incident.ops : op.from = {"open"}
        BY DEF Lifecycles!Incident, Lifecycles!Op, Lifecycles!Failing
    <2>4. \A op \in Lifecycles!Incident.ops : op.to # Lifecycles!Incident.first
        BY <2>1, <2>2
    <2>5. \A op, next \in Lifecycles!Incident.ops : op.error => op.to \notin next.from
        BY <2>1
    <2>6. \A op \in Lifecycles!Incident.ops : Lifecycles!Incident.timed /\ Lifecycles!Incident.first \in op.from => op.to = "running"
        BY <2>1, <2>2
    <2>7. Lifecycles!Incident.timed \in BOOLEAN /\ \E op \in Lifecycles!Incident.ops : Lifecycles!Incident.first \in op.from
        BY <2>2, <2>3
    <2> QED BY <2>4, <2>5, <2>6, <2>7 DEF Regular
<1>2. Regular(Lifecycles!Session)
    <2>1. \A op \in Lifecycles!Session.ops :
              \/ op.from = {"active"} /\ op.to = "waiting" /\ op.error = FALSE
              \/ op.from = {"active", "waiting"} /\ op.to = "completed" /\ op.error = FALSE
              \/ op.from = {"active", "waiting"} /\ op.to = "failed" /\ op.error = TRUE
              \/ op.from = {"active", "waiting"} /\ op.to = "cancelled" /\ op.error = FALSE
        BY DEF Lifecycles!Session, Lifecycles!Op, Lifecycles!Failing
    <2>2. Lifecycles!Session.first = "active" /\ Lifecycles!Session.timed = FALSE
        BY DEF Lifecycles!Session
    <2>3. \E op \in Lifecycles!Session.ops : op.from = {"active"}
        BY DEF Lifecycles!Session, Lifecycles!Op, Lifecycles!Failing
    <2>4. \A op \in Lifecycles!Session.ops : op.to # Lifecycles!Session.first
        BY <2>1, <2>2
    <2>5. \A op, next \in Lifecycles!Session.ops : op.error => op.to \notin next.from
        BY <2>1
    <2>6. \A op \in Lifecycles!Session.ops : Lifecycles!Session.timed /\ Lifecycles!Session.first \in op.from => op.to = "running"
        BY <2>1, <2>2
    <2>7. Lifecycles!Session.timed \in BOOLEAN /\ \E op \in Lifecycles!Session.ops : Lifecycles!Session.first \in op.from
        BY <2>2, <2>3
    <2> QED BY <2>4, <2>5, <2>6, <2>7 DEF Regular
<1>3. Regular(Lifecycles!Turn)
    <2>1. \A op \in Lifecycles!Turn.ops :
              \/ op.from = {"pending"} /\ op.to = "running" /\ op.error = FALSE
              \/ op.from = {"running"} /\ op.to = "waiting_tool" /\ op.error = FALSE
              \/ op.from = {"running", "waiting_tool"} /\ op.to = "completed" /\ op.error = FALSE
              \/ op.from = {"running", "waiting_tool"} /\ op.to = "failed" /\ op.error = TRUE
        BY DEF Lifecycles!Turn, Lifecycles!Op, Lifecycles!Failing
    <2>2. Lifecycles!Turn.first = "pending" /\ Lifecycles!Turn.timed = TRUE
        BY DEF Lifecycles!Turn
    <2>3. \E op \in Lifecycles!Turn.ops : op.from = {"pending"}
        BY DEF Lifecycles!Turn, Lifecycles!Op, Lifecycles!Failing
    <2>4. \A op \in Lifecycles!Turn.ops : op.to # Lifecycles!Turn.first
        BY <2>1, <2>2
    <2>5. \A op, next \in Lifecycles!Turn.ops : op.error => op.to \notin next.from
        BY <2>1
    <2>6. \A op \in Lifecycles!Turn.ops : Lifecycles!Turn.timed /\ Lifecycles!Turn.first \in op.from => op.to = "running"
        BY <2>1, <2>2
    <2>7. Lifecycles!Turn.timed \in BOOLEAN /\ \E op \in Lifecycles!Turn.ops : Lifecycles!Turn.first \in op.from
        BY <2>2, <2>3
    <2> QED BY <2>4, <2>5, <2>6, <2>7 DEF Regular
<1>4. Regular(Lifecycles!Task)
    <2>1. \A op \in Lifecycles!Task.ops :
              \/ op.from = {"pending"} /\ op.to = "running" /\ op.error = FALSE
              \/ op.from = {"running"} /\ op.to = "waiting_tool" /\ op.error = FALSE
              \/ op.from = {"running"} /\ op.to = "waiting_approval" /\ op.error = FALSE
              \/ op.from = {"waiting_tool", "waiting_approval"} /\ op.to = "running" /\ op.error = FALSE
              \/ op.from = {"running"} /\ op.to = "succeeded" /\ op.error = FALSE
              \/ op.from = {"running", "waiting_tool", "waiting_approval"} /\ op.to = "failed" /\ op.error = TRUE
              \/ op.from = {"pending", "running", "waiting_tool", "waiting_approval"} /\ op.to = "cancelled" /\ op.error = FALSE
        BY DEF Lifecycles!Task, Lifecycles!Op, Lifecycles!Failing
    <2>2. Lifecycles!Task.first = "pending" /\ Lifecycles!Task.timed = FALSE
        BY DEF Lifecycles!Task
    <2>3. \E op \in Lifecycles!Task.ops : op.from = {"pending"}
        BY DEF Lifecycles!Task, Lifecycles!Op, Lifecycles!Failing
    <2>4. \A op \in Lifecycles!Task.ops : op.to # Lifecycles!Task.first
        BY <2>1, <2>2
    <2>5. \A op, next \in Lifecycles!Task.ops : op.error => op.to \notin next.from
        BY <2>1
    <2>6. \A op \in Lifecycles!Task.ops : Lifecycles!Task.timed /\ Lifecycles!Task.first \in op.from => op.to = "running"
        BY <2>1, <2>2
    <2>7. Lifecycles!Task.timed \in BOOLEAN /\ \E op \in Lifecycles!Task.ops : Lifecycles!Task.first \in op.from
        BY <2>2, <2>3
    <2> QED BY <2>4, <2>5, <2>6, <2>7 DEF Regular
<1>5. Regular(Lifecycles!ToolCall)
    <2>1. \A op \in Lifecycles!ToolCall.ops :
              \/ op.from = {"requested"} /\ op.to = "running" /\ op.error = FALSE
              \/ op.from = {"running"} /\ op.to = "succeeded" /\ op.error = FALSE
              \/ op.from = {"running"} /\ op.to = "failed" /\ op.error = TRUE
              \/ op.from = {"requested", "running"} /\ op.to = "denied" /\ op.error = FALSE
              \/ op.from = {"running"} /\ op.to = "timed_out" /\ op.error = FALSE
        BY DEF Lifecycles!ToolCall, Lifecycles!Op, Lifecycles!Failing
    <2>2. Lifecycles!ToolCall.first = "requested" /\ Lifecycles!ToolCall.timed = FALSE
        BY DEF Lifecycles!ToolCall
    <2>3. \E op \in Lifecycles!ToolCall.ops : op.from = {"requested"}
        BY DEF Lifecycles!ToolCall, Lifecycles!Op, Lifecycles!Failing
    <2>4. \A op \in Lifecycles!ToolCall.ops : op.to # Lifecycles!ToolCall.first
        BY <2>1, <2>2
    <2>5. \A op, next \in Lifecycles!ToolCall.ops : op.error => op.to \notin next.from
        BY <2>1
    <2>6. \A op \in Lifecycles!ToolCall.ops : Lifecycles!ToolCall.timed /\ Lifecycles!ToolCall.first \in op.from => op.to = "running"
        BY <2>1, <2>2
    <2>7. Lifecycles!ToolCall.timed \in BOOLEAN /\ \E op \in Lifecycles!ToolCall.ops : Lifecycles!ToolCall.first \in op.from
        BY <2>2, <2>3
    <2> QED BY <2>4, <2>5, <2>6, <2>7 DEF Regular
<1>6. Regular(Lifecycles!Attempt)
    <2>1. \A op \in Lifecycles!Attempt.ops :
              \/ op.from = {"created"} /\ op.to = "running" /\ op.error = FALSE
              \/ op.from = {"running"} /\ op.to = "succeeded" /\ op.error = FALSE
              \/ op.from = {"running"} /\ op.to = "failed" /\ op.error = TRUE
              \/ op.from = {"running"} /\ op.to = "timed_out" /\ op.error = TRUE
        BY DEF Lifecycles!Attempt, Lifecycles!Op, Lifecycles!Failing
    <2>2. Lifecycles!Attempt.first = "created" /\ Lifecycles!Attempt.timed = TRUE
        BY DEF Lifecycles!Attempt
    <2>3. \E op \in Lifecycles!Attempt.ops : op.from = {"created"}
        BY DEF Lifecycles!Attempt, Lifecycles!Op, Lifecycles!Failing
    <2>4. \A op \in Lifecycles!Attempt.ops : op.to # Lifecycles!Attempt.first
        BY <2>1, <2>2
    <2>5. \A op, next \in Lifecycles!Attempt.ops : op.error => op.to \notin next.from
        BY <2>1
    <2>6. \A op \in Lifecycles!Attempt.ops : Lifecycles!Attempt.timed /\ Lifecycles!Attempt.first \in op.from => op.to = "running"
        BY <2>1, <2>2
    <2>7. Lifecycles!Attempt.timed \in BOOLEAN /\ \E op \in Lifecycles!Attempt.ops : Lifecycles!Attempt.first \in op.from
        BY <2>2, <2>3
    <2> QED BY <2>4, <2>5, <2>6, <2>7 DEF Regular
<1> QED BY <1>1, <1>2, <1>3, <1>4, <1>5, <1>6 DEF Kind, Lifecycles!Class

LEMMA FinalIsLeftByNone ==
    ASSUME NEW kind \in Kind, NEW op \in Lifecycles!Ops(kind)
    PROVE  /\ op.to \in Status
           /\ op.to \in Lifecycles!Final(kind) <=> \A next \in Lifecycles!Ops(kind) : op.to \notin next.from
           /\ \A status \in op.from : status \notin Lifecycles!Final(kind)
<1>1. op.to \in Status
    BY DEF Status
<1>2. op.to \in Lifecycles!Final(kind) <=> \A next \in Lifecycles!Ops(kind) : op.to \notin next.from
    BY DEF Lifecycles!Final
<1>3. \A status \in op.from : status \notin Lifecycles!Final(kind)
    BY DEF Lifecycles!Final
<1> QED BY <1>1, <1>2, <1>3

LEMMA CreatedTells ==
    ASSUME NEW kind \in Kind
    PROVE  Lifecycles!Created(kind) \in Entity /\ Tells(Lifecycles!Created(kind), FALSE)
<1> DEFINE e == Lifecycles!Created(kind)
           first == Lifecycles!Class[kind].first
<1>1. e.kind = kind /\ e.status = first /\ e.events = <<first>> /\ e.parts = <<>> /\ e.started = FALSE /\ e.ended = FALSE
    BY DEF Lifecycles!Created
<1>2. first \in Status
    BY DEF Status
<1>3. e \in Entity
    BY <1>2 DEF Lifecycles!Created, Entity
<1>4. first \notin Lifecycles!Final(kind)
    BY Classes DEF Regular, Lifecycles!Final, Lifecycles!Ops
<1>5. Len(<<first>>) = 1 /\ <<first>>[1] = first /\ <<first>> # <<>> /\ Len(<<>>) = 0
    OBVIOUS
<1> HIDE DEF e, first
<1>6. Tells(e, FALSE)
    BY <1>1, <1>4, <1>5 DEF Tells, first
<1> QED BY <1>3, <1>6 DEF e

(* A move that is made, and recorded or not.                               *)
LEMMA MoveTells ==
    ASSUME NEW e \in Entity, NEW r \in BOOLEAN, Tells(e, r), NEW op \in Lifecycles!Ops(e.kind), e.status \in op.from,
           NEW f \in Entity, NEW q \in BOOLEAN,
           f.kind = e.kind, f.parts = e.parts, f.status = op.to,
           Lifecycles!Class[e.kind].timed =>
              /\ f.started <=> e.started \/ op.to = "running"
              /\ f.ended <=> e.ended \/ op.to \in Lifecycles!Final(e.kind),
           \/ q = FALSE /\ f.events = Append(e.events, op.to)
           \/ q = TRUE /\ op.error /\ f.events = e.events
    PROVE  Tells(f, q)
<1> DEFINE final == Lifecycles!Final(e.kind)
           first == Lifecycles!Class[e.kind].first
           n == Len(e.events)
<1>0. e.kind \in Kind /\ e.events \in Seq(Status) /\ e.started \in BOOLEAN /\ e.ended \in BOOLEAN /\ f.ended \in BOOLEAN
      /\ f.started \in BOOLEAN
    BY DEF Entity
<1>1. ~r /\ e.status \notin final
    BY <1>0, FinalIsLeftByNone DEF Tells
<1>2. n \in Nat \ {0} /\ e.events[n] = e.status
    BY <1>0, <1>1 DEF Tells
<1>3. op.to \in Status
    BY <1>0, FinalIsLeftByNone
<1>4. op.error => op.to \in final /\ op.to # e.status
    BY <1>0, FinalIsLeftByNone, Classes DEF Regular, Lifecycles!Ops
<1>5. Lifecycles!Class[e.kind].timed => (first \in op.from => op.to = "running") /\ op.to # first
    BY <1>0, Classes DEF Regular, Lifecycles!Ops
<1>6. /\ f.events # <<>>
      /\ \A k \in 1..(Len(f.events) - 1) :
            \E o \in Lifecycles!Ops(f.kind) : f.events[k] \in o.from /\ f.events[k + 1] = o.to
      /\ ~q => f.status = f.events[Len(f.events)]
      /\ q => f.status \in final /\ f.status # f.events[Len(f.events)]
    <2>1. CASE q = TRUE
        BY <2>1, <1>2, <1>4 DEF Tells
    <2>2. CASE q = FALSE
        <3>1. f.events = Append(e.events, op.to) /\ Len(f.events) = n + 1 /\ f.events[n + 1] = op.to
              /\ \A k \in 1..n : f.events[k] = e.events[k]
            BY <2>2, <1>0, <1>3
        <3>2. ASSUME NEW k \in 1..n
              PROVE  \E o \in Lifecycles!Ops(f.kind) : f.events[k] \in o.from /\ f.events[k + 1] = o.to
            <4>1. CASE k = n
                BY <4>1, <3>1, <1>2
            <4>2. CASE k \in 1..(n - 1)
                <5>1. f.events[k] = e.events[k] /\ f.events[k + 1] = e.events[k + 1]
                    BY <4>2, <3>1, <1>2
                <5> QED BY <5>1, <4>2 DEF Tells
            <4> QED BY <4>1, <4>2, <1>2
        <3> QED BY <3>1, <3>2, <2>2, <1>2
    <2> QED BY <2>1, <2>2
<1>7. \A j, k \in 1..Len(f.parts) : f.parts[j] = f.parts[k] => j = k
    BY DEF Tells
<1>8. Lifecycles!Class[f.kind].timed =>
          (f.ended <=> f.status \in final) /\ (f.status # first => f.started)
    BY <1>0, <1>1, <1>5 DEF Tells
<1> QED BY <1>6, <1>7, <1>8 DEF Tells

LEMMA TimedEntity ==
    ASSUME NEW e \in Entity, NEW to \in Status
    PROVE  /\ Lifecycles!Timed(e, to) \in Entity
           /\ \A field \in {"kind", "status", "events", "parts"} : Lifecycles!Timed(e, to)[field] = e[field]
           /\ Lifecycles!Class[e.kind].timed =>
                 /\ Lifecycles!Timed(e, to).started <=> e.started \/ to = "running"
                 /\ Lifecycles!Timed(e, to).ended <=> e.ended \/ to \in Lifecycles!Final(e.kind)
<1>1. CASE Lifecycles!Class[e.kind].timed
    <2> DEFINE a == (e.started \/ to = "running")
               b == (e.ended \/ to \in Lifecycles!Final(e.kind))
    <2>1. a \in BOOLEAN /\ b \in BOOLEAN
        BY DEF Entity
    <2>2. Lifecycles!Timed(e, to) = [e EXCEPT !.started = a, !.ended = b]
        BY <1>1 DEF Lifecycles!Timed
    <2> HIDE DEF a, b
    <2>3. [e EXCEPT !.started = a, !.ended = b] \in Entity
        BY <2>1 DEF Entity
    <2>4. /\ \A field \in {"kind", "status", "events", "parts"} : Lifecycles!Timed(e, to)[field] = e[field]
          /\ Lifecycles!Timed(e, to).started = a /\ Lifecycles!Timed(e, to).ended = b
        BY <2>2 DEF Entity
    <2> QED BY <2>2, <2>3, <2>4 DEF a, b
<1>2. CASE ~Lifecycles!Class[e.kind].timed
    BY <1>2 DEF Lifecycles!Timed
<1> QED BY <1>1, <1>2

LEMMA PartsTell ==
    ASSUME NEW e \in Entity, NEW r \in BOOLEAN, Tells(e, r), NEW f \in Entity,
           f.kind = e.kind, f.status = e.status, f.events = e.events, f.started = e.started, f.ended = e.ended,
           \A j, k \in 1..Len(f.parts) : f.parts[j] = f.parts[k] => j = k
    PROVE  Tells(f, r)
BY DEF Tells, Entity

LEMMA LifecycleStep ==
    ASSUME LifecycleInv, Lifecycles!EntityNext
    PROVE  LifecycleInv'
<1> USE DEF LifecycleInv
<1>1. ASSUME NEW op \in Lifecycles!Ops(entity.kind), Lifecycles!Move(op)
      PROVE  LifecycleInv'
    <2> DEFINE t == Lifecycles!Timed(entity, op.to)
    <2>1. entity.kind \in Kind
        BY DEF Entity
    <2>2. op.to \in Status
        BY <2>1, FinalIsLeftByNone
    <2>3. t \in Entity
        BY <2>2, TimedEntity
    <2>4. t.kind = entity.kind /\ t.events = entity.events /\ t.parts = entity.parts
        BY <2>2, TimedEntity
    <2>5. entity.status \in op.from /\ entity' = [t EXCEPT !.status = op.to, !.events = Append(@, op.to)]
          /\ raised' = FALSE /\ stored' = stored
        BY <1>1 DEF Lifecycles!Move, Lifecycles!Allowed
    <2>6. Lifecycles!Class[entity.kind].timed =>
              /\ t.started <=> entity.started \/ op.to = "running"
              /\ t.ended <=> entity.ended \/ op.to \in Lifecycles!Final(entity.kind)
        BY <2>2, TimedEntity
    <2> HIDE DEF t
    <2>7. Append(t.events, op.to) \in Seq(Status)
        BY <2>2, <2>3 DEF Entity
    <2>8. /\ entity' \in Entity /\ entity'.kind = t.kind /\ entity'.status = op.to /\ entity'.events = Append(t.events, op.to)
          /\ entity'.parts = t.parts /\ entity'.started = t.started /\ entity'.ended = t.ended
        BY <2>2, <2>3, <2>5, <2>7 DEF Entity
    <2>9. Tells(entity', FALSE)
        BY ZenonT(60), <2>4, <2>5, <2>6, <2>8, MoveTells
    <2> QED BY <2>5, <2>8, <2>9
<1>2. ASSUME NEW op \in Lifecycles!Ops(entity.kind), Lifecycles!MoveUnrecorded(op)
      PROVE  LifecycleInv'
    <2> DEFINE t == Lifecycles!Timed(entity, op.to)
    <2>1. entity.kind \in Kind
        BY DEF Entity
    <2>2. op.to \in Status
        BY <2>1, FinalIsLeftByNone
    <2>3. t \in Entity
        BY <2>2, TimedEntity
    <2>4. t.kind = entity.kind /\ t.events = entity.events /\ t.parts = entity.parts
        BY <2>2, TimedEntity
    <2>5. entity.status \in op.from /\ op.error /\ entity' = [t EXCEPT !.status = op.to]
          /\ raised' = TRUE /\ stored' = stored
        BY <1>2 DEF Lifecycles!MoveUnrecorded, Lifecycles!Allowed
    <2>6. Lifecycles!Class[entity.kind].timed =>
              /\ t.started <=> entity.started \/ op.to = "running"
              /\ t.ended <=> entity.ended \/ op.to \in Lifecycles!Final(entity.kind)
        BY <2>2, TimedEntity
    <2> HIDE DEF t
    <2>8. /\ entity' \in Entity /\ entity'.kind = t.kind /\ entity'.status = op.to /\ entity'.events = t.events
          /\ entity'.parts = t.parts /\ entity'.started = t.started /\ entity'.ended = t.ended
        BY <2>2, <2>3, <2>5 DEF Entity
    <2>9. Tells(entity', TRUE)
        BY ZenonT(60), <2>4, <2>5, <2>6, <2>8, MoveTells
    <2> QED BY <2>5, <2>8, <2>9
<1>3. ASSUME NEW p \in Part, Lifecycles!AddPart(p)
      PROVE  LifecycleInv'
    <2>1. entity.parts \in Seq(Part)
        BY DEF Entity
    <2>2. CASE Lifecycles!Contains(entity.parts, p)
        BY <1>3, <2>2 DEF Lifecycles!AddPart
    <2>3. CASE ~Lifecycles!Contains(entity.parts, p)
        <3> DEFINE n == Len(entity.parts)
        <3>1. entity' = [entity EXCEPT !.parts = Append(@, p)] /\ raised' = raised /\ stored' = stored
            BY <1>3, <2>3 DEF Lifecycles!AddPart
        <3>2. \A k \in 1..n : entity.parts[k] # p
            BY <2>3 DEF Lifecycles!Contains
        <3>3. Append(entity.parts, p) \in Seq(Part)
            BY <2>1
        <3>4. /\ entity' \in Entity /\ entity'.kind = entity.kind /\ entity'.status = entity.status /\ entity'.events = entity.events
              /\ entity'.parts = Append(entity.parts, p) /\ entity'.started = entity.started /\ entity'.ended = entity.ended
            BY <3>1, <3>3 DEF Entity
        <3>5. Len(entity'.parts) = n + 1 /\ entity'.parts[n + 1] = p /\ n \in Nat
              /\ \A k \in 1..n : entity'.parts[k] = entity.parts[k]
            BY <2>1, <3>4
        <3>6. \A j, k \in 1..n : entity.parts[j] = entity.parts[k] => j = k
            BY DEF Tells
        <3>7. \A j, k \in 1..Len(entity'.parts) : entity'.parts[j] = entity'.parts[k] => j = k
            <4> HIDE DEF n
            <4> SUFFICES ASSUME NEW j \in 1..(n + 1), NEW k \in 1..(n + 1), entity'.parts[j] = entity'.parts[k]
                         PROVE  j = k
                BY <3>5
            <4>1. CASE j \in 1..n /\ k \in 1..n
                BY <4>1, <3>5, <3>6
            <4>2. CASE j = n + 1 \/ k = n + 1
                BY <4>2, <3>2, <3>5
            <4> QED BY <4>1, <4>2, <3>5
        <3>8. Tells(entity', raised)
            BY <3>4, <3>7, PartsTell
        <3> QED BY <3>1, <3>4, <3>8
    <2> QED BY <2>2, <2>3
<1>4. CASE Lifecycles!Store
    BY <1>4 DEF Lifecycles!Store
<1>5. CASE Lifecycles!Restore
    BY <1>5 DEF Lifecycles!Restore
<1> QED BY <1>1, <1>2, <1>3, <1>4, <1>5 DEF Lifecycles!EntityNext

(* Whatever moves are made of an entity, with errors that are JSON or not, *)
(* and whenever it is stored and read again: its events are a walk through *)
(* its lifecycle that ends at its status unless the last move raised,      *)
(* nothing is collected twice, and what ended is at an end (the lifecycle  *)
(* methods of domain/, to_dict and from_dict).                             *)
THEOREM EventsStayTrue ==
    Lifecycles!EntityInit /\ [][Lifecycles!EntityNext]_Lifecycles!entityVars => []Lifecycles!EventsTellTheStatus
<1>1. Lifecycles!EntityInit => LifecycleInv
    <2> SUFFICES ASSUME Lifecycles!EntityInit PROVE LifecycleInv
        OBVIOUS
    <2>1. PICK kind \in Kind : entity = Lifecycles!Created(kind)
        BY DEF Lifecycles!EntityInit, Lifecycles!Class, Kind
    <2>2. raised = FALSE /\ stored = [entity |-> entity, raised |-> FALSE]
        BY DEF Lifecycles!EntityInit
    <2> QED BY <2>1, <2>2, CreatedTells DEF LifecycleInv
<1>2. LifecycleInv /\ [Lifecycles!EntityNext]_Lifecycles!entityVars => LifecycleInv'
    BY LifecycleStep DEF LifecycleInv, Lifecycles!entityVars
<1>3. LifecycleInv => Lifecycles!EventsTellTheStatus
    <2> SUFFICES ASSUME LifecycleInv PROVE Lifecycles!EventsTellTheStatus
        OBVIOUS
    <2>1. entity \in Entity /\ raised \in BOOLEAN /\ entity.kind \in Kind /\ entity.parts \in Seq(Part) /\ Tells(entity, raised)
        BY DEF LifecycleInv, Entity
    <2>2. Lifecycles!IsInjective(entity.parts)
        BY <2>1 DEF Tells, Lifecycles!IsInjective
    <2>3. Lifecycles!Class[entity.kind].first \notin Lifecycles!Final(entity.kind)
        BY <2>1, Classes DEF Regular, Lifecycles!Final, Lifecycles!Ops
    <2>4. Lifecycles!Last(entity.events) = entity.events[Len(entity.events)]
        BY DEF Lifecycles!Last
    <2> QED BY <2>1, <2>2, <2>3, <2>4 DEF Lifecycles!EventsTellTheStatus, Tells
<1> QED BY <1>1, <1>2, <1>3, PTL

-----------------------------------------------------------------------------
(* The records of the JSON files, imported by a program that may die       *)
(* (LegacyImport).                                                         *)
CONSTANTS Items, MaxDeaths
VARIABLES rows, messages, ledger, at, step, report, saves, deaths
Import == INSTANCE LegacyImport

Report == [scanned : Nat, inserted : Nat, skipped : Nat, failed : SUBSET Import!Position]
ImportType ==
    /\ rows \in [Import!Id -> {Import!Absent, "legacy", "live"}] /\ messages \in [Import!Id -> Nat]
    /\ ledger \subseteq Import!Position /\ at \in 1..(Len(Items) + 1)
    /\ step \in {"check", "save", "enter", "done", "aborted", "dead"}
    /\ report \in Report
    /\ saves \in [Import!Position -> Nat] /\ deaths \in Nat

(* A row is there if it was saved; it was saved once, and once more for    *)
(* each death at most.                                                     *)
Entering(k) == step = "enter" /\ at = k
SavedInv ==
    \A k \in Import!Position :
        /\ rows[Items[k].id] # Import!Absent <=> saves[k] > 0
        /\ k \in ledger \/ Entering(k) => saves[k] > 0
        /\ saves[k] <= (IF k \in ledger \/ Entering(k) THEN 1 ELSE 0) + deaths
        /\ Items[k].kind = "message" => messages[Items[k].id] = saves[k]

(* The import is at an item that is not in the ledger yet.                 *)
ItemInv == step \in {"save", "enter"} => at \in Import!Position /\ at \notin ledger /\ Items[at].kind # "malformed"

(* What it counts, and why what failed did.                                *)
CountInv ==
    step \in {"check", "save", "enter", "done"} =>
        /\ step = "done" => at = Len(Items) + 1
        /\ report.scanned = (IF step \in {"save", "enter"} THEN at ELSE at - 1)
        /\ IsFiniteSet(report.failed)
        /\ at - 1 = report.inserted + report.skipped + Cardinality(report.failed)
        /\ \A k \in report.failed :
              /\ k < at /\ k \notin ledger /\ Items[k].kind # "malformed"
              /\ IF Items[k].kind \in Import!Needing THEN ~Import!Exists(Items[k].parent) ELSE rows[Items[k].id] = "live"

ImportInv == ImportType /\ SavedInv /\ ItemInv /\ CountInv

LEMMA SameCount == \A S : Import!Cardinality(S) = Cardinality(S)
BY Zenon DEF Import!Cardinality, Cardinality

LEMMA ItemFacts ==
    ASSUME Import!ConstantsOK
    PROVE  /\ Len(Items) \in Nat /\ Import!Position = 1..Len(Items) /\ MaxDeaths \in Nat
           /\ \A k \in Import!Position : Items[k].kind \in Import!Kind /\ Items[k].id \in Import!Id
           /\ \A j, k \in Import!Position :
                 /\ Items[j].id = Items[k].id => j = k
                 /\ Items[k].kind \in Import!Needing => Items[k].parent # Import!Absent /\ (Items[j].id = Items[k].parent => j < k)
<1>1. Items \in Seq([kind : Import!Kind, id : Import!Id, parent : {Items[k].parent : k \in Import!Position}])
    BY DEF Import!ConstantsOK
<1>2. Len(Items) \in Nat /\ Import!Position = 1..Len(Items)
    BY <1>1 DEF Import!Position
<1>3. ASSUME NEW k \in Import!Position
      PROVE  Items[k].kind \in Import!Kind /\ Items[k].id \in Import!Id
    <2> DEFINE Parent == {Items[j].parent : j \in Import!Position}
               Item == [kind : Import!Kind, id : Import!Id, parent : Parent]
    <2>1. Items \in Seq(Item) /\ k \in 1..Len(Items)
        BY <1>1, <1>2
    <2> HIDE DEF Item
    <2>2. Items[k] \in Item
        BY <2>1
    <2> QED BY <2>2 DEF Item
<1> QED BY <1>2, <1>3 DEF Import!ConstantsOK

LEMMA Skipping ==
    ASSUME NEW r \in Report, NEW s, s = [r EXCEPT !.scanned = @ + 1, !.skipped = @ + 1]
    PROVE  /\ s \in Report /\ s.scanned = r.scanned + 1 /\ s.skipped = r.skipped + 1
           /\ s.inserted = r.inserted /\ s.failed = r.failed
<1>1. r.scanned + 1 \in Nat /\ r.skipped + 1 \in Nat
    BY DEF Report
<1> QED BY <1>1 DEF Report

LEMMA Scanning ==
    ASSUME NEW r \in Report, NEW s, s = [r EXCEPT !.scanned = @ + 1]
    PROVE  /\ s \in Report /\ s.scanned = r.scanned + 1 /\ s.skipped = r.skipped
           /\ s.inserted = r.inserted /\ s.failed = r.failed
<1>1. r.scanned + 1 \in Nat
    BY DEF Report
<1> QED BY <1>1 DEF Report

LEMMA Inserting ==
    ASSUME NEW r \in Report, NEW s, s = [r EXCEPT !.inserted = @ + 1]
    PROVE  /\ s \in Report /\ s.inserted = r.inserted + 1 /\ s.skipped = r.skipped
           /\ s.scanned = r.scanned /\ s.failed = r.failed
<1>1. r.inserted + 1 \in Nat
    BY DEF Report
<1> QED BY <1>1 DEF Report

LEMMA ImportStarts == ASSUME Import!ConstantsOK, Import!ImportInit PROVE ImportInv
<1>1. /\ rows = [id \in Import!Id |-> Import!Absent] /\ messages = [id \in Import!Id |-> 0] /\ ledger = {}
      /\ at = 1 /\ step = "check" /\ report = Import!NoReport
      /\ saves = [k \in Import!Position |-> 0] /\ deaths = 0
    BY DEF Import!ImportInit
<1>2. /\ report.scanned = 0 /\ report.inserted = 0 /\ report.skipped = 0 /\ report.failed = {}
      /\ report \in Report
    BY <1>1 DEF Import!NoReport, Report
<1>3. ImportType
    BY <1>1, <1>2, ItemFacts DEF ImportType
<1>4. SavedInv
    BY <1>1, ItemFacts DEF SavedInv, Entering
<1>5. Cardinality(report.failed) = 0 /\ IsFiniteSet(report.failed)
    BY <1>2, FS_EmptySet
<1>6. CountInv
    BY <1>1, <1>2, <1>5 DEF CountInv
<1> QED BY <1>1, <1>3, <1>4, <1>6 DEF ImportInv, ItemInv

LEMMA ScanStep == ASSUME Import!ConstantsOK, ImportInv, Import!Scan PROVE ImportInv'
<1>1. step = "check" /\ at \in Import!Position /\ UNCHANGED <<rows, messages, ledger, saves, deaths>>
    BY DEF Import!Scan
<1>2. Len(Items) \in Nat /\ Import!Position = 1..Len(Items) /\ Items[at].kind \in Import!Kind
    BY <1>1, ItemFacts
<1>3. CASE Items[at].kind = "malformed"
    <2>1. step' = "aborted" /\ UNCHANGED <<at, report>>
        BY <1>3 DEF Import!Scan
    <2> QED BY <1>1, <2>1 DEF ImportInv, ImportType, SavedInv, ItemInv, CountInv, Entering
<1>4. CASE Items[at].kind # "malformed" /\ at \in ledger
    <2>1. at' = at + 1 /\ step' = "check" /\ report' = [report EXCEPT !.scanned = @ + 1, !.skipped = @ + 1]
        BY <1>4 DEF Import!Scan, Import!Following
    <2>2. /\ report'.scanned = report.scanned + 1 /\ report'.inserted = report.inserted /\ report'.skipped = report.skipped + 1
          /\ report'.failed = report.failed
          /\ report' \in Report
        BY <2>1, Skipping DEF ImportInv, ImportType
    <2>3. ImportType'
        BY <1>1, <1>2, <2>1, <2>2 DEF ImportInv, ImportType
    <2>4. SavedInv' /\ ItemInv'
        BY <1>1, <2>1 DEF ImportInv, SavedInv, ItemInv, Entering
    <2>5. CountInv'
        <3>1. IsFiniteSet(report.failed) => Cardinality(report.failed) \in Nat
            BY FS_CardinalityType
        <3>2. /\ IsFiniteSet(report'.failed) /\ at' \in Nat /\ report'.scanned = at' - 1
              /\ at' - 1 = report'.inserted + report'.skipped + Cardinality(report'.failed)
            <4>1. report.scanned = at - 1 /\ at - 1 = report.inserted + report.skipped + Cardinality(report.failed)
                  /\ IsFiniteSet(report.failed)
                BY <1>1 DEF ImportInv, CountInv
            <4>2. report.scanned \in Nat /\ report.inserted \in Nat /\ report.skipped \in Nat /\ at \in Nat
                BY <1>1, <1>2 DEF ImportInv, ImportType, Report
            <4>3. Cardinality(report'.failed) = Cardinality(report.failed)
                BY <2>2
            <4> HIDE DEF ImportInv
            <4> QED BY <2>1, <2>2, <3>1, <4>1, <4>2, <4>3
        <3>3. (\A k \in report.failed :
                  /\ k < at /\ k \notin ledger /\ Items[k].kind # "malformed"
                  /\ IF Items[k].kind \in Import!Needing THEN ~Import!Exists(Items[k].parent) ELSE rows[Items[k].id] = "live")'
            <4>1. \A k \in report.failed : k \in Nat /\ k < at
                BY <1>1, <1>2 DEF ImportInv, ImportType, Report, CountInv
            <4>2. at \in Nat /\ at' = at + 1 /\ report'.failed = report.failed
                BY <1>1, <1>2, <2>1, <2>2
            <4>3. \A k \in report.failed : k < at'
                BY <4>1, <4>2
            <4> QED BY <1>1, <4>2, <4>3 DEF ImportInv, CountInv, Import!Exists
        <3> QED BY <2>1, <3>2, <3>3 DEF CountInv
    <2> QED BY <2>3, <2>4, <2>5 DEF ImportInv
<1>5. CASE Items[at].kind # "malformed" /\ at \notin ledger
    <2>1. at' = at /\ step' = "save" /\ report' = [report EXCEPT !.scanned = @ + 1]
        BY <1>5 DEF Import!Scan
    <2>2. /\ report'.scanned = report.scanned + 1 /\ report'.inserted = report.inserted /\ report'.skipped = report.skipped
          /\ report'.failed = report.failed
          /\ report' \in Report
        BY <2>1, Scanning DEF ImportInv, ImportType
    <2>3. ImportType'
        BY <1>1, <1>2, <2>1, <2>2 DEF ImportInv, ImportType
    <2>4. SavedInv' /\ ItemInv'
        BY <1>1, <1>5, <2>1 DEF ImportInv, SavedInv, ItemInv, Entering
    <2>5. CountInv'
        <3>1. IsFiniteSet(report.failed) => Cardinality(report.failed) \in Nat
            BY FS_CardinalityType
        <3> QED BY <1>1, <1>2, <2>1, <2>2, <3>1 DEF ImportInv, ImportType, Report, CountInv, Import!Exists
    <2> QED BY <2>3, <2>4, <2>5 DEF ImportInv
<1> QED BY <1>3, <1>4, <1>5

(* What is saved is saved again in an import that follows a death only.    *)
LEMMA SaveStep == ASSUME Import!ConstantsOK, ImportInv, Import!SaveItem PROVE ImportInv'
<1> DEFINE item == Items[at]
<1>1. step = "save" /\ UNCHANGED <<ledger, deaths>> /\ at \in Import!Position /\ at \notin ledger /\ item.kind # "malformed"
    BY DEF Import!SaveItem, ImportInv, ItemInv
<1>2. Len(Items) \in Nat /\ Import!Position = 1..Len(Items) /\ item.kind \in Import!Kind /\ item.id \in Import!Id
    BY <1>1, ItemFacts
<1>3. IsFiniteSet(report.failed) /\ Cardinality(report.failed) \in Nat
    BY <1>1, FS_CardinalityType DEF ImportInv, CountInv
<1>4. CASE Import!Accepts(item)
    <2>1. Import!Save(item) /\ saves' = [saves EXCEPT ![at] = @ + 1] /\ step' = "enter" /\ at' = at /\ report' = report
        BY <1>4 DEF Import!SaveItem
    <2>2. /\ \/ rows' = rows /\ rows[item.id] # Import!Absent
             \/ rows' = [rows EXCEPT ![item.id] = "legacy"]
          /\ messages' = IF item.kind = "message" THEN [messages EXCEPT ![item.id] = @ + 1] ELSE messages
        BY <2>1 DEF Import!Save, Import!Exists, Import!Upserted
    <2>3. ImportType'
        <3>1. ImportType
            BY DEF ImportInv
        <3>2. rows' \in [Import!Id -> {Import!Absent, "legacy", "live"}]
            BY <1>2, <2>2, <3>1 DEF ImportType
        <3>3. messages' \in [Import!Id -> Nat]
            BY <1>2, <2>2, <3>1 DEF ImportType
        <3>4. saves' \in [Import!Position -> Nat]
            BY <1>1, <2>1, <3>1 DEF ImportType
        <3> QED BY <1>1, <2>1, <3>1, <3>2, <3>3, <3>4 DEF ImportType
    <2>4. /\ rows'[item.id] # Import!Absent /\ saves'[at] = saves[at] + 1
          /\ \A k \in Import!Position \ {at} : rows'[Items[k].id] = rows[Items[k].id] /\ saves'[k] = saves[k]
                                             /\ messages'[Items[k].id] = messages[Items[k].id]
          /\ item.kind = "message" => messages'[item.id] = messages[item.id] + 1
        BY <1>1, <1>2, <2>1, <2>2, ItemFacts DEF ImportInv, ImportType, Import!Absent
    <2>5. SavedInv'
        <3> SUFFICES ASSUME NEW k \in Import!Position
                     PROVE  (/\ rows[Items[k].id] # Import!Absent <=> saves[k] > 0
                             /\ k \in ledger \/ Entering(k) => saves[k] > 0
                             /\ saves[k] <= (IF k \in ledger \/ Entering(k) THEN 1 ELSE 0) + deaths
                             /\ Items[k].kind = "message" => messages[Items[k].id] = saves[k])'
            BY DEF SavedInv
        <3>1. CASE k = at
            BY <3>1, <1>1, <2>1, <2>4 DEF ImportInv, ImportType, SavedInv, Entering
        <3>2. CASE k # at
            BY <3>2, <1>1, <2>1, <2>4 DEF ImportInv, ImportType, SavedInv, Entering
        <3> QED BY <3>1, <3>2
    <2>6. CountInv'
        <3>1. ASSUME NEW k \in report.failed, Items[k].kind \in Import!Needing
              PROVE  ~Import!Exists(Items[k].parent)'
            <4>1. k < at /\ ~Import!Exists(Items[k].parent) /\ k \in Import!Position
                BY <1>1, <3>1 DEF ImportInv, ImportType, Report, CountInv
            <4>2. item.id # Items[k].parent
                BY <1>1, <1>2, <3>1, <4>1, ItemFacts
            <4> QED BY <1>2, <2>2, <4>1, <4>2 DEF Import!Exists, ImportInv, ImportType
        <3>2. ASSUME NEW k \in report.failed, Items[k].kind \notin Import!Needing
              PROVE  rows'[Items[k].id] = "live"
            BY <1>1, <1>2, <2>4, <3>2 DEF ImportInv, ImportType, Report, CountInv
        <3> QED BY <1>1, <2>1, <3>1, <3>2 DEF ImportInv, CountInv
    <2>7. ItemInv'
        BY <1>1, <2>1 DEF ItemInv
    <2> QED BY <2>3, <2>5, <2>6, <2>7 DEF ImportInv
<1>5. CASE ~Import!Accepts(item)
    <2>1. /\ at' = at + 1 /\ step' = "check" /\ report' = [report EXCEPT !.failed = @ \cup {at}]
          /\ UNCHANGED <<rows, messages, saves>>
        BY <1>5 DEF Import!SaveItem, Import!Following
    <2>2. /\ report'.scanned = report.scanned /\ report'.inserted = report.inserted /\ report'.skipped = report.skipped
          /\ report'.failed = report.failed \cup {at}
          /\ report' \in Report
        BY <1>1, <2>1 DEF ImportInv, ImportType, Report
    <2>3. at \notin report.failed
        BY <1>1, <1>2 DEF ImportInv, CountInv
    <2>4. IsFiniteSet(report'.failed) /\ Cardinality(report'.failed) = Cardinality(report.failed) + 1
        BY <1>3, <2>2, <2>3, FS_AddElement
    <2>5. IF item.kind \in Import!Needing THEN ~Import!Exists(item.parent) ELSE rows[item.id] = "live"
        BY <1>1, <1>2, <1>5 DEF Import!Accepts, Import!Kind, Import!Needing
    <2>6. ImportType'
        BY <1>1, <1>2, <2>1, <2>2 DEF ImportInv, ImportType
    <2>7. SavedInv' /\ ItemInv'
        BY <1>1, <2>1 DEF ImportInv, SavedInv, ItemInv, Entering
    <2>8. CountInv'
        <3>1. (\A k \in report.failed :
                  /\ k < at /\ k \notin ledger /\ Items[k].kind # "malformed"
                  /\ IF Items[k].kind \in Import!Needing THEN ~Import!Exists(Items[k].parent) ELSE rows[Items[k].id] = "live")'
            <4>1. \A k \in report.failed : k \in Nat /\ k < at
                BY <1>1, <1>2 DEF ImportInv, ImportType, Report, CountInv
            <4>2. at \in Nat /\ at' = at + 1 /\ report'.failed = report.failed \cup {at}
                BY <1>1, <1>2, <2>1, <2>2
            <4>3. \A k \in report'.failed : k < at'
                BY <4>1, <4>2
            <4>4. (\A k \in report.failed :
                  /\ k \notin ledger /\ Items[k].kind # "malformed"
                  /\ IF Items[k].kind \in Import!Needing THEN ~Import!Exists(Items[k].parent) ELSE rows[Items[k].id] = "live")
                BY <1>1 DEF ImportInv, CountInv
            <4>5. \A x : Import!Exists(x)' <=> Import!Exists(x)
                BY <2>1 DEF Import!Exists
            <4> QED BY <1>1, <2>1, <2>5, <4>2, <4>3, <4>4, <4>5
        <3>2. at' - 1 = report'.inserted + report'.skipped + Cardinality(report'.failed) /\ report'.scanned = at' - 1
            <4>1. report.scanned = at /\ at - 1 = report.inserted + report.skipped + Cardinality(report.failed)
                BY <1>1 DEF ImportInv, CountInv
            <4>2. report.scanned \in Nat /\ report.inserted \in Nat /\ report.skipped \in Nat /\ at \in Nat
                BY <1>1, <1>2 DEF ImportInv, ImportType, Report
            <4> HIDE DEF ImportInv
            <4> QED BY <1>3, <2>1, <2>2, <2>4, <4>1, <4>2
        <3> QED BY <2>1, <2>4, <3>1, <3>2 DEF CountInv
    <2> QED BY <2>6, <2>7, <2>8 DEF ImportInv
<1> QED BY <1>4, <1>5

LEMMA EnterStep == ASSUME Import!ConstantsOK, ImportInv, Import!Enter PROVE ImportInv'
<1>1. /\ step = "enter" /\ ledger' = ledger \cup {at} /\ report' = [report EXCEPT !.inserted = @ + 1]
      /\ at' = at + 1 /\ step' = "check" /\ UNCHANGED <<rows, messages, saves, deaths>>
    BY DEF Import!Enter, Import!Following
<1>2. Len(Items) \in Nat /\ Import!Position = 1..Len(Items) /\ at \in Import!Position /\ at \notin ledger
    BY <1>1, ItemFacts DEF ImportInv, ItemInv
<1>3. /\ report' \in Report /\ report'.inserted = report.inserted + 1 /\ report'.skipped = report.skipped
      /\ report'.scanned = report.scanned /\ report'.failed = report.failed
    BY <1>1, Inserting DEF ImportInv, ImportType
<1>4. ImportType'
    BY <1>1, <1>2, <1>3 DEF ImportInv, ImportType
<1>5. SavedInv' /\ ItemInv'
    BY <1>1, <1>2 DEF ImportInv, SavedInv, ItemInv, Entering
<1>6. CountInv'
    <2>1. /\ IsFiniteSet(report.failed) /\ report.scanned = at
          /\ at - 1 = report.inserted + report.skipped + Cardinality(report.failed)
        BY <1>1 DEF ImportInv, CountInv
    <2>2. report.scanned \in Nat /\ report.inserted \in Nat /\ report.skipped \in Nat /\ at \in Nat
        BY <1>2 DEF ImportInv, ImportType, Report
    <2>3. Cardinality(report.failed) \in Nat /\ Cardinality(report'.failed) = Cardinality(report.failed)
        BY <1>3, <2>1, FS_CardinalityType
    <2>4. at' - 1 = report'.inserted + report'.skipped + Cardinality(report'.failed) /\ report'.scanned = at' - 1
        BY <1>1, <1>3, <2>1, <2>2, <2>3
    <2>5. \A k \in report.failed : k \in Nat /\ k < at
        BY <1>1, <1>2 DEF ImportInv, ImportType, Report, CountInv
    <2>6. \A k \in report'.failed : k < at' /\ k \notin ledger' 
        <3>1. \A k \in report.failed : k < at' /\ k # at
            BY <1>1, <2>2, <2>5
        <3> QED BY <1>1, <1>3, <3>1 DEF ImportInv, CountInv
    <2>7. \A x : Import!Exists(x)' <=> Import!Exists(x)
        BY <1>1 DEF Import!Exists
    <2> QED BY <1>1, <1>3, <2>1, <2>4, <2>6, <2>7 DEF ImportInv, CountInv
<1> QED BY <1>4, <1>5, <1>6 DEF ImportInv

LEMMA LiveStep == ASSUME Import!ConstantsOK, ImportInv, NEW j \in Import!Position, Import!Live(j) PROVE ImportInv'
<1>1. /\ rows' = [rows EXCEPT ![Items[j].id] = "live"] /\ rows[Items[j].id] # Import!Absent
      /\ UNCHANGED <<messages, ledger, at, step, report, saves, deaths>>
    BY DEF Import!Live, Import!Exists
<1>2. Items[j].id \in Import!Id /\ \A k \in Import!Position : Items[k].id \in Import!Id
    BY ItemFacts
<1>3. rows' \in [Import!Id -> {Import!Absent, "legacy", "live"}]
    BY <1>1, <1>2 DEF ImportInv, ImportType
<1>4. ASSUME NEW id \in Import!Id
      PROVE  (rows'[id] # Import!Absent <=> rows[id] # Import!Absent) /\ (rows[id] = "live" => rows'[id] = "live")
    <2>1. rows \in [Import!Id -> {Import!Absent, "legacy", "live"}]
        BY DEF ImportInv, ImportType
    <2>2. rows'[id] = IF id = Items[j].id THEN "live" ELSE rows[id]
        BY <1>1, <2>1
    <2> QED BY <1>1, <2>2 DEF Import!Absent
<1>5. \A x : Import!Exists(x)' <=> Import!Exists(x)
    <2> SUFFICES ASSUME NEW x PROVE Import!Exists(x)' <=> Import!Exists(x)
        OBVIOUS
    <2>1. Import!Id' = Import!Id
        OBVIOUS
    <2>2. x \in Import!Id => (rows'[x] # Import!Absent <=> rows[x] # Import!Absent)
        BY <1>4
    <2> QED BY <2>1, <2>2 DEF Import!Exists
<1>6. ImportType'
    BY <1>1, <1>3 DEF ImportInv, ImportType
<1>7. SavedInv' /\ ItemInv'
    <2>1. \A k \in Import!Position : rows'[Items[k].id] # Import!Absent <=> rows[Items[k].id] # Import!Absent
        BY <1>2, <1>4
    <2> QED BY <1>1, <2>1 DEF ImportInv, SavedInv, ItemInv, Entering
<1>8. CountInv'
    <2>1. \A k \in report.failed : k \in Import!Position
        BY DEF ImportInv, ImportType, Report
    <2> QED BY <1>1, <1>2, <1>4, <1>5, <2>1 DEF ImportInv, CountInv
<1> QED BY <1>6, <1>7, <1>8 DEF ImportInv

LEMMA ImportStep == ASSUME Import!ConstantsOK, ImportInv, Import!ImportNext PROVE ImportInv'
<1>0. Len(Items) \in Nat /\ Import!Position = 1..Len(Items)
    BY ItemFacts
<1>1. CASE Import!Done
    <2>1. step = "check" /\ at = Len(Items) + 1 /\ step' = "done"
          /\ UNCHANGED <<rows, messages, ledger, at, report, saves, deaths>>
        BY <1>1 DEF Import!Done
    <2>2. ImportType' /\ SavedInv' /\ ItemInv'
        BY <2>1 DEF ImportInv, ImportType, SavedInv, ItemInv, Entering
    <2>3. \A x : Import!Exists(x)' <=> Import!Exists(x)
        BY <2>1 DEF Import!Exists
    <2> QED BY <2>1, <2>2, <2>3 DEF ImportInv, CountInv
<1>2. CASE Import!ImportDies
    <2>1. step' = "dead" /\ deaths' = deaths + 1 /\ UNCHANGED <<rows, messages, ledger, at, report, saves>>
        BY <1>2 DEF Import!ImportDies
    <2>2. ImportType'
        BY <2>1 DEF ImportInv, ImportType
    <2>3. SavedInv'
        <3>1. \A k \in Import!Position : saves[k] \in Nat /\ deaths \in Nat
            BY DEF ImportInv, ImportType
        <3> QED BY <2>1, <3>1 DEF ImportInv, SavedInv, Entering
    <2> QED BY <2>1, <2>2, <2>3 DEF ImportInv, ItemInv, CountInv
<1>3. CASE Import!RunAgain
    <2>1. step \in {"dead", "done", "aborted"} /\ at' = 1 /\ step' = "check" /\ report' = Import!NoReport
          /\ UNCHANGED <<rows, messages, ledger, saves, deaths>>
        BY <1>3 DEF Import!RunAgain
    <2>2. /\ report'.scanned = 0 /\ report'.inserted = 0 /\ report'.skipped = 0 /\ report'.failed = {}
          /\ report' \in Report
        BY <2>1 DEF Import!NoReport, Report
    <2>3. ImportType'
        BY <1>0, <2>1, <2>2 DEF ImportInv, ImportType
    <2>4. SavedInv' /\ ItemInv'
        BY <2>1 DEF ImportInv, SavedInv, ItemInv, Entering
    <2>5. Cardinality(report'.failed) = 0 /\ IsFiniteSet(report'.failed)
        BY <2>2, FS_EmptySet
    <2> QED BY <2>1, <2>2, <2>3, <2>4, <2>5 DEF ImportInv, CountInv
<1> QED BY <1>1, <1>2, <1>3, ScanStep, SaveStep, EnterStep, LiveStep DEF Import!ImportNext

(* However often the import dies and is run again and whatever the         *)
(* application does to the rows meanwhile, what the ledger holds is in the *)
(* database, nothing is saved more often than once and once more for each  *)
(* death, and an import that ends has accounted for every item             *)
(* (LegacyImporter.run, _process).                                         *)
THEOREM ImportStaysSound ==
    ASSUME Import!ConstantsOK
    PROVE  Import!ImportInit /\ [][Import!ImportNext]_Import!importVars => []Import!ImportIsSound
<1>1. Import!ImportInit => ImportInv
    BY ImportStarts
<1>2. ImportInv /\ [Import!ImportNext]_Import!importVars => ImportInv'
    <2>1. ImportInv /\ UNCHANGED Import!importVars => ImportInv'
        <3> SUFFICES ASSUME ImportInv, UNCHANGED <<rows, messages, ledger, at, step, report, saves, deaths>> PROVE ImportInv'
            BY DEF Import!importVars
        <3> QED BY DEF ImportInv, ImportType, SavedInv, ItemInv, CountInv, Entering, Import!Exists
    <2> QED BY <2>1, ImportStep
<1>3. ImportInv => Import!ImportIsSound
    <2> SUFFICES ASSUME ImportInv PROVE Import!ImportIsSound
        OBVIOUS
    <2>1. \A k \in ledger : rows[Items[k].id] # Import!Absent /\ saves[k] > 0
        BY DEF ImportInv, ImportType, SavedInv
    <2>2. \A k \in Import!Position :
              /\ saves[k] <= (IF k \in ledger \/ (step = "enter" /\ at = k) THEN 1 ELSE 0) + deaths
              /\ Items[k].kind = "message" => messages[Items[k].id] = saves[k]
        BY DEF ImportInv, SavedInv, Entering
    <2>3. ASSUME step = "done"
          PROVE  /\ report.scanned = Len(Items)
                 /\ report.scanned = report.inserted + report.skipped + Import!Cardinality(report.failed)
        <3>1. Len(Items) \in Nat
            BY ItemFacts
        <3> QED BY <2>3, <3>1, SameCount DEF ImportInv, CountInv
    <2>4. ASSUME step = "done", NEW k \in report.failed
          PROVE  /\ k \notin ledger
                 /\ Import!Accepts(Items[k]) \/ Items[k].parent = Import!Absent => rows[Items[k].id] = "live" /\ deaths > 0
        <3>1. k \in Import!Position /\ k \notin ledger /\ Items[k].kind # "malformed" /\ Items[k].kind \in Import!Kind
            BY <2>4, ItemFacts DEF ImportInv, ImportType, Report, CountInv
        <3>2. CASE Items[k].kind \in Import!Needing
            <4>1. ~Import!Exists(Items[k].parent) /\ Items[k].parent # Import!Absent
                BY <2>4, <3>1, <3>2, ItemFacts DEF ImportInv, CountInv
            <4>2. ~Import!Accepts(Items[k])
                BY <3>2, <4>1 DEF Import!Accepts, Import!Needing
            <4> QED BY <3>1, <4>1, <4>2
        <3>3. CASE Items[k].kind \notin Import!Needing
            <4>1. rows[Items[k].id] = "live"
                BY <2>4, <3>1, <3>3 DEF ImportInv, CountInv
            <4>2. saves[k] > 0 /\ saves[k] <= 0 + deaths /\ saves[k] \in Nat /\ deaths \in Nat
                BY <2>4, <3>1, <4>1 DEF ImportInv, ImportType, SavedInv, Entering, Import!Absent
            <4> QED BY <3>1, <4>1, <4>2
        <3> QED BY <3>2, <3>3
    <2> QED BY <2>1, <2>2, <2>3, <2>4 DEF Import!ImportIsSound
<1> QED BY <1>1, <1>2, <1>3, PTL

-----------------------------------------------------------------------------
(* The copy of the memories beside the database (SQLiteStores).            *)
CONSTANTS Process, MaxStarts, Copier, Memory, MaxVersions, MaxCalls
VARIABLES tables, versions, userVersion, process, starts, primary, file, copier, degraded, disturbed, calls
Stores == INSTANCE SQLiteStores WITH Thread <- Copier, thread <- copier

Line == [id : Memory \cup {Stores!Torn}, version : Nat]
Copying ==
    [step : {"idle", "read", "write"}, op : {"none", "append", "replace"}, id : Memory \cup {"none"}, version : Nat,
     seen : Seq(Line)]

Has(lines, id) == \E k \in 1..Len(lines) : lines[k].id = id
HasCopy(lines, id, version) == \E k \in 1..Len(lines) : lines[k].id = id /\ lines[k].version = version
Once(lines) == \A j, k \in 1..Len(lines) : lines[j].id = lines[k].id => j = k
Known(store, lines) == \A k \in 1..Len(lines) : lines[k].id # Stores!Torn => lines[k].version \in 1..store[lines[k].id]

AuditType ==
    /\ primary \in [Memory -> Nat] /\ file \in Seq(Line) /\ copier \in [Copier -> Copying] /\ disturbed \in BOOLEAN
    /\ \A t \in Copier : IF copier[t].step = "idle" THEN copier[t].id = "none"
                         ELSE copier[t].id \in Memory /\ copier[t].op \in {"append", "replace"}

(* The copy, and what a thread has read of it, has nothing that was not in *)
(* the primary store.                                                      *)
KnownInv ==
    /\ Known(primary, file)
    /\ \A t \in Copier : /\ Known(primary, copier[t].seen)
                         /\ copier[t].step # "idle" => copier[t].version \in 1..primary[copier[t].id]

(* As long as nothing disturbs it: a thread has its record to itself, and  *)
(* what it has read of the copy is as good as the copy.                    *)
CopyInv ==
    /\ Once(file)
    /\ \A id \in Memory : \/ primary[id] = 0 \/ HasCopy(file, id, primary[id]) \/ id \in degraded
                          \/ \E t \in Copier : copier[t].id = id
    /\ \A t, u \in Copier : copier[t].id = copier[u].id /\ copier[t].id # "none" => t = u
    /\ \A t \in Copier : copier[t].step # "idle" =>
          LET id == copier[t].id
          IN  /\ copier[t].version = primary[id]
              /\ copier[t].op = "append" /\ Has(file, id) => HasCopy(file, id, primary[id]) \/ id \in degraded
              /\ copier[t].step = "write" => (Has(copier[t].seen, id) <=> Has(file, id))

AuditInv == AuditType /\ KnownInv /\ (disturbed \/ CopyInv)

LEMMA LineFacts ==
    ASSUME NEW lines \in Seq(Line), NEW id \in Memory, NEW version \in Nat
    PROVE  /\ Stores!Holds(lines, id) <=> Has(lines, id)
           /\ [id |-> id, version |-> version] \in Stores!Lines(lines) <=> HasCopy(lines, id, version)
<1>1. DOMAIN lines = 1..Len(lines) /\ \A k \in 1..Len(lines) : lines[k] \in Line
    OBVIOUS
<1>2. Stores!Holds(lines, id) <=> Has(lines, id)
    BY <1>1 DEF Stores!Holds, Stores!Lines, Has
<1>3. ASSUME NEW k \in 1..Len(lines)
      PROVE  lines[k] = [id |-> id, version |-> version] <=> lines[k].id = id /\ lines[k].version = version
    BY <1>1 DEF Line
<1>4. [id |-> id, version |-> version] \in Stores!Lines(lines) <=> HasCopy(lines, id, version)
    BY <1>1, <1>3 DEF Stores!Lines, HasCopy
<1> QED BY <1>2, <1>4

LEMMA Appended ==
    ASSUME NEW lines \in Seq(Line), NEW line \in Line, NEW store
    PROVE  LET longer == Append(lines, line)
           IN  /\ longer \in Seq(Line)
               /\ \A x : Has(longer, x) <=> Has(lines, x) \/ line.id = x
               /\ \A x, v : HasCopy(longer, x, v) <=> HasCopy(lines, x, v) \/ (line.id = x /\ line.version = v)
               /\ Known(store, lines) /\ (line.id # Stores!Torn => line.version \in 1..store[line.id]) => Known(store, longer)
               /\ Once(lines) /\ ~Has(lines, line.id) => Once(longer)
<1> DEFINE longer == Append(lines, line)
           n == Len(lines)
<1>1. /\ longer \in Seq(Line) /\ Len(longer) = n + 1 /\ n \in Nat /\ longer[n + 1] = line
      /\ \A k \in 1..n : longer[k] = lines[k]
    OBVIOUS
<1> HIDE DEF longer
<1>2. \A k \in 1..(n + 1) : k \in 1..n \/ k = n + 1
    BY <1>1
<1>3. \A k \in 1..n : k \in 1..(n + 1)
    BY <1>1
<1>4. n + 1 \in 1..(n + 1)
    BY <1>1
<1>5. \A x : Has(longer, x) <=> Has(lines, x) \/ line.id = x
    BY <1>1, <1>2, <1>3, <1>4 DEF Has
<1>6. \A x, v : HasCopy(longer, x, v) <=> HasCopy(lines, x, v) \/ (line.id = x /\ line.version = v)
    BY <1>1, <1>2, <1>3, <1>4 DEF HasCopy
<1>7. Known(store, lines) /\ (line.id # Stores!Torn => line.version \in 1..store[line.id]) => Known(store, longer)
    BY <1>1, <1>2 DEF Known
<1>8. Once(lines) /\ ~Has(lines, line.id) => Once(longer)
    BY <1>1, <1>2 DEF Once, Has
<1> QED BY <1>1, <1>5, <1>6, <1>7, <1>8 DEF longer

LEMMA Replaced ==
    ASSUME NEW lines \in Seq(Line), NEW line \in Line, NEW m, NEW store
    PROVE  LET changed == [lines EXCEPT ![m] = line]
           IN  /\ changed \in Seq(Line)
               /\ Known(store, lines) /\ (line.id # Stores!Torn => line.version \in 1..store[line.id]) => Known(store, changed)
               /\ m \in 1..Len(lines) /\ lines[m].id = line.id =>
                     /\ \A x : Has(changed, x) <=> Has(lines, x)
                     /\ \A x, v : x # line.id => (HasCopy(changed, x, v) <=> HasCopy(lines, x, v))
                     /\ HasCopy(changed, line.id, line.version)
                     /\ Once(lines) => Once(changed)
<1> DEFINE changed == [lines EXCEPT ![m] = line]
           n == Len(lines)
<1>1. /\ changed \in Seq(Line) /\ Len(changed) = n /\ n \in Nat
      /\ \A k \in 1..n : changed[k] = IF k = m THEN line ELSE lines[k]
    <2>1. n \in Nat /\ lines \in [1..n -> Line]
        OBVIOUS
    <2>2. changed \in [1..n -> Line] /\ \A k \in 1..n : changed[k] = IF k = m THEN line ELSE lines[k]
        BY <2>1
    <2> HIDE DEF changed
    <2>3. changed \in Seq(Line) /\ Len(changed) = n
        BY <2>1, <2>2, SeqDef
    <2> QED BY <2>1, <2>2, <2>3
<1> HIDE DEF changed
<1>2. Known(store, lines) /\ (line.id # Stores!Torn => line.version \in 1..store[line.id]) => Known(store, changed)
    BY <1>1 DEF Known
<1>3. ASSUME m \in 1..n, lines[m].id = line.id
      PROVE  /\ \A x : Has(changed, x) <=> Has(lines, x)
             /\ \A x, v : x # line.id => (HasCopy(changed, x, v) <=> HasCopy(lines, x, v))
             /\ HasCopy(changed, line.id, line.version)
             /\ Once(lines) => Once(changed)
    <2>1. \A k \in 1..n : changed[k].id = lines[k].id
        BY <1>1, <1>3
    <2>2. \A x : Has(changed, x) <=> Has(lines, x)
        BY <1>1, <2>1 DEF Has
    <2>3. \A x, v : x # line.id => (HasCopy(changed, x, v) <=> HasCopy(lines, x, v))
        BY <1>1, <1>3, <2>1 DEF HasCopy
    <2>4. HasCopy(changed, line.id, line.version)
        BY <1>1, <1>3 DEF HasCopy
    <2>5. Once(lines) => Once(changed)
        BY <1>1, <2>1 DEF Once
    <2> QED BY <2>2, <2>3, <2>4, <2>5
<1> QED BY <1>1, <1>2, <1>3 DEF changed

LEMMA KnownGrows ==
    ASSUME NEW store \in [Memory -> Nat], NEW later \in [Memory -> Nat], \A id \in Memory : store[id] <= later[id],
           NEW lines \in Seq(Line), Known(store, lines)
    PROVE  Known(later, lines)
<1> SUFFICES ASSUME NEW k \in 1..Len(lines), lines[k].id # Stores!Torn
             PROVE  lines[k].version \in 1..later[lines[k].id]
    BY DEF Known
<1>1. lines[k].id \in Memory
    <2>1. lines[k] \in Line
        OBVIOUS
    <2> QED BY <2>1 DEF Line
<1>2. lines[k].version \in 1..store[lines[k].id]
    BY DEF Known
<1> QED BY <1>1, <1>2

LEMMA CommitStep ==
    ASSUME Stores!ConstantsOK, AuditInv, NEW t \in Copier, NEW op \in {"append", "replace"}, NEW id \in Memory,
           Stores!Commit(t, op, id)
    PROVE  AuditInv'
<1> DEFINE v == IF op = "append" /\ primary[id] > 0 THEN primary[id] ELSE primary[id] + 1
           mine == [Stores!Idle EXCEPT !.step = "read", !.op = op, !.id = id, !.version = v]
<1>1. /\ copier[t].step = "idle" /\ primary' = [primary EXCEPT ![id] = v] /\ copier' = [copier EXCEPT ![t] = mine]
      /\ disturbed' = (disturbed \/ \E u \in Copier : copier[u].id = id) /\ UNCHANGED <<file, degraded>>
    BY DEF Stores!Commit
<1>2. /\ primary \in [Memory -> Nat] /\ file \in Seq(Line) /\ copier \in [Copier -> Copying] /\ disturbed \in BOOLEAN
      /\ id # "none" /\ id # Stores!Torn
    BY DEF AuditInv, AuditType, Stores!ConstantsOK, Stores!Idle
<1>3. v \in Nat /\ v > 0 /\ primary[id] <= v
    BY <1>2
<1>4. mine.step = "read" /\ mine.op = op /\ mine.id = id /\ mine.version = v /\ mine.seen = <<>> /\ mine \in Copying
    <2> HIDE DEF v
    <2>1. Stores!Idle \in Copying /\ Stores!Idle.seen = <<>>
        BY DEF Stores!Idle, Copying
    <2> QED BY <1>3, <2>1 DEF Copying
<1>5. op = "append" /\ primary[id] > 0 => v = primary[id]
    OBVIOUS
<1> HIDE DEF v, mine
<1>6. /\ primary' \in [Memory -> Nat] /\ primary'[id] = v /\ \A x \in Memory : primary[x] <= primary'[x]
      /\ \A x \in Memory \ {id} : primary'[x] = primary[x]
    BY <1>1, <1>2, <1>3
<1>7. copier' \in [Copier -> Copying] /\ copier'[t] = mine /\ \A u \in Copier \ {t} : copier'[u] = copier[u]
    BY <1>1, <1>2, <1>4
<1>8. disturbed' \in BOOLEAN
    BY <1>1
<1>9. AuditType'
    BY <1>1, <1>2, <1>4, <1>6, <1>7, <1>8 DEF AuditInv, AuditType
<1>10. KnownInv'
    <2>1. Known(primary, file)'
        BY <1>1, <1>2, <1>6, KnownGrows DEF AuditInv, KnownInv
    <2>2. ASSUME NEW u \in Copier
          PROVE  (/\ Known(primary, copier[u].seen)
                  /\ copier[u].step # "idle" => copier[u].version \in 1..primary[copier[u].id])'
        <3>1. CASE u = t
            <4>1. Known(primary', <<>>)
                BY DEF Known
            <4>2. v \in 1..v
                BY <1>3
            <4> QED BY <1>4, <1>6, <1>7, <3>1, <4>1, <4>2
        <3>2. CASE u # t
            <4>1. copier'[u] = copier[u] /\ Known(primary, copier[u].seen) /\ copier[u].seen \in Seq(Line)
                BY <1>2, <1>7, <3>2 DEF AuditInv, KnownInv, Copying
            <4>2. Known(primary', copier[u].seen)
                BY <1>2, <1>6, <4>1, KnownGrows
            <4>3. ASSUME copier[u].step # "idle"
                  PROVE  copier[u].version \in 1..primary'[copier[u].id]
                <5>1. copier[u].id \in Memory /\ copier[u].version \in 1..primary[copier[u].id]
                    BY <4>3 DEF AuditInv, AuditType, KnownInv
                <5> QED BY <1>2, <1>6, <5>1
            <4> QED BY <4>1, <4>2, <4>3
        <3> QED BY <3>1, <3>2
    <2> QED BY <2>1, <2>2 DEF KnownInv
<1>11. ASSUME ~disturbed'
       PROVE  CopyInv'
    <2>1. ~disturbed /\ \A u \in Copier : copier[u].id # id
        BY <1>1, <1>2, <1>11
    <2>2. CopyInv
        BY <2>1 DEF AuditInv
    <2>3. Once(file)'
        BY <1>1, <2>2 DEF CopyInv, Once
    <2>4. ASSUME NEW x \in Memory
          PROVE  (\/ primary[x] = 0 \/ HasCopy(file, x, primary[x]) \/ x \in degraded
                  \/ \E u \in Copier : copier[u].id = x)'
        <3>1. CASE x = id
            BY <1>4, <1>7, <3>1
        <3>2. CASE x # id
            <4>1. \A u \in Copier : copier[u].id = x => copier'[u].id = x
                <5>1. copier[t].id = "none"
                    BY <1>1 DEF AuditInv, AuditType
                <5>2. x # "none"
                    BY DEF Stores!ConstantsOK, Stores!Idle
                <5> QED BY <1>7, <5>1, <5>2
            <4> QED BY <1>1, <1>6, <2>2, <3>2, <4>1 DEF CopyInv, HasCopy
        <3> QED BY <3>1, <3>2
    <2>5. (\A u, w \in Copier : copier[u].id = copier[w].id /\ copier[u].id # "none" => u = w)'
        BY <1>4, <1>7, <2>1, <2>2 DEF CopyInv
    <2>6. ASSUME NEW u \in Copier, copier'[u].step # "idle"
          PROVE  (LET y == copier[u].id
                  IN  /\ copier[u].version = primary[y]
                      /\ copier[u].op = "append" /\ Has(file, y) => HasCopy(file, y, primary[y]) \/ y \in degraded
                      /\ copier[u].step = "write" => (Has(copier[u].seen, y) <=> Has(file, y)))'
        <3>1. CASE u = t
            <4>1. ASSUME op = "append", Has(file, id)
                  PROVE  HasCopy(file, id, v) \/ id \in degraded
                <5>1. PICK k \in 1..Len(file) : file[k].id = id
                    BY <4>1 DEF Has
                <5>2. file[k].version \in 1..primary[id]
                    BY <1>2, <5>1 DEF AuditInv, KnownInv, Known
                <5>3. primary[id] > 0 /\ primary[id] # 0
                    BY <1>2, <5>2
                <5> QED BY <1>5, <2>1, <2>2, <4>1, <5>3 DEF CopyInv
            <4> QED BY <1>1, <1>4, <1>6, <1>7, <3>1, <4>1 DEF Has, HasCopy
        <3>2. CASE u # t
            <4>1. copier'[u] = copier[u] /\ copier[u].id \in Memory \ {id}
                BY <1>7, <2>1, <2>6, <3>2 DEF AuditInv, AuditType
            <4> QED BY <1>1, <1>6, <2>2, <2>6, <4>1 DEF CopyInv, Has, HasCopy
        <3> QED BY <3>1, <3>2
    <2> QED BY <2>3, <2>4, <2>5, <2>6 DEF CopyInv
<1> QED BY <1>8, <1>9, <1>10, <1>11 DEF AuditInv

LEMMA IdleFacts ==
    /\ Stores!Idle \in Copying /\ Stores!Idle.step = "idle" /\ Stores!Idle.id = "none"
    /\ \A store : Known(store, Stores!Idle.seen)
<1>1. Stores!Idle \in Copying /\ Stores!Idle.step = "idle" /\ Stores!Idle.id = "none" /\ Stores!Idle.seen = <<>>
    BY DEF Stores!Idle, Copying
<1> QED BY <1>1 DEF Known

LEMMA ReadStep ==
    ASSUME Stores!ConstantsOK, AuditInv, NEW t \in Copier, Stores!ReadFile(t)
    PROVE  AuditInv'
<1>1. copier[t].step = "read" /\ UNCHANGED <<primary, file, disturbed, calls>>
    BY DEF Stores!ReadFile
<1>2. /\ primary \in [Memory -> Nat] /\ file \in Seq(Line) /\ copier \in [Copier -> Copying]
      /\ copier[t].id \in Memory /\ copier[t].op \in {"append", "replace"} /\ copier[t].id # "none"
    BY <1>1 DEF AuditInv, AuditType, Stores!ConstantsOK, Stores!Idle
<1>3. CASE copier' = [copier EXCEPT ![t].step = "write", ![t].seen = file] /\ degraded' = degraded
    <2>1. /\ copier' \in [Copier -> Copying] /\ \A u \in Copier \ {t} : copier'[u] = copier[u]
          /\ copier'[t].step = "write" /\ copier'[t].seen = file /\ copier'[t].op = copier[t].op
          /\ copier'[t].id = copier[t].id /\ copier'[t].version = copier[t].version
        BY <1>2, <1>3 DEF Copying
    <2>2. \A u \in Copier : copier'[u].id = copier[u].id
        BY <2>1
    <2>3. AuditType'
        BY <1>1, <1>2, <2>1 DEF AuditInv, AuditType
    <2>4. KnownInv'
        BY <1>1, <2>1 DEF AuditInv, KnownInv
    <2>5. ASSUME CopyInv
          PROVE  CopyInv'
        <3>1. Once(file)' /\ (\A u, w \in Copier : copier[u].id = copier[w].id /\ copier[u].id # "none" => u = w)'
            BY <1>1, <2>2, <2>5 DEF CopyInv, Once
        <3>2. (\A id \in Memory : \/ primary[id] = 0 \/ HasCopy(file, id, primary[id]) \/ id \in degraded
                                  \/ \E u \in Copier : copier[u].id = id)'
            <4>1. \A id \in Memory : \/ primary[id] = 0 \/ HasCopy(file, id, primary[id]) \/ id \in degraded
                                     \/ \E u \in Copier : copier[u].id = id
                BY <2>5 DEF CopyInv
            <4>2. \A id \in Memory : (\E u \in Copier : copier[u].id = id) => \E u \in Copier : copier'[u].id = id
                BY <2>2
            <4>3. \A id, v : HasCopy(file, id, v) => HasCopy(file', id, v)
                BY <1>1
            <4> QED BY <1>1, <1>3, <4>1, <4>2, <4>3
        <3>3. ASSUME NEW u \in Copier, copier'[u].step # "idle"
              PROVE  (LET y == copier[u].id
                      IN  /\ copier[u].version = primary[y]
                          /\ copier[u].op = "append" /\ Has(file, y) => HasCopy(file, y, primary[y]) \/ y \in degraded
                          /\ copier[u].step = "write" => (Has(copier[u].seen, y) <=> Has(file, y)))'
            <4>1. CASE u = t
                BY <1>1, <1>3, <2>1, <2>5, <4>1 DEF CopyInv, Has, HasCopy
            <4>2. CASE u # t
                BY <1>1, <1>3, <2>1, <2>5, <3>3, <4>2 DEF CopyInv, Has, HasCopy
            <4> QED BY <4>1, <4>2
        <3> QED BY <3>1, <3>2, <3>3 DEF CopyInv
    <2> QED BY <1>1, <2>3, <2>4, <2>5 DEF AuditInv
<1>4. CASE degraded' = degraded \cup {copier[t].id} /\ copier' = [copier EXCEPT ![t] = Stores!Idle]
    <2>1. copier' \in [Copier -> Copying] /\ copier'[t] = Stores!Idle /\ \A u \in Copier \ {t} : copier'[u] = copier[u]
        BY <1>2, <1>4, IdleFacts
    <2>2. AuditType'
        BY <1>1, <1>2, <2>1, IdleFacts DEF AuditInv, AuditType
    <2>3. KnownInv'
        BY <1>1, <2>1, IdleFacts DEF AuditInv, KnownInv
    <2>4. ASSUME CopyInv
          PROVE  CopyInv'
        <3>1. Once(file)' /\ (\A u, w \in Copier : copier[u].id = copier[w].id /\ copier[u].id # "none" => u = w)'
            BY <1>1, <2>1, <2>4, IdleFacts DEF CopyInv, Once
        <3>2. (\A id \in Memory : \/ primary[id] = 0 \/ HasCopy(file, id, primary[id]) \/ id \in degraded
                                  \/ \E u \in Copier : copier[u].id = id)'
            BY <1>1, <1>4, <2>1, <2>4 DEF CopyInv, HasCopy
        <3>3. ASSUME NEW u \in Copier, copier'[u].step # "idle"
              PROVE  (LET y == copier[u].id
                      IN  /\ copier[u].version = primary[y]
                          /\ copier[u].op = "append" /\ Has(file, y) => HasCopy(file, y, primary[y]) \/ y \in degraded
                          /\ copier[u].step = "write" => (Has(copier[u].seen, y) <=> Has(file, y)))'
            BY <1>1, <1>4, <2>1, <2>4, <3>3, IdleFacts DEF CopyInv, Has, HasCopy
        <3> QED BY <3>1, <3>2, <3>3 DEF CopyInv
    <2> QED BY <1>1, <2>2, <2>3, <2>4 DEF AuditInv
<1> QED BY <1>3, <1>4 DEF Stores!ReadFile

(* What a thread writes is known, and unless it is disturbed it changes    *)
(* its own record only.                                                    *)
LEMMA WrittenFacts ==
    ASSUME Stores!ConstantsOK, AuditInv, NEW t \in Copier, copier[t].step = "write"
    PROVE  LET id == copier[t].id w == Stores!Written(t)
           IN  /\ w \in Seq(Line) /\ Known(primary, w)
               /\ ~disturbed /\ (copier[t].op = "replace" => file = copier[t].seen) =>
                     /\ Once(w) /\ (HasCopy(w, id, primary[id]) \/ id \in degraded)
                     /\ \A x : x # id => (Has(w, x) <=> Has(file, x))
                     /\ \A x, v : x # id => (HasCopy(w, x, v) <=> HasCopy(file, x, v))
<1> DEFINE id == copier[t].id
           seen == copier[t].seen
           c == Stores!Copy(t)
           places == {k \in DOMAIN seen : seen[k].id = id}
           m == CHOOSE k \in places : \A j \in places : k <= j
<1>1. /\ primary \in [Memory -> Nat] /\ file \in Seq(Line) /\ copier \in [Copier -> Copying]
      /\ id \in Memory /\ copier[t].op \in {"append", "replace"} /\ seen \in Seq(Line) /\ copier[t].version \in Nat
    BY DEF AuditInv, AuditType, Copying
<1>2. c \in Line /\ c.id = id /\ c.version = copier[t].version /\ c.version \in 1..primary[id]
    BY <1>1 DEF Stores!Copy, Line, AuditInv, KnownInv
<1>3. Known(primary, file) /\ Known(primary, seen)
    BY DEF AuditInv, KnownInv
<1>4. ASSUME ~disturbed
      PROVE  /\ Once(file) /\ c.version = primary[id] /\ (Has(seen, id) <=> Has(file, id))
             /\ copier[t].op = "append" /\ Has(file, id) => HasCopy(file, id, primary[id]) \/ id \in degraded
    BY <1>2, <1>4 DEF AuditInv, CopyInv
<1>5. Stores!Holds(seen, id) <=> Has(seen, id)
    BY <1>1, LineFacts
<1>6. /\ copier[t].op = "append" => Stores!Written(t) = IF Has(seen, id) THEN file ELSE Append(file, c)
      /\ copier[t].op = "replace" => Stores!Written(t) = IF places # {} THEN [seen EXCEPT ![m] = c] ELSE Append(seen, c)
    BY <1>5 DEF Stores!Written, Stores!AppendedFile, Stores!ReplacedFile
<1>7. DOMAIN seen = 1..Len(seen) /\ Len(seen) \in Nat
    BY <1>1
<1>8. places # {} <=> Has(seen, id)
    BY <1>7 DEF Has
<1>9. ASSUME Once(seen), places # {}
      PROVE  m \in 1..Len(seen) /\ seen[m].id = id
    <2>1. PICK k \in places : TRUE
        BY <1>9
    <2>2. \A j \in places : k <= j
        BY <1>7, <1>9, <2>1 DEF Once
    <2>3. m \in places
        BY <2>1, <2>2
    <2> QED BY <1>7, <2>3
<1> HIDE DEF id, seen, c, places, m
<1>10. CASE copier[t].op = "append" /\ Has(seen, id)
    <2>1. Stores!Written(t) = file
        BY <1>6, <1>10
    <2> QED BY <1>1, <1>3, <1>4, <1>10, <2>1 DEF id, seen
<1>11. CASE copier[t].op = "append" /\ ~Has(seen, id)
    <2>1. Stores!Written(t) = Append(file, c)
        BY <1>6, <1>11
    <2>2. Append(file, c) \in Seq(Line) /\ Known(primary, Append(file, c))
        BY <1>1, <1>2, <1>3, Appended
    <2>3. ASSUME ~disturbed
          PROVE  /\ Once(Append(file, c)) /\ HasCopy(Append(file, c), id, primary[id])
                 /\ \A x : x # id => (Has(Append(file, c), x) <=> Has(file, x))
                 /\ \A x, v : x # id => (HasCopy(Append(file, c), x, v) <=> HasCopy(file, x, v))
        BY <1>1, <1>2, <1>4, <1>11, <2>3, Appended
    <2> QED BY <2>1, <2>2, <2>3 DEF id
<1>12. CASE copier[t].op = "replace" /\ places # {}
    <2> DEFINE w == [seen EXCEPT ![m] = c]
    <2>1. Stores!Written(t) = w
        BY <1>6, <1>12
    <2>2. w \in Seq(Line) /\ Known(primary, w)
        BY <1>1, <1>2, <1>3, Replaced
    <2>3. ASSUME ~disturbed, file = seen
          PROVE  /\ Once(w) /\ HasCopy(w, id, primary[id])
                 /\ \A x : x # id => (Has(w, x) <=> Has(file, x))
                 /\ \A x, v : x # id => (HasCopy(w, x, v) <=> HasCopy(file, x, v))
        <3>1. m \in 1..Len(seen) /\ seen[m].id = c.id /\ Once(seen)
            BY <1>2, <1>4, <1>9, <1>12, <2>3
        <3> QED BY <1>1, <1>2, <1>4, <2>3, <3>1, Replaced
    <2> HIDE DEF w
    <2> QED BY <1>12, <2>1, <2>2, <2>3 DEF id, seen
<1>13. CASE copier[t].op = "replace" /\ places = {}
    <2>1. Stores!Written(t) = Append(seen, c) /\ ~Has(seen, id)
        BY <1>6, <1>8, <1>13
    <2>2. Append(seen, c) \in Seq(Line) /\ Known(primary, Append(seen, c))
        BY <1>1, <1>2, <1>3, Appended
    <2>3. ASSUME ~disturbed, file = seen
          PROVE  /\ Once(Append(seen, c)) /\ HasCopy(Append(seen, c), id, primary[id])
                 /\ \A x : x # id => (Has(Append(seen, c), x) <=> Has(file, x))
                 /\ \A x, v : x # id => (HasCopy(Append(seen, c), x, v) <=> HasCopy(file, x, v))
        BY <1>1, <1>2, <1>4, <2>1, <2>3, Appended
    <2> QED BY <1>13, <2>1, <2>2, <2>3 DEF id, seen
<1> QED BY <1>1, <1>10, <1>11, <1>12, <1>13

LEMMA WriteStep ==
    ASSUME Stores!ConstantsOK, AuditInv, NEW t \in Copier, Stores!WriteFile(t)
    PROVE  AuditInv'
<1> DEFINE id == copier[t].id
           w == Stores!Written(t)
<1>1. /\ copier[t].step = "write" /\ file' = w /\ copier' = [copier EXCEPT ![t] = Stores!Idle]
      /\ disturbed' = (disturbed \/ (copier[t].op = "replace" /\ file # copier[t].seen))
      /\ UNCHANGED <<primary, degraded, calls>>
    BY DEF Stores!WriteFile
<1>2. /\ w \in Seq(Line) /\ Known(primary, w)
      /\ ~disturbed' => /\ ~disturbed /\ Once(w) /\ (HasCopy(w, id, primary[id]) \/ id \in degraded)
                        /\ \A x : x # id => (Has(w, x) <=> Has(file, x))
                        /\ \A x, v : x # id => (HasCopy(w, x, v) <=> HasCopy(file, x, v))
    BY <1>1, WrittenFacts
<1>3. primary \in [Memory -> Nat] /\ copier \in [Copier -> Copying] /\ id \in Memory /\ id # "none"
    BY <1>1 DEF AuditInv, AuditType, Stores!ConstantsOK, Stores!Idle
<1>4. copier' \in [Copier -> Copying] /\ copier'[t] = Stores!Idle /\ \A u \in Copier \ {t} : copier'[u] = copier[u]
    BY <1>1, <1>3, IdleFacts
<1>5. disturbed' \in BOOLEAN
    BY <1>1
<1> HIDE DEF w
<1>6. AuditType'
    BY <1>1, <1>2, <1>4, <1>5, IdleFacts DEF AuditInv, AuditType
<1>7. KnownInv'
    BY <1>1, <1>2, <1>4, IdleFacts DEF AuditInv, KnownInv
<1>8. ASSUME ~disturbed'
      PROVE  CopyInv'
    <2>1. /\ CopyInv /\ Once(w) /\ (HasCopy(w, id, primary[id]) \/ id \in degraded)
          /\ \A x : x # id => (Has(w, x) <=> Has(file, x))
          /\ \A x, v : x # id => (HasCopy(w, x, v) <=> HasCopy(file, x, v))
        BY <1>2, <1>8 DEF AuditInv
    <2>2. Once(file)' /\ (\A u, z \in Copier : copier[u].id = copier[z].id /\ copier[u].id # "none" => u = z)'
        <3>1. Once(file)'
            BY <1>1, <2>1 DEF Once
        <3>2. (\A u, z \in Copier : copier[u].id = copier[z].id /\ copier[u].id # "none" => u = z)'
            BY <1>4, <2>1, IdleFacts DEF CopyInv
        <3> QED BY <3>1, <3>2
    <2>3. ASSUME NEW x \in Memory
          PROVE  (\/ primary[x] = 0 \/ HasCopy(file, x, primary[x]) \/ x \in degraded
                  \/ \E u \in Copier : copier[u].id = x)'
        <3>1. CASE x = id
            BY <1>1, <2>1, <3>1
        <3>2. CASE x # id
            <4>1. primary[x] = 0 \/ HasCopy(file, x, primary[x]) \/ x \in degraded \/ \E u \in Copier : copier[u].id = x
                BY <2>1 DEF CopyInv
            <4>2. (\E u \in Copier : copier[u].id = x) => \E u \in Copier : copier'[u].id = x
                BY <1>4, <3>2
            <4>3. HasCopy(file, x, primary[x]) => HasCopy(file', x, primary[x])
                BY <1>1, <2>1, <3>2
            <4> QED BY <1>1, <4>1, <4>2, <4>3
        <3> QED BY <3>1, <3>2
    <2>4. ASSUME NEW u \in Copier, copier'[u].step # "idle"
          PROVE  (LET y == copier[u].id
                  IN  /\ copier[u].version = primary[y]
                      /\ copier[u].op = "append" /\ Has(file, y) => HasCopy(file, y, primary[y]) \/ y \in degraded
                      /\ copier[u].step = "write" => (Has(copier[u].seen, y) <=> Has(file, y)))'
        <3> DEFINE y == copier[u].id
        <3>1. u # t /\ copier'[u] = copier[u]
            BY <1>4, <2>4, IdleFacts
        <3>2. y # id
            BY <1>3, <2>1, <3>1 DEF CopyInv
        <3>3. /\ copier[u].version = primary[y]
              /\ copier[u].op = "append" /\ Has(file, y) => HasCopy(file, y, primary[y]) \/ y \in degraded
              /\ copier[u].step = "write" => (Has(copier[u].seen, y) <=> Has(file, y))
            BY <2>1, <2>4, <3>1 DEF CopyInv
        <3>4. (Has(file', y) <=> Has(file, y)) /\ (HasCopy(file', y, primary[y]) <=> HasCopy(file, y, primary[y]))
            BY <1>1, <2>1, <3>2
        <3> HIDE DEF id
        <3>5. /\ copier[u].version = primary[y]
              /\ copier[u].op = "append" /\ Has(file', y) => HasCopy(file', y, primary[y]) \/ y \in degraded
              /\ copier[u].step = "write" => (Has(copier[u].seen, y) <=> Has(file', y))
            BY <3>3, <3>4
        <3> QED BY <1>1, <3>1, <3>5
    <2> QED BY <2>2, <2>3, <2>4 DEF CopyInv
<1> QED BY <1>5, <1>6, <1>7, <1>8 DEF AuditInv

LEMMA AuditDies ==
    ASSUME Stores!ConstantsOK, AuditInv, Stores!ProcessDies
    PROVE  AuditInv'
<1>1. copier' = [t \in Copier |-> Stores!Idle] /\ disturbed' = TRUE /\ UNCHANGED <<primary, degraded, calls>>
    BY DEF Stores!ProcessDies
<1>2. disturbed'
    BY <1>1
<1>3. copier' \in [Copier -> Copying] /\ \A t \in Copier : copier'[t] = Stores!Idle
    BY <1>1, IdleFacts
<1>4. file \in Seq(Line) /\ Known(primary, file) /\ primary \in [Memory -> Nat]
    BY DEF AuditInv, AuditType, KnownInv
<1>5. file' \in Seq(Line) /\ Known(primary, file')
    <2>1. CASE file' = file
        BY <1>4, <2>1
    <2>2. ASSUME NEW t \in Copier, copier[t].step = "write",
                 NEW k \in 0..(Len(Stores!Written(t)) - 1),
                 file' = Append(SubSeq(Stores!Written(t), 1, k), [id |-> Stores!Torn, version |-> 0])
          PROVE  file' \in Seq(Line) /\ Known(primary, file')
        <3> DEFINE w == Stores!Written(t)
                   part == SubSeq(w, 1, k)
                   torn == [id |-> Stores!Torn, version |-> 0]
        <3>1. w \in Seq(Line) /\ Known(primary, w)
            BY <2>2, WrittenFacts
        <3>2. torn \in Line /\ torn.id = Stores!Torn
            BY DEF Line
        <3> HIDE DEF w
        <3>3. k \in Nat /\ k <= Len(w) /\ Len(w) \in Nat
            BY <3>1 DEF w
        <3>4. \A i \in 1..k : w[i] \in Line /\ i \in 1..Len(w)
            BY <3>1, <3>3
        <3>5. part \in Seq(Line) /\ Len(part) = k /\ \A i \in 1..k : part[i] = w[i]
            BY <3>1, <3>3, <3>4
        <3> HIDE DEF part
        <3>6. Known(primary, part)
            BY <3>1, <3>4, <3>5 DEF Known
        <3> HIDE DEF torn
        <3>7. Append(part, torn) \in Seq(Line) /\ Known(primary, Append(part, torn))
            BY <3>2, <3>5, <3>6, Appended
        <3> QED BY <2>2, <3>7 DEF part, torn, w
    <2> QED BY <2>1, <2>2 DEF Stores!ProcessDies
<1>6. AuditType'
    BY <1>1, <1>2, <1>3, <1>4, <1>5, IdleFacts DEF AuditType
<1>7. KnownInv'
    BY <1>1, <1>3, <1>5, IdleFacts DEF KnownInv
<1> QED BY <1>2, <1>6, <1>7 DEF AuditInv

(* Whatever the threads append and replace, wherever a copy fails and the  *)
(* process dies: the copy holds nothing the primary store did not, and     *)
(* unless it was disturbed a record whose copy is missing or old was       *)
(* reported or is being copied, and none is there twice (AuditedMemory-    *)
(* Store.append, FileMemoryStore.append, replace).                         *)
THEOREM AuditStaysObservable ==
    ASSUME Stores!ConstantsOK
    PROVE  Stores!AuditInit /\ [][Stores!AuditNext]_<<primary, file, copier, degraded, disturbed, calls>>
               => []Stores!AuditIsObservable
<1>1. Stores!AuditInit => AuditInv
    <2> SUFFICES ASSUME Stores!AuditInit PROVE AuditInv
        OBVIOUS
    <2>1. /\ primary = [id \in Memory |-> 0] /\ file = <<>> /\ copier = [t \in Copier |-> Stores!Idle]
          /\ disturbed = FALSE
        BY DEF Stores!AuditInit
    <2>0. /\ copier \in [Copier -> Copying] /\ \A t \in Copier : copier[t] = Stores!Idle
          /\ primary \in [Memory -> Nat] /\ file \in Seq(Line) /\ Known(primary, file)
        BY <2>1, IdleFacts DEF Known
    <2>2. AuditType
        BY <2>0, <2>1, IdleFacts DEF AuditType
    <2>3. KnownInv
        BY <2>0, IdleFacts DEF KnownInv
    <2>4. CopyInv
        BY <2>1, IdleFacts DEF CopyInv, Once
    <2> QED BY <2>2, <2>3, <2>4 DEF AuditInv
<1>2. AuditInv /\ [Stores!AuditNext]_<<primary, file, copier, degraded, disturbed, calls>> => AuditInv'
    <2>1. AuditInv /\ UNCHANGED <<primary, file, copier, degraded, disturbed, calls>> => AuditInv'
        BY DEF AuditInv, AuditType, KnownInv, CopyInv, Known, Once, Has, HasCopy
    <2> QED BY <2>1, CommitStep, ReadStep, WriteStep, AuditDies DEF Stores!AuditNext
<1>3. AuditInv => Stores!AuditIsObservable
    <2> SUFFICES ASSUME AuditInv PROVE Stores!AuditIsObservable
        OBVIOUS
    <2>1. file \in Seq(Line) /\ DOMAIN file = 1..Len(file) /\ disturbed \in BOOLEAN /\ primary \in [Memory -> Nat]
          /\ \A t \in Copier : copier[t].step = "idle" => copier[t].id = "none"
        BY DEF AuditInv, AuditType
    <2>2. \A line \in Stores!Lines(file) : line.id # Stores!Torn => line.version \in 1..primary[line.id]
        BY <2>1 DEF AuditInv, KnownInv, Known, Stores!Lines
    <2>3. ASSUME ~disturbed, NEW id \in Memory
          PROVE  \/ primary[id] = 0 \/ [id |-> id, version |-> primary[id]] \in Stores!Lines(file) \/ id \in degraded
                 \/ \E t \in Copier : copier[t].step # "idle" /\ copier[t].id = id
        <3>1. primary[id] = 0 \/ HasCopy(file, id, primary[id]) \/ id \in degraded \/ \E t \in Copier : copier[t].id = id
            BY <2>3 DEF AuditInv, CopyInv
        <3>2. [id |-> id, version |-> primary[id]] \in Stores!Lines(file) <=> HasCopy(file, id, primary[id])
            BY <2>1, LineFacts
        <3>3. id # "none"
            BY DEF Stores!ConstantsOK, Stores!Idle
        <3> QED BY <2>1, <3>1, <3>2, <3>3
    <2>4. ~disturbed => \A j, k \in DOMAIN file : file[j].id = file[k].id => j = k
        BY <2>1 DEF AuditInv, CopyInv, Once
    <2> QED BY <2>1, <2>2, <2>3, <2>4 DEF Stores!AuditIsObservable
<1> QED BY <1>1, <1>2, <1>3, PTL

-----------------------------------------------------------------------------
(* The tables of the database, created by processes that may die           *)
(* (SQLiteStores).  A table is created after those it refers to.           *)
Ordered(list) ==
    \A i \in 1..Len(list) : Stores!References(list[i]) \subseteq {list[j] : j \in 1..(i - 1)}
Later == Stores!Repositories \cup Stores!Snapshots \cup Stores!Deployments \cup Stores!Generations
Apart(list) == \A i \in 1..Len(list) : list[i] \notin Later

LEMMA ListsAreOrdered ==
    \A list \in {Stores!DiagnosisTables, Stores!MemoryTables, Stores!ReportTables} :
        list \in Seq(Stores!ToSet(list)) /\ Ordered(list) /\ Apart(list)
<1>1. /\ Stores!DiagnosisTables \in Seq(Stores!ToSet(Stores!DiagnosisTables))
      /\ Ordered(Stores!DiagnosisTables) /\ Apart(Stores!DiagnosisTables)
    <2> DEFINE list == Stores!DiagnosisTables
    <2>1. /\ list \in Seq({"schema_migrations", "incidents", "sessions", "messages", "turns", "tasks", "tool_calls",
                       "attempts", "events", "evidence", "evidence_refs", "states"})
          /\ Len(list) = 12
          /\ list[1] = "schema_migrations" /\ list[2] = "incidents" /\ list[3] = "sessions" /\ list[4] = "messages"
          /\ list[5] = "turns" /\ list[6] = "tasks" /\ list[7] = "tool_calls" /\ list[8] = "attempts"
          /\ list[9] = "events" /\ list[10] = "evidence" /\ list[11] = "evidence_refs" /\ list[12] = "states"
        BY DEF Stores!DiagnosisTables
    <2> HIDE DEF list
    <2>2. /\ \A table \in {"schema_migrations", "incidents", "events", "evidence", "states"} :
              Stores!References(table) = {}
          /\ Stores!References("sessions") = {"incidents"}
          /\ Stores!References("messages") = {"sessions"}
          /\ Stores!References("turns") = {"sessions"}
          /\ Stores!References("tasks") = {"turns"}
          /\ Stores!References("tool_calls") = {"tasks"}
          /\ Stores!References("attempts") = {"tool_calls"}
          /\ Stores!References("evidence_refs") = {"evidence"}
        BY DEF Stores!References
    <2>3. \A i \in 1..12 : i \in {1, 2, 3, 4, 5, 6, 7, 8, 9, 10, 11, 12}
        OBVIOUS
    <2>4. Apart(list)
        BY <2>1, <2>3 DEF Apart, Later, Stores!Repositories, Stores!Snapshots, Stores!Deployments, Stores!Generations
    <2>5. ASSUME NEW i \in 1..12
          PROVE  Stores!References(list[i]) \subseteq {list[j] : j \in 1..(i - 1)}
        <3>1. CASE i \in {1, 2, 9, 10, 12}
            BY <2>1, <2>2, <3>1
        <3>2. CASE i = 3
            <4>1. {2} \subseteq 1..(i - 1)
                BY <3>2
            <4> QED BY <2>1, <2>2, <3>2, <4>1
        <3>3. CASE i = 4
            <4>1. {3} \subseteq 1..(i - 1)
                BY <3>3
            <4> QED BY <2>1, <2>2, <3>3, <4>1
        <3>4. CASE i = 5
            <4>1. {3} \subseteq 1..(i - 1)
                BY <3>4
            <4> QED BY <2>1, <2>2, <3>4, <4>1
        <3>5. CASE i = 6
            <4>1. {5} \subseteq 1..(i - 1)
                BY <3>5
            <4> QED BY <2>1, <2>2, <3>5, <4>1
        <3>6. CASE i = 7
            <4>1. {6} \subseteq 1..(i - 1)
                BY <3>6
            <4> QED BY <2>1, <2>2, <3>6, <4>1
        <3>7. CASE i = 8
            <4>1. {7} \subseteq 1..(i - 1)
                BY <3>7
            <4> QED BY <2>1, <2>2, <3>7, <4>1
        <3>8. CASE i = 11
            <4>1. {10} \subseteq 1..(i - 1)
                BY <3>8
            <4> QED BY <2>1, <2>2, <3>8, <4>1
        <3> QED BY <2>3, <3>1, <3>2, <3>3, <3>4, <3>5, <3>6, <3>7, <3>8
    <2>6. list \in Seq(Stores!ToSet(list))
        <3>1. list \in [1..Len(list) -> Stores!ToSet(list)] /\ Len(list) \in Nat
            BY <2>1 DEF Stores!ToSet
        <3> QED BY <3>1, SeqDef
    <2> QED BY <2>1, <2>4, <2>5, <2>6 DEF Ordered, list
<1>2. Stores!MemoryTables \in Seq(Stores!ToSet(Stores!MemoryTables)) /\ Ordered(Stores!MemoryTables) /\ Apart(Stores!MemoryTables)
    <2> DEFINE list == Stores!MemoryTables
    <2>1. /\ list \in Seq({"memory_records", "memory_vectors", "memory_records_fts", "preference_nodes", "preference_edges",
                       "memory_conflicts", "memory_jobs"})
          /\ Len(list) = 7
          /\ list[1] = "memory_records" /\ list[2] = "memory_vectors" /\ list[3] = "memory_records_fts" /\ list[4] = "preference_nodes"
          /\ list[5] = "preference_edges" /\ list[6] = "memory_conflicts" /\ list[7] = "memory_jobs"
        BY DEF Stores!MemoryTables
    <2> HIDE DEF list
    <2>2. /\ \A table \in {"memory_records", "memory_records_fts", "preference_nodes", "memory_conflicts", "memory_jobs"} :
              Stores!References(table) = {}
          /\ Stores!References("memory_vectors") = {"memory_records"}
          /\ Stores!References("preference_edges") = {"preference_nodes"}
        BY DEF Stores!References
    <2>3. \A i \in 1..7 : i \in {1, 2, 3, 4, 5, 6, 7}
        OBVIOUS
    <2>4. Apart(list)
        BY <2>1, <2>3 DEF Apart, Later, Stores!Repositories, Stores!Snapshots, Stores!Deployments, Stores!Generations
    <2>5. ASSUME NEW i \in 1..7
          PROVE  Stores!References(list[i]) \subseteq {list[j] : j \in 1..(i - 1)}
        <3>1. CASE i \in {1, 3, 4, 6, 7}
            BY <2>1, <2>2, <3>1
        <3>2. CASE i = 2
            <4>1. {1} \subseteq 1..(i - 1)
                BY <3>2
            <4> QED BY <2>1, <2>2, <3>2, <4>1
        <3>3. CASE i = 5
            <4>1. {4} \subseteq 1..(i - 1)
                BY <3>3
            <4> QED BY <2>1, <2>2, <3>3, <4>1
        <3> QED BY <2>3, <3>1, <3>2, <3>3
    <2>6. list \in Seq(Stores!ToSet(list))
        <3>1. list \in [1..Len(list) -> Stores!ToSet(list)] /\ Len(list) \in Nat
            BY <2>1 DEF Stores!ToSet
        <3> QED BY <3>1, SeqDef
    <2> QED BY <2>1, <2>4, <2>5, <2>6 DEF Ordered, list
<1>3. Stores!ReportTables \in Seq(Stores!ToSet(Stores!ReportTables)) /\ Ordered(Stores!ReportTables) /\ Apart(Stores!ReportTables)
    <2> DEFINE list == Stores!ReportTables
    <2>1. /\ list \in Seq({"traces", "spans", "evaluation_runs", "evaluation_cases", "evaluation_results",
                       "import_ledger"})
          /\ Len(list) = 6
          /\ list[1] = "traces" /\ list[2] = "spans" /\ list[3] = "evaluation_runs" /\ list[4] = "evaluation_cases"
          /\ list[5] = "evaluation_results" /\ list[6] = "import_ledger"
        BY DEF Stores!ReportTables
    <2> HIDE DEF list
    <2>2. /\ \A table \in {"traces", "evaluation_runs", "import_ledger"} :
              Stores!References(table) = {}
          /\ Stores!References("spans") = {"traces"}
          /\ Stores!References("evaluation_cases") = {"evaluation_runs"}
          /\ Stores!References("evaluation_results") = {"evaluation_runs", "evaluation_cases"}
        BY DEF Stores!References
    <2>3. \A i \in 1..6 : i \in {1, 2, 3, 4, 5, 6}
        OBVIOUS
    <2>4. Apart(list)
        BY <2>1, <2>3 DEF Apart, Later, Stores!Repositories, Stores!Snapshots, Stores!Deployments, Stores!Generations
    <2>5. ASSUME NEW i \in 1..6
          PROVE  Stores!References(list[i]) \subseteq {list[j] : j \in 1..(i - 1)}
        <3>1. CASE i \in {1, 3, 6}
            BY <2>1, <2>2, <3>1
        <3>2. CASE i = 2
            <4>1. {1} \subseteq 1..(i - 1)
                BY <3>2
            <4> QED BY <2>1, <2>2, <3>2, <4>1
        <3>3. CASE i = 4
            <4>1. {3} \subseteq 1..(i - 1)
                BY <3>3
            <4> QED BY <2>1, <2>2, <3>3, <4>1
        <3>4. CASE i = 5
            <4>1. {3, 4} \subseteq 1..(i - 1)
                BY <3>4
            <4> QED BY <2>1, <2>2, <3>4, <4>1
        <3> QED BY <2>3, <3>1, <3>2, <3>3, <3>4
    <2>6. list \in Seq(Stores!ToSet(list))
        <3>1. list \in [1..Len(list) -> Stores!ToSet(list)] /\ Len(list) \in Nat
            BY <2>1 DEF Stores!ToSet
        <3> QED BY <3>1, SeqDef
    <2> QED BY <2>1, <2>4, <2>5, <2>6 DEF Ordered, list
<1> QED BY <1>1, <1>2, <1>3

LEMMA Concatenated ==
    ASSUME NEW S, NEW s \in Seq(S), NEW t \in Seq(S), Ordered(s), Ordered(t), Apart(s), Apart(t)
    PROVE  Ordered(s \o t) /\ Apart(s \o t)
<1> DEFINE n == Len(s)
           m == Len(t)
           r == s \o t
<1>1. /\ n \in Nat /\ m \in Nat /\ Len(r) = n + m
      /\ \A i \in 1..n : r[i] = s[i]
      /\ \A i \in 1..m : r[n + i] = t[i]
    OBVIOUS
<1> HIDE DEF r
<1>2. ASSUME NEW i \in 1..(n + m)
      PROVE  Stores!References(r[i]) \subseteq {r[j] : j \in 1..(i - 1)} /\ r[i] \notin Later
    <2>1. CASE i \in 1..n
        <3>1. r[i] = s[i] /\ \A j \in 1..(i - 1) : j \in 1..n /\ r[j] = s[j]
            BY <1>1, <2>1
        <3>2. Stores!References(s[i]) \subseteq {s[j] : j \in 1..(i - 1)} /\ s[i] \notin Later
            BY <2>1 DEF Ordered, Apart
        <3> QED BY <3>1, <3>2
    <2>2. CASE i \in (n + 1)..(n + m)
        <3> DEFINE k == i - n
        <3>1. k \in 1..m /\ r[i] = t[k] /\ \A j \in 1..(k - 1) : n + j \in 1..(i - 1) /\ r[n + j] = t[j]
            <4>1. k \in 1..m /\ i = n + k
                BY <1>1, <2>2
            <4>2. \A j \in 1..(k - 1) : j \in 1..m /\ n + j \in 1..(i - 1)
                BY <1>1, <4>1
            <4> QED BY <1>1, <4>1, <4>2
        <3>2. Stores!References(t[k]) \subseteq {t[j] : j \in 1..(k - 1)} /\ t[k] \notin Later
            BY <3>1 DEF Ordered, Apart
        <3> HIDE DEF k
        <3> QED BY <3>1, <3>2
    <2> QED BY <1>1, <2>1, <2>2
<1> QED BY <1>1, <1>2 DEF Ordered, Apart, r

LEMMA FirstSchema ==
    /\ Len(Stores!SCHEMA_V1) \in Nat \ {0} /\ DOMAIN Stores!SCHEMA_V1 = 1..Len(Stores!SCHEMA_V1)
    /\ Ordered(Stores!SCHEMA_V1) /\ Apart(Stores!SCHEMA_V1)
<1> DEFINE d == Stores!DiagnosisTables
           e == Stores!MemoryTables
           f == Stores!ReportTables
           S == Stores!ToSet(d) \cup Stores!ToSet(e) \cup Stores!ToSet(f)
<1>1. /\ d \in Seq(S) /\ Ordered(d) /\ Apart(d)
      /\ e \in Seq(S) /\ Ordered(e) /\ Apart(e)
      /\ f \in Seq(S) /\ Ordered(f) /\ Apart(f)
    <2>1. Stores!ToSet(d) \subseteq S /\ Stores!ToSet(e) \subseteq S /\ Stores!ToSet(f) \subseteq S
        OBVIOUS
    <2> HIDE DEF S
    <2> QED BY <2>1, ListsAreOrdered, SeqMonotonic
<1>2. Len(f) \in Nat /\ Len(f) > 0
    BY DEF Stores!ReportTables
<1> HIDE DEF d, e, f, S
<1>3. Stores!SCHEMA_V1 = (d \o e) \o f
    BY DEF Stores!SCHEMA_V1, d, e, f
<1>4. d \o e \in Seq(S) /\ Ordered(d \o e) /\ Apart(d \o e)
    BY <1>1, Concatenated
<1>5. Ordered((d \o e) \o f) /\ Apart((d \o e) \o f) /\ (d \o e) \o f \in Seq(S)
    <2> DEFINE g == d \o e
    <2>1. g \in Seq(S) /\ Ordered(g) /\ Apart(g)
        BY <1>4
    <2> HIDE DEF g
    <2>2. g \o f \in Seq(S)
        BY <1>1, <2>1
    <2>3. Ordered(g \o f) /\ Apart(g \o f)
        BY <1>1, <2>1, Concatenated
    <2> QED BY <2>2, <2>3 DEF g
<1>6. Len((d \o e) \o f) = Len(d \o e) + Len(f) /\ Len(d \o e) \in Nat
    BY <1>1, <1>4
<1>7. DOMAIN ((d \o e) \o f) = 1..Len((d \o e) \o f)
    BY <1>5
<1> QED BY <1>2, <1>3, <1>5, <1>6, <1>7

LEMMA MigrationFacts ==
    /\ Stores!MIGRATIONS(1) = {Stores!SCHEMA_V1[i] : i \in 1..Len(Stores!SCHEMA_V1)}
    /\ Stores!MIGRATIONS(5) = Stores!Generations
    /\ \A v, w \in 1..5 : v # w => Stores!MIGRATIONS(v) \cap Stores!MIGRATIONS(w) = {}
    /\ \A v \in 1..5 : \A table \in Stores!MIGRATIONS(v) : Stores!References(table) \subseteq Stores!UpTo(v)
<1>1. /\ Stores!MIGRATIONS(1) = {Stores!SCHEMA_V1[i] : i \in 1..Len(Stores!SCHEMA_V1)}
      /\ Stores!MIGRATIONS(2) = Stores!Repositories /\ Stores!MIGRATIONS(3) = Stores!Snapshots
      /\ Stores!MIGRATIONS(4) = Stores!Deployments /\ Stores!MIGRATIONS(5) = Stores!Generations
    BY FirstSchema DEF Stores!MIGRATIONS, Stores!ToSet
<1>2. \A v \in 1..5 : v \in {1, 2, 3, 4, 5}
    OBVIOUS
<1>3. \A v \in 2..5 : Stores!MIGRATIONS(1) \cap Stores!MIGRATIONS(v) = {}
    <2>1. \A v \in 2..5 : v \in {2, 3, 4, 5}
        OBVIOUS
    <2>2. \A v \in 2..5 : Stores!MIGRATIONS(v) \subseteq Later
        BY <1>1, <2>1 DEF Later
    <2> QED BY <1>1, <2>2, FirstSchema DEF Apart
<1>4. \A v, w \in {2, 3, 4, 5} : v # w => Stores!MIGRATIONS(v) \cap Stores!MIGRATIONS(w) = {}
    BY <1>1 DEF Stores!Repositories, Stores!Snapshots, Stores!Deployments, Stores!Generations
<1>5. \A v, w \in 1..5 : v # w => Stores!MIGRATIONS(v) \cap Stores!MIGRATIONS(w) = {}
    <2>1. \A v \in 1..5 : v = 1 \/ (v \in {2, 3, 4, 5} /\ v \in 2..5)
        OBVIOUS
    <2> QED BY <1>3, <1>4, <2>1
<1>6. \A v \in 1..5 : \A w \in 1..v : Stores!MIGRATIONS(w) \subseteq Stores!UpTo(v)
    BY DEF Stores!UpTo
<1>7. \A table \in Stores!MIGRATIONS(1) : Stores!References(table) \subseteq Stores!MIGRATIONS(1)
    <2> SUFFICES ASSUME NEW i \in 1..Len(Stores!SCHEMA_V1)
                 PROVE  Stores!References(Stores!SCHEMA_V1[i]) \subseteq Stores!MIGRATIONS(1)
        BY <1>1
    <2>1. Stores!References(Stores!SCHEMA_V1[i]) \subseteq {Stores!SCHEMA_V1[j] : j \in 1..(i - 1)}
        BY FirstSchema DEF Ordered
    <2>2. \A j \in 1..(i - 1) : j \in 1..Len(Stores!SCHEMA_V1)
        BY FirstSchema
    <2> QED BY <1>1, <2>1, <2>2
<1>8. \A table \in Stores!Repositories : Stores!References(table) \subseteq Stores!Repositories
    BY DEF Stores!Repositories, Stores!References
<1>9. \A table \in Stores!Snapshots : Stores!References(table) \subseteq Stores!Repositories \cup Stores!Snapshots
    BY DEF Stores!Repositories, Stores!Snapshots, Stores!References
<1>10. \A table \in Stores!Deployments : Stores!References(table) \subseteq Stores!Repositories \cup Stores!Snapshots
    BY DEF Stores!Repositories, Stores!Snapshots, Stores!Deployments, Stores!References
<1>11. \A table \in Stores!Generations : Stores!References(table) \subseteq Stores!Snapshots
    BY DEF Stores!Snapshots, Stores!Generations, Stores!References
<1>12. ASSUME NEW v \in 1..5, NEW table \in Stores!MIGRATIONS(v)
       PROVE  Stores!References(table) \subseteq Stores!UpTo(v)
    <2>1. CASE v = 1
        BY <1>6, <1>7, <2>1
    <2>2. CASE v = 2
        BY <1>1, <1>6, <1>8, <2>2
    <2>3. CASE v = 3
        BY <1>1, <1>6, <1>9, <2>3
    <2>4. CASE v = 4
        BY <1>1, <1>6, <1>10, <2>4
    <2>5. CASE v = 5
        BY <1>1, <1>6, <1>11, <2>5
    <2> QED BY <1>2, <2>1, <2>2, <2>3, <2>4, <2>5
<1> QED BY <1>1, <1>5, <1>12

-----------------------------------------------------------------------------
Opening ==
    [pc : {"off", "script", "read", "check", "migrate", "ready", "refused", "failed"},
     at : 1..(Len(Stores!SCHEMA_V1) + 1), current : 0..6]
Several == \E p, q \in Process : p # q

SchemaType ==
    /\ userVersion \in 0..6 /\ versions = 1..userVersion /\ process \in [Process -> Opening]
    /\ \A p \in Process : process[p].pc = "script" => process[p].at <= Len(Stores!SCHEMA_V1)

(* The version of the file says which tables it has, and what a table      *)
(* refers to is there before it.                                           *)
TablesInv ==
    /\ \A v \in 1..5 : v <= userVersion => Stores!MIGRATIONS(v) \subseteq tables
    /\ \A v \in 2..5 : v > userVersion => Stores!MIGRATIONS(v) \cap tables = {}
    /\ tables \subseteq Stores!UpTo(5)
    /\ \A table \in tables : Stores!References(table) \subseteq tables

(* What a process has made sure of when it comes to each step; only        *)
(* another one can have moved the version since it read it.                *)
OpeningOK(p, work) ==
    /\ work.current <= userVersion
    /\ work.pc = "script" => {Stores!SCHEMA_V1[j] : j \in 1..(work.at - 1)} \subseteq tables
    /\ work.pc \in {"read", "check", "migrate", "ready"} => Stores!MIGRATIONS(1) \subseteq tables
    /\ work.pc \in {"migrate", "ready"} => userVersion <= 5
    /\ work.pc = "ready" => userVersion = 5
    /\ work.pc = "refused" => userVersion > 5
    /\ work.pc = "failed" => work.current < userVersion /\ Several
    /\ work.pc \in {"check", "migrate"} => work.current = userVersion \/ Several

SchemaInv == SchemaType /\ TablesInv /\ \A p \in Process : OpeningOK(p, process[p])

(* A step of a process that leaves the file alone.                         *)
LEMMA OwnStep ==
    ASSUME SchemaInv, NEW p \in Process, NEW work \in Opening, UNCHANGED <<tables, versions, userVersion>>,
           process' = [process EXCEPT ![p] = work],
           work.pc = "script" => work.at <= Len(Stores!SCHEMA_V1),
           OpeningOK(p, work)
    PROVE  SchemaInv'
<1>1. process' \in [Process -> Opening] /\ process'[p] = work /\ \A q \in Process \ {p} : process'[q] = process[q]
    BY DEF SchemaInv, SchemaType
<1>2. SchemaType'
    BY <1>1 DEF SchemaInv, SchemaType
<1>3. TablesInv'
    BY DEF SchemaInv, TablesInv
<1>4. ASSUME NEW q \in Process
      PROVE  OpeningOK(q, process[q])'
    <2>1. OpeningOK(q, process'[q])
        BY <1>1 DEF SchemaInv, OpeningOK
    <2> QED BY <2>1 DEF OpeningOK
<1> QED BY <1>2, <1>3, <1>4 DEF SchemaInv

LEMMA NewestIsTheVersion ==
    ASSUME NEW n \in Nat, versions = 1..n
    PROVE  Stores!Newest = n
<1>1. n \in versions \cup {0} /\ \A y \in versions \cup {0} : n >= y /\ y \in Nat
    OBVIOUS
<1>2. \A x \in versions \cup {0} : (\A y \in versions \cup {0} : x >= y) => x = n
    BY <1>1
<1> QED BY <1>1, <1>2 DEF Stores!Newest, Stores!Max

LEMMA SchemaStarts ==
    ASSUME Stores!SchemaInit
    PROVE  SchemaInv
<1>1. PICK version \in 0..6 :
          /\ tables = Stores!UpTo(Stores!Min({version, 5}))
          /\ versions = 1..version /\ userVersion = version
    <2>1. 0..(Stores!SCHEMA_VERSION + 1) = 0..6 /\ Stores!SCHEMA_VERSION = 5
        BY DEF Stores!SCHEMA_VERSION
    <2> QED BY <2>1 DEF Stores!SchemaInit
<1>2. process = [p \in Process |-> [pc |-> "off", at |-> 1, current |-> 0]]
    BY DEF Stores!SchemaInit
<1> DEFINE last == IF version <= 5 THEN version ELSE 5
<1>3. Stores!Min({version, 5}) = last
    <2>1. last \in {version, 5} /\ \A y \in {version, 5} : last <= y /\ y \in Nat
        OBVIOUS
    <2>2. \A x \in {version, 5} : (\A y \in {version, 5} : x <= y) => x = last
        BY <2>1
    <2> QED BY <2>1, <2>2 DEF Stores!Min
<1>4. last \in 0..5 /\ \A v \in 1..5 : v <= version <=> v <= last
    OBVIOUS
<1>5. tables = Stores!UpTo(last)
    BY <1>1, <1>3
<1> HIDE DEF last
<1>6. \A table : table \in tables <=> \E v \in 1..last : table \in Stores!MIGRATIONS(v)
    BY <1>5 DEF Stores!UpTo
<1>7. SchemaType
    <2>1. [pc |-> "off", at |-> 1, current |-> 0] \in Opening
        BY FirstSchema DEF Opening
    <2> QED BY <1>1, <1>2, <2>1 DEF SchemaType
<1>8. TablesInv
    <2>1. \A v \in 1..5 : v <= userVersion => Stores!MIGRATIONS(v) \subseteq tables
        <3>1. \A v \in 1..5 : v <= userVersion => v \in 1..last
            BY <1>1, <1>4
        <3> QED BY <1>6, <3>1
    <2>2. \A v \in 2..5 : v > userVersion => Stores!MIGRATIONS(v) \cap tables = {}
        <3> SUFFICES ASSUME NEW v \in 2..5, v > userVersion, NEW table \in Stores!MIGRATIONS(v), table \in tables
                     PROVE  FALSE
            OBVIOUS
        <3>1. PICK w \in 1..last : table \in Stores!MIGRATIONS(w)
            BY <1>6
        <3>2. w # v /\ w \in 1..5 /\ v \in 1..5
            BY <1>1, <1>4, <3>1
        <3> QED BY <3>1, <3>2, MigrationFacts
    <2>3. tables \subseteq Stores!UpTo(5)
        <3>1. \A v \in 1..last : v \in 1..5
            BY <1>4
        <3> QED BY <1>6, <3>1 DEF Stores!UpTo
    <2>4. ASSUME NEW table \in tables
          PROVE  Stores!References(table) \subseteq tables
        <3>1. PICK v \in 1..last : table \in Stores!MIGRATIONS(v)
            BY <1>6
        <3>2. v \in 1..5 /\ \A w \in 1..v : w \in 1..last
            BY <1>4
        <3>3. Stores!References(table) \subseteq Stores!UpTo(v)
            BY <3>1, <3>2, MigrationFacts
        <3> QED BY <1>6, <3>2, <3>3 DEF Stores!UpTo
    <2> QED BY <2>1, <2>2, <2>3, <2>4 DEF TablesInv
<1>9. \A p \in Process : OpeningOK(p, process[p])
    BY <1>1, <1>2 DEF OpeningOK
<1> QED BY <1>7, <1>8, <1>9 DEF SchemaInv

LEMMA SeveralAreMore ==
    ASSUME Stores!ConstantsOK
    PROVE  Several => Stores!Cardinality(Process) > 1
<1> SUFFICES ASSUME NEW p \in Process, NEW q \in Process, p # q PROVE Stores!Cardinality(Process) > 1
    BY DEF Several
<1>1. Stores!Cardinality(Process) = Cardinality(Process)
    BY Zenon DEF Stores!Cardinality, Cardinality
<1>2. Stores!IsFiniteSet(Process) <=> IsFiniteSet(Process)
    BY Zenon DEF Stores!IsFiniteSet, IsFiniteSet
<1>3. IsFiniteSet(Process)
    BY <1>2 DEF Stores!ConstantsOK
<1>4. IsFiniteSet({p}) /\ Cardinality({p}) = 1
    BY FS_Singleton
<1>5. IsFiniteSet({p} \cup {q}) /\ Cardinality({p} \cup {q}) = 2
    BY <1>4, FS_AddElement
<1>6. Cardinality({p} \cup {q}) <= Cardinality(Process) /\ Cardinality(Process) \in Nat
    BY <1>3, FS_Subset, FS_CardinalityType
<1> QED BY <1>1, <1>5, <1>6

LEMMA ScriptStep ==
    ASSUME SchemaInv, NEW p \in Process, Stores!Script(p)
    PROVE  SchemaInv'
<1> DEFINE place == process[p].at
           n == Len(Stores!SCHEMA_V1)
           table == Stores!SCHEMA_V1[place]
           pc == IF place = n THEN "read" ELSE "script"
           work == [process[p] EXCEPT !.at = place + 1, !.pc = pc]
<1>1. /\ process[p].pc = "script" /\ tables' = tables \cup {table} /\ process' = [process EXCEPT ![p] = work]
      /\ UNCHANGED <<versions, userVersion>>
    BY DEF Stores!Script
<1>2. process[p] \in Opening /\ place \in 1..n /\ n \in Nat /\ process \in [Process -> Opening]
    BY <1>1, FirstSchema DEF SchemaInv, SchemaType, Opening
<1>3. /\ work \in Opening /\ work.at = place + 1 /\ work.current = process[p].current
      /\ work.pc = pc
    <2>1. place + 1 \in 1..(n + 1) /\ pc \in {"read", "script"}
        BY <1>2
    <2> HIDE DEF pc
    <2> QED BY <1>2, <2>1 DEF Opening
<1> HIDE DEF work
<1>4. process' \in [Process -> Opening] /\ process'[p] = work /\ \A q \in Process \ {p} : process'[q] = process[q]
    BY <1>1, <1>2, <1>3
<1>5. {Stores!SCHEMA_V1[j] : j \in 1..(place - 1)} \subseteq tables
    BY <1>1 DEF SchemaInv, OpeningOK
<1>6. {Stores!SCHEMA_V1[j] : j \in 1..place} \subseteq tables'
    <2>1. \A j \in 1..place : j \in 1..(place - 1) \/ j = place
        BY <1>2
    <2> QED BY <1>1, <1>5, <2>1
<1>7. SchemaType'
    BY <1>1, <1>2, <1>3, <1>4 DEF SchemaInv, SchemaType
<1>8. table \in Stores!MIGRATIONS(1)
    BY <1>2, MigrationFacts
<1>9. TablesInv'
    <2>1. \A v \in 1..5 : v <= userVersion => Stores!MIGRATIONS(v) \subseteq tables'
        BY <1>1 DEF SchemaInv, TablesInv
    <2>2. \A v \in 2..5 : v > userVersion => Stores!MIGRATIONS(v) \cap tables' = {}
        <3>1. \A v \in 2..5 : v \in 1..5 /\ 1 \in 1..5 /\ v # 1
            OBVIOUS
        <3>2. \A v \in 2..5 : table \notin Stores!MIGRATIONS(v)
            BY <1>8, <3>1, MigrationFacts
        <3> QED BY <1>1, <3>2 DEF SchemaInv, TablesInv
    <2>3. tables' \subseteq Stores!UpTo(5)
        <3>1. table \in Stores!UpTo(5)
            BY <1>8 DEF Stores!UpTo
        <3> QED BY <1>1, <3>1 DEF SchemaInv, TablesInv
    <2>4. \A x \in tables' : Stores!References(x) \subseteq tables'
        <3>1. Stores!References(table) \subseteq tables
            BY <1>2, <1>5, FirstSchema DEF Ordered
        <3> QED BY <1>1, <3>1 DEF SchemaInv, TablesInv
    <2> QED BY <1>1, <2>1, <2>2, <2>3, <2>4 DEF TablesInv
<1>10. ASSUME NEW q \in Process
       PROVE  OpeningOK(q, process[q])'
    <2>1. CASE q # p
        <3>1. OpeningOK(q, process[q]) /\ process'[q] = process[q] /\ tables \subseteq tables'
            BY <1>1, <1>4, <2>1 DEF SchemaInv
        <3>2. /\ process[q].pc = "script" => {Stores!SCHEMA_V1[j] : j \in 1..(process[q].at - 1)} \subseteq tables'
              /\ process[q].pc \in {"read", "check", "migrate", "ready"} => Stores!MIGRATIONS(1) \subseteq tables'
            BY <3>1 DEF OpeningOK
        <3> QED BY <1>1, <3>1, <3>2 DEF OpeningOK
    <2>2. CASE q = p
        <3>1. work.at - 1 = place
            BY <1>2, <1>3
        <3>2. work.pc = "script" => {Stores!SCHEMA_V1[j] : j \in 1..(work.at - 1)} \subseteq tables'
            BY <1>6, <3>1
        <3>3. work.pc = "read" => Stores!MIGRATIONS(1) \subseteq tables'
            <4>1. CASE place = n
                BY <1>6, <4>1, MigrationFacts
            <4>2. CASE place # n
                BY <1>3, <4>2
            <4> QED BY <4>1, <4>2
        <3>4. work.current <= userVersion /\ work.pc \in {"script", "read"}
            BY <1>3 DEF SchemaInv, OpeningOK
        <3> QED BY <1>1, <1>4, <2>2, <3>2, <3>3, <3>4 DEF OpeningOK
    <2> QED BY <2>1, <2>2
<1> QED BY <1>7, <1>9, <1>10 DEF SchemaInv

LEMMA MigrateStep ==
    ASSUME SchemaInv, NEW p \in Process, Stores!Migrate(p)
    PROVE  SchemaInv'
<1> DEFINE version == process[p].current + 1
<1>1. process[p].pc = "migrate" /\ version <= 5
    BY DEF Stores!Migrate, Stores!SCHEMA_VERSION
<1>2. /\ process \in [Process -> Opening] /\ process[p] \in Opening /\ process[p].current \in 0..6 /\ userVersion \in 0..6
      /\ version \in 1..5 /\ versions = 1..userVersion
    BY <1>1 DEF SchemaInv, SchemaType, Opening
<1>3. process[p].current <= userVersion /\ userVersion <= 5 /\ Stores!MIGRATIONS(1) \subseteq tables
      /\ (process[p].current = userVersion \/ Several)
    BY <1>1 DEF SchemaInv, OpeningOK
<1>4. CASE Stores!Applies(version)
    <2>1. /\ tables' = tables \cup Stores!MIGRATIONS(version)
          /\ versions' = versions \cup {version} /\ userVersion' = version
          /\ process' = [process EXCEPT ![p].current = version]
        BY <1>4 DEF Stores!Migrate
    <2>2. version = userVersion + 1 /\ userVersion \in 0..4
        BY <1>2, <1>3, <1>4 DEF Stores!Applies
    <2>3. versions' = 1..userVersion'
        BY <1>2, <2>1, <2>2
    <2>4. /\ process' \in [Process -> Opening] /\ process'[p].pc = "migrate" /\ process'[p].current = version
          /\ process'[p].at = process[p].at /\ \A q \in Process \ {p} : process'[q] = process[q]
        BY <1>1, <1>2, <2>1 DEF Opening
    <2> HIDE DEF version
    <2>5. SchemaType'
        BY <1>1, <1>2, <2>1, <2>3, <2>4 DEF SchemaInv, SchemaType
    <2>6. TablesInv'
        <3>1. ASSUME NEW v \in 1..5, v <= userVersion'
              PROVE  Stores!MIGRATIONS(v) \subseteq tables'
            <4>1. v <= userVersion \/ v = version
                BY <1>2, <2>1, <2>2, <3>1
            <4> QED BY <2>1, <4>1 DEF SchemaInv, TablesInv
        <3>2. ASSUME NEW v \in 2..5, v > userVersion'
              PROVE  Stores!MIGRATIONS(v) \cap tables' = {}
            <4>1. v > userVersion /\ v # version /\ v \in 1..5
                BY <1>2, <2>1, <2>2, <3>2
            <4>2. Stores!MIGRATIONS(v) \cap Stores!MIGRATIONS(version) = {}
                BY <1>2, <4>1, MigrationFacts
            <4> QED BY <2>1, <4>1, <4>2 DEF SchemaInv, TablesInv
        <3>3. tables' \subseteq Stores!UpTo(5)
            <4>1. Stores!MIGRATIONS(version) \subseteq Stores!UpTo(5)
                BY <1>2 DEF Stores!UpTo
            <4> QED BY <2>1, <4>1 DEF SchemaInv, TablesInv
        <3>4. ASSUME NEW table \in Stores!MIGRATIONS(version)
              PROVE  Stores!References(table) \subseteq tables'
            <4>1. Stores!References(table) \subseteq Stores!UpTo(version)
                BY <1>2, MigrationFacts
            <4>2. \A v \in 1..version : v \in 1..5 /\ v <= userVersion'
                BY <1>2, <2>1
            <4>3. \A v \in 1..version : Stores!MIGRATIONS(v) \subseteq tables'
                BY <3>1, <4>2
            <4> QED BY <4>1, <4>3 DEF Stores!UpTo
        <3>5. \A table \in tables' : Stores!References(table) \subseteq tables'
            BY <2>1, <3>4 DEF SchemaInv, TablesInv
        <3> QED BY <3>1, <3>2, <3>3, <3>5 DEF TablesInv
    <2>7. ASSUME NEW q \in Process
          PROVE  OpeningOK(q, process[q])'
        <3>0. userVersion' = userVersion + 1 /\ userVersion' <= 5 /\ tables \subseteq tables'
            BY <2>1, <2>2
        <3>1. CASE q = p
            BY <1>3, <2>1, <2>2, <2>4, <3>0, <3>1 DEF OpeningOK
        <3>2. CASE q # p
            <4>1. OpeningOK(q, process[q]) /\ process'[q] = process[q] /\ process[q].current \in 0..6
                BY <2>4, <3>2, <1>2 DEF SchemaInv, Opening
            <4>2. Several
                BY <3>2 DEF Several
            <4>3. process[q].pc \notin {"ready", "refused"}
                BY <2>2, <4>1 DEF OpeningOK
            <4>4. process[q].current < userVersion'
                BY <1>2, <3>0, <4>1 DEF OpeningOK
            <4>5. process[q].pc = "script" => {Stores!SCHEMA_V1[j] : j \in 1..(process[q].at - 1)} \subseteq tables'
                BY <3>0, <4>1 DEF OpeningOK
            <4>6. process[q].pc \in {"read", "check", "migrate"} => Stores!MIGRATIONS(1) \subseteq tables'
                BY <3>0, <4>1 DEF OpeningOK
            <4> QED BY <1>2, <2>2, <3>0, <4>1, <4>2, <4>3, <4>4, <4>5, <4>6 DEF OpeningOK
        <3> QED BY <3>1, <3>2
    <2> QED BY <2>5, <2>6, <2>7 DEF SchemaInv
<1>5. CASE ~Stores!Applies(version)
    <2> DEFINE work == [process[p] EXCEPT !.pc = "failed"]
    <2>1. UNCHANGED <<tables, versions, userVersion>> /\ process' = [process EXCEPT ![p] = work]
        BY <1>5 DEF Stores!Migrate, Stores!Go
    <2>2. work \in Opening /\ work.pc = "failed" /\ work.current = process[p].current
        BY <1>2 DEF Opening
    <2>3. version \in versions
        <3>1. ASSUME version = 5, version \notin versions
              PROVE  Stores!Generations \cap tables = {}
            <4>1. 5 > userVersion /\ 5 \in 2..5
                BY <1>2, <3>1
            <4> QED BY <4>1, MigrationFacts DEF SchemaInv, TablesInv
        <3> QED BY <1>5, <3>1 DEF Stores!Applies
    <2>4. process[p].current < userVersion /\ Several
        BY <1>2, <1>3, <2>3
    <2> HIDE DEF work, version
    <2>5. OpeningOK(p, work)
        BY <1>2, <2>2, <2>4 DEF OpeningOK
    <2> QED BY <2>1, <2>2, <2>5, OwnStep
<1> QED BY <1>4, <1>5

LEMMA SchemaStep ==
    ASSUME SchemaInv, Stores!SchemaNext
    PROVE  SchemaInv'
<1>1. PICK p \in Process :
          \/ Stores!Start(p) \/ Stores!Script(p) \/ Stores!ReadVersion(p) \/ Stores!CheckVersion(p)
          \/ Stores!Migrate(p) \/ Stores!Initialized(p) \/ Stores!Dies(p)
    BY DEF Stores!SchemaNext
<1>2. /\ process[p] \in Opening /\ userVersion \in 0..6 /\ versions = 1..userVersion
      /\ process[p].pc = "script" => process[p].at <= Len(Stores!SCHEMA_V1)
      /\ OpeningOK(p, process[p]) /\ process[p].current \in 0..6
    BY DEF SchemaInv, SchemaType, Opening
<1>3. CASE Stores!Start(p)
    <2> DEFINE work == [pc |-> "script", at |-> 1, current |-> 0]
    <2>1. process' = [process EXCEPT ![p] = work] /\ UNCHANGED <<tables, versions, userVersion>>
        BY <1>3 DEF Stores!Start
    <2>2. work \in Opening /\ work.pc = "script" /\ work.at = 1 /\ work.at <= Len(Stores!SCHEMA_V1) /\ work.current = 0
        BY FirstSchema DEF Opening
    <2> HIDE DEF work
    <2>3. OpeningOK(p, work)
        BY <1>2, <2>2 DEF OpeningOK
    <2> QED BY <2>1, <2>2, <2>3, OwnStep
<1>4. CASE Stores!ReadVersion(p)
    <2> DEFINE work == [process[p] EXCEPT !.pc = "check", !.current = userVersion]
    <2>1. /\ process[p].pc = "read" /\ process' = [process EXCEPT ![p] = work]
          /\ UNCHANGED <<tables, versions, userVersion>>
        <3>1. Stores!Newest = userVersion
            BY <1>2, NewestIsTheVersion
        <3> QED BY <1>4, <3>1 DEF Stores!ReadVersion
    <2>2. work \in Opening /\ work.pc = "check" /\ work.current = userVersion
        BY <1>2 DEF Opening
    <2> HIDE DEF work
    <2>3. OpeningOK(p, work)
        BY <1>2, <2>1, <2>2 DEF OpeningOK
    <2> QED BY <2>1, <2>2, <2>3, OwnStep
<1>5. CASE Stores!CheckVersion(p)
    <2> DEFINE newest == Stores!Max({process[p].current, userVersion})
               pc == IF newest > 5 THEN "refused" ELSE "migrate"
               work == [process[p] EXCEPT !.pc = pc]
    <2>1. /\ process[p].pc = "check" /\ process' = [process EXCEPT ![p] = work]
          /\ UNCHANGED <<tables, versions, userVersion>>
        BY <1>5 DEF Stores!CheckVersion, Stores!Go, Stores!SCHEMA_VERSION
    <2>2. newest = userVersion
        <3>1. userVersion \in {process[p].current, userVersion} /\ \A y \in {process[p].current, userVersion} : userVersion >= y /\ y \in Nat
            BY <1>2 DEF OpeningOK
        <3>2. \A x \in {process[p].current, userVersion} :
                  (\A y \in {process[p].current, userVersion} : x >= y) => x = userVersion
            BY <1>2, <3>1
        <3> QED BY <3>1, <3>2 DEF Stores!Max
    <2> HIDE DEF newest
    <2>3. work \in Opening /\ work.pc = pc /\ work.current = process[p].current
        BY <1>2 DEF Opening
    <2> HIDE DEF work
    <2>4. OpeningOK(p, work)
        BY <1>2, <2>1, <2>2, <2>3 DEF OpeningOK
    <2> QED BY <2>1, <2>3, <2>4, OwnStep
<1>6. CASE Stores!Initialized(p)
    <2> DEFINE work == [process[p] EXCEPT !.pc = "ready"]
    <2>1. /\ process[p].pc = "migrate" /\ process[p].current = 5 /\ process' = [process EXCEPT ![p] = work]
          /\ UNCHANGED <<tables, versions, userVersion>>
        BY <1>6 DEF Stores!Initialized, Stores!Go, Stores!SCHEMA_VERSION
    <2>2. work \in Opening /\ work.pc = "ready" /\ work.current = process[p].current
        BY <1>2 DEF Opening
    <2> HIDE DEF work
    <2>3. OpeningOK(p, work)
        BY <1>2, <2>1, <2>2 DEF OpeningOK
    <2> QED BY <2>1, <2>2, <2>3, OwnStep
<1>7. CASE Stores!Dies(p)
    <2> DEFINE work == [process[p] EXCEPT !.pc = "off"]
    <2>1. process' = [process EXCEPT ![p] = work] /\ UNCHANGED <<tables, versions, userVersion>>
        BY <1>7 DEF Stores!Dies, Stores!Go
    <2>2. work \in Opening /\ work.pc = "off" /\ work.current = process[p].current
        BY <1>2 DEF Opening
    <2> HIDE DEF work
    <2>3. OpeningOK(p, work)
        BY <1>2, <2>2 DEF OpeningOK
    <2> QED BY <2>1, <2>2, <2>3, OwnStep
<1> QED BY <1>1, <1>3, <1>4, <1>5, <1>6, <1>7, ScriptStep, MigrateStep

(* Whichever processes open the database, side by side and dying anywhere: *)
(* its version says which tables it has, none refers to one that is        *)
(* missing, what is ready has the whole schema, a newer file is not used,  *)
(* and a start fails only when another one got ahead of it                 *)
(* (SQLiteDatabase.initialize).                                            *)
THEOREM SchemaStaysWhole ==
    ASSUME Stores!ConstantsOK
    PROVE  Stores!SchemaInit /\ [][Stores!SchemaNext]_<<tables, versions, userVersion, process, starts>> => []Stores!SchemaIsWhole
<1>1. Stores!SchemaInit => SchemaInv
    BY SchemaStarts
<1>2. SchemaInv /\ [Stores!SchemaNext]_<<tables, versions, userVersion, process, starts>> => SchemaInv'
    <2>1. SchemaInv /\ UNCHANGED <<tables, versions, userVersion, process, starts>> => SchemaInv'
        BY DEF SchemaInv, SchemaType, TablesInv, OpeningOK
    <2> QED BY <2>1, SchemaStep
<1>3. SchemaInv => Stores!SchemaIsWhole
    <2> SUFFICES ASSUME SchemaInv PROVE Stores!SchemaIsWhole
        OBVIOUS
    <2>0. Stores!SCHEMA_VERSION = 5
        BY DEF Stores!SCHEMA_VERSION
    <2>1. userVersion \in 0..6 /\ versions = 1..userVersion
        BY DEF SchemaInv, SchemaType
    <2>2. ASSUME NEW v \in 1..5
          PROVE  /\ v \in versions => Stores!MIGRATIONS(v) \subseteq tables
                 /\ v \notin versions /\ v > 1 => Stores!MIGRATIONS(v) \cap tables = {}
        <3>1. (v \in versions <=> v <= userVersion) /\ (v > 1 => v \in 2..5)
            BY <2>1
        <3> QED BY <2>1, <3>1 DEF SchemaInv, TablesInv
    <2>3. \A table \in tables : Stores!References(table) \subseteq tables
        BY DEF SchemaInv, TablesInv
    <2>4. ASSUME NEW p \in Process
          PROVE  /\ process[p].pc = "ready" => userVersion = 5 /\ tables = Stores!UpTo(5)
                 /\ process[p].pc = "refused" => userVersion > 5
                 /\ process[p].pc = "failed" => process[p].current < userVersion /\ Stores!Cardinality(Process) > 1
                 /\ process[p].current <= userVersion
        <3>1. OpeningOK(p, process[p])
            BY DEF SchemaInv
        <3>2. userVersion = 5 => tables = Stores!UpTo(5)
            <4>1. userVersion = 5 => Stores!UpTo(5) \subseteq tables
                BY DEF SchemaInv, TablesInv, Stores!UpTo
            <4> QED BY <4>1 DEF SchemaInv, TablesInv
        <3> QED BY <3>1, <3>2, SeveralAreMore DEF OpeningOK
    <2> QED BY <2>0, <2>1, <2>2, <2>3, <2>4 DEF Stores!SchemaIsWhole
<1> QED BY <1>1, <1>2, <1>3, PTL
-----------------------------------------------------------------------------
(* What a search answers, and which code it may read (CodeSearch).         *)
CONSTANTS K, MAX_TOP_K, MaxChunks
Code == INSTANCE CodeSearch

(* What an answer says before the graph is asked: why it is degraded, if a *)
(* channel was not ready, and nothing yet of the graph.                    *)
Plain(r) ==
    /\ r.degraded \in BOOLEAN /\ (r.degraded <=> r.error # "none")
    /\ r.error # "none" <=> \E c \in DOMAIN r.statuses : r.statuses[c] # "ready"
    /\ "graph" \notin DOMAIN r.statuses

LEMMA ResultPlain ==
    ASSUME NEW hits, NEW statuses, NEW error, "graph" \notin DOMAIN statuses,
           error # "none" <=> \E c \in DOMAIN statuses : statuses[c] # "ready"
    PROVE  Plain(Code!Result(hits, statuses, error, FALSE))
BY DEF Plain, Code!Result

LEMMA KeywordPlain ==
    ASSUME NEW w, NEW n
    PROVE  Plain(Code!Keyword(w, n))
<1>1. CASE Code!Unavailable(w, "lexical")
    <2> DEFINE said == [keyword |-> "unavailable"]
    <2>1. DOMAIN said = {"keyword"} /\ said["keyword"] # "ready" OBVIOUS
    <2>2. Plain(Code!Result(<<>>, said, "lexical_unavailable", FALSE))
        <3> HIDE DEF said
        <3> QED BY <2>1, ResultPlain
    <2> QED BY <1>1, <2>2 DEF Code!Keyword
<1>2. CASE ~Code!Unavailable(w, "lexical")
    <2> DEFINE said == [keyword |-> "ready"]
    <2>1. DOMAIN said = {"keyword"} /\ said["keyword"] = "ready" OBVIOUS
    <2>2. Plain(Code!Result(Code!Combine(w.keywordHits, <<>>, n), said, "none", FALSE))
        <3> HIDE DEF said
        <3> QED BY <2>1, ResultPlain
    <2> QED BY <1>2, <2>2 DEF Code!Keyword
<1> QED BY <1>1, <1>2

LEMMA VectorPlain ==
    ASSUME NEW w, NEW n
    PROVE  Plain(Code!Vector(w, n))
<1>1. CASE Code!Unavailable(w, "vector")
    <2> DEFINE said == [vector |-> "unavailable"]
    <2>1. DOMAIN said = {"vector"} /\ said["vector"] # "ready" OBVIOUS
    <2>2. Plain(Code!Result(<<>>, said, "vector_unavailable", FALSE))
        <3> HIDE DEF said
        <3> QED BY <2>1, ResultPlain
    <2> QED BY <1>1, <2>2 DEF Code!Vector
<1>2. CASE ~Code!Unavailable(w, "vector")
    <2> DEFINE said == [vector |-> "ready"]
    <2>1. DOMAIN said = {"vector"} /\ said["vector"] = "ready" OBVIOUS
    <2>2. Plain(Code!Result(Code!Combine(<<>>, w.vectorHits, n), said, "none", FALSE))
        <3> HIDE DEF said
        <3> QED BY <2>1, ResultPlain
    <2> QED BY <1>2, <2>2 DEF Code!Vector
<1> QED BY <1>1, <1>2

LEMMA HybridPlain ==
    ASSUME NEW w, NEW n
    PROVE  Plain(Code!Hybrid(w, n))
<1> DEFINE Both(k, v) == [keyword |-> k, vector |-> v]
<1>1. ASSUME NEW k, NEW v, NEW error, NEW hits, error # "none" <=> k # "ready" \/ v # "ready"
      PROVE  Plain(Code!Result(hits, Both(k, v), error, FALSE))
    <2>1. DOMAIN Both(k, v) = {"keyword", "vector"} /\ Both(k, v)["keyword"] = k /\ Both(k, v)["vector"] = v
        OBVIOUS
    <2> HIDE DEF Both
    <2> QED BY <1>1, <2>1, ResultPlain
<1> HIDE DEF Both
<1>2. CASE Code!Unavailable(w, "vector")
    <2> DEFINE k == IF Code!Unavailable(w, "lexical") THEN "unavailable" ELSE "ready"
    <2>1. \A hits : Plain(Code!Result(hits, Both(k, "unavailable"), "vector_unavailable", FALSE))
        BY <1>1
    <2> QED BY <1>2, <2>1 DEF Code!Hybrid, Both
<1>3. CASE ~Code!Unavailable(w, "vector") /\ Code!Unavailable(w, "lexical")
    <2>1. \A hits : Plain(Code!Result(hits, Both("unavailable", "ready"), "lexical_unavailable", FALSE))
        BY <1>1
    <2> QED BY <1>3, <2>1 DEF Code!Hybrid, Both
<1>4. CASE ~Code!Unavailable(w, "vector") /\ ~Code!Unavailable(w, "lexical")
    <2>1. \A hits : Plain(Code!Result(hits, Both("ready", "ready"), "none", FALSE))
        BY <1>1
    <2> QED BY <1>4, <2>1 DEF Code!Hybrid, Both
<1> QED BY <1>2, <1>3, <1>4

(* The graph's own state is added to what was said.                        *)
LEMMA GraphIsTold ==
    ASSUME NEW statuses, "graph" \notin DOMAIN statuses, NEW status
    PROVE  LET said == Code!GraphSaid(statuses, status) IN
           (\E c \in DOMAIN said : said[c] # "ready")
           <=> (status # "ready" \/ \E c \in DOMAIN statuses : statuses[c] # "ready")
<1> DEFINE said == Code!GraphSaid(statuses, status)
<1>1. DOMAIN said = DOMAIN statuses \cup {"graph"} /\ said["graph"] = status
      /\ \A c \in DOMAIN statuses : said[c] = statuses[c]
    BY DEF Code!GraphSaid
<1> HIDE DEF said
<1>2. (\E c \in DOMAIN said : said[c] # "ready")
      <=> (status # "ready" \/ \E c \in DOMAIN statuses : statuses[c] # "ready")
    BY <1>1
<1> QED BY <1>2 DEF said

LEMMA WithGraphTold ==
    ASSUME NEW w, NEW base, NEW n, Plain(base)
    PROVE  /\ Code!DegradationIsTold(Code!WithGraph(w, base, n))
           /\ base.error # "none" => Code!WithGraph(w, base, n).degraded
<1> DEFINE r == Code!WithGraph(w, base, n)
           down == Code!Unavailable(w, "graph")
           status == IF down THEN "unavailable" ELSE Code!GraphStatus(w)
           error == Code!First(base.error, IF down THEN "graph_unavailable" ELSE Code!GraphError(w))
<1>1. r.statuses = Code!GraphSaid(base.statuses, status) /\ r.degraded = (error # "none")
    BY DEF Code!WithGraph, Code!Expanded, Code!Result
<1>2. error # "none" <=> (status # "ready" \/ base.error # "none")
    BY DEF Code!First, Code!GraphError, Code!GraphStatus
<1>3. (\E c \in DOMAIN r.statuses : r.statuses[c] # "ready") <=> (status # "ready" \/ base.error # "none")
    <2> HIDE DEF status, r
    <2> QED BY <1>1, GraphIsTold DEF Plain
<1> HIDE DEF r, status, error
<1>4. Code!DegradationIsTold(r) /\ (base.error # "none" => r.degraded)
    BY <1>1, <1>2, <1>3 DEF Code!DegradationIsTold
<1> QED BY <1>4 DEF r

(* A search says that it is degraded when, and only when, a channel it was *)
(* to use was not ready: in every mode, whatever the channels answer and   *)
(* however they are (CodeRetrievalService.search, _expand_hybrid).         *)
THEOREM DegradedSearchesSaySo ==
    ASSUME NEW w, NEW mode, NEW topK, NEW candidateLimit
    PROVE  Code!DegradationIsTold(Code!Search(w, mode, topK, candidateLimit))
<1> DEFINE r == Code!Search(w, mode, topK, candidateLimit)
<1>1. CASE mode = "keyword"
    <2>1. r = Code!Keyword(w, topK) BY <1>1 DEF Code!Search
    <2> HIDE DEF r
    <2> QED BY <2>1, KeywordPlain DEF Plain, Code!DegradationIsTold, r
<1>2. CASE mode = "vector"
    <2>1. r = Code!Vector(w, topK) BY <1>2 DEF Code!Search
    <2> QED BY <2>1, VectorPlain DEF Plain, Code!DegradationIsTold
<1>3. CASE mode = "hybrid"
    <2>1. r = Code!Hybrid(w, topK) BY <1>3 DEF Code!Search
    <2> QED BY <2>1, HybridPlain DEF Plain, Code!DegradationIsTold
<1>4. CASE mode = "graph"
    <2>1. r = Code!Graph(w, topK) BY <1>4 DEF Code!Search
    <2>2. CASE Code!Unavailable(w, "lexical")
        <3> DEFINE both == [keyword |-> "unavailable", graph |-> "unavailable"]
        <3>1. r = Code!Result(<<>>, both, "lexical_unavailable", FALSE)
            BY <2>1, <2>2 DEF Code!Graph
        <3>2. DOMAIN both = {"keyword", "graph"} /\ both["graph"] = "unavailable"
            OBVIOUS
        <3> HIDE DEF both, r
        <3>3. r.degraded /\ r.statuses = both
            BY <3>1 DEF Code!Result
        <3>4. \E c \in DOMAIN r.statuses : r.statuses[c] # "ready"
            BY <3>2, <3>3
        <3>5. Code!DegradationIsTold(r)
            BY <3>3, <3>4 DEF Code!DegradationIsTold
        <3> QED BY <3>5 DEF r
    <2>3. CASE ~Code!Unavailable(w, "lexical")
        <3>1. r = Code!WithGraph(w, Code!Keyword(w, topK), topK) BY <2>1, <2>3 DEF Code!Graph
        <3> QED BY <3>1, WithGraphTold, KeywordPlain
    <2> QED BY <2>2, <2>3
<1>5. CASE mode \notin {"keyword", "vector", "hybrid", "graph"}
    <2>1. PICK m : r = Code!WithGraph(w, Code!Hybrid(w, m), topK)
        BY <1>5 DEF Code!Search, Code!HybridGraph
    <2> QED BY <2>1, WithGraphTold, HybridPlain
<1> QED BY <1>1, <1>2, <1>3, <1>4, <1>5

(* The tool refuses a search that is out of time, refuses one that lost    *)
(* its vectors when it is of vectors alone, and otherwise answers it with  *)
(* what the keywords find and says so: whatever the service that encodes   *)
(* does (build_code_retrieval_tools.search).                               *)
THEOREM SearchToolStaysHonest ==
    ASSUME NEW w, {"lexical", "vector", "keywordHits"} \subseteq DOMAIN w, w = [c \in DOMAIN w |-> w[c]],
           NEW mode, NEW topK \in Int, NEW candidateLimit \in Int, NEW outcome, NEW late \in {"never", "before", "after"}
    PROVE  Code!ToolIsHonest(w, mode, topK, candidateLimit, outcome, late)
<1> DEFINE refusal == Code!Refusal(mode, topK, candidateLimit, outcome, late)
           reached == Code!Reached(w, outcome)
           found == Code!Search(reached, mode, topK, candidateLimit)
           answer == Code!SearchTool(w, mode, topK, candidateLimit, outcome, late)
<1>1. /\ refusal # "none" => answer = <<>>
      /\ refusal = "none" => answer # <<>> /\ answer[1] = found
    BY DEF Code!SearchTool
<1>2. late # "never" => refusal # "none"
    BY DEF Code!Refusal
<1>3. late = "never" /\ mode \in Code!ToolModes /\ topK \in 1..MAX_TOP_K /\ topK <= candidateLimit
      /\ ~(Code!Encoded(mode) /\ outcome \in {"http_error", "invalid"})
      => (refusal # "none" <=> mode = "vector" /\ Code!Lost(outcome))
    <2> HAVE late = "never" /\ mode \in Code!ToolModes /\ topK \in 1..MAX_TOP_K /\ topK <= candidateLimit
             /\ ~(Code!Encoded(mode) /\ outcome \in {"http_error", "invalid"})
    <2> QED BY DEF Code!Refusal
<1>4. ASSUME Code!Lost(outcome)
      PROVE  Code!Unavailable(reached, "vector") /\ (\A c \in DOMAIN w : c # "vector" => reached[c] = w[c])
    BY <1>4 DEF Code!Reached, Code!Unavailable
<1>5. ASSUME Code!Lost(outcome), NEW n
      PROVE  Code!Hybrid(reached, n).error = "vector_unavailable" /\ Code!Hybrid(reached, n).degraded
    BY <1>4, <1>5 DEF Code!Hybrid, Code!Result
<1>6. Code!Lost(outcome) => Code!Hybrid(reached, topK).hits = Code!Keyword(w, topK).hits
    <2> HAVE Code!Lost(outcome)
    <2>1. reached["lexical"] = w["lexical"] /\ reached.keywordHits = w.keywordHits
        BY DEF Code!Reached
    <2>2. Code!Unavailable(reached, "lexical") <=> Code!Unavailable(w, "lexical")
        BY <2>1 DEF Code!Unavailable
    <2>3. Code!Hybrid(reached, topK).hits = IF Code!Unavailable(w, "lexical") THEN <<>> ELSE Code!Combine(w.keywordHits, <<>>, topK)
        BY <1>4, <2>1, <2>2 DEF Code!Hybrid, Code!Result
    <2>4. Code!Keyword(w, topK).hits = IF Code!Unavailable(w, "lexical") THEN <<>> ELSE Code!Combine(w.keywordHits, <<>>, topK)
        BY DEF Code!Keyword, Code!Result
    <2> QED BY <2>3, <2>4
<1>7. mode = "hybrid" => found = Code!Hybrid(reached, topK)
    BY DEF Code!Search
<1>8. Code!Lost(outcome) /\ mode = "hybrid_graph" => found.degraded
    <2> HAVE Code!Lost(outcome) /\ mode = "hybrid_graph"
    <2>1. PICK m : found = Code!WithGraph(reached, Code!Hybrid(reached, m), topK)
        BY DEF Code!Search, Code!HybridGraph
    <2>2. Code!Hybrid(reached, m).error # "none" BY <1>5
    <2> QED BY <2>1, <2>2, WithGraphTold, HybridPlain
<1> HIDE DEF refusal, reached, found
<1>9. /\ late # "never" => answer = <<>>
      /\ late = "never" /\ mode \in Code!ToolModes /\ topK \in 1..MAX_TOP_K /\ topK <= candidateLimit
         /\ ~(Code!Encoded(mode) /\ outcome \in {"http_error", "invalid"}) =>
            (answer = <<>> <=> mode = "vector" /\ Code!Lost(outcome))
      /\ answer # <<>> /\ mode = "hybrid" /\ Code!Lost(outcome) =>
            answer[1].degraded /\ answer[1].hits = Code!Keyword(w, topK).hits
      /\ answer # <<>> /\ mode = "hybrid_graph" /\ Code!Lost(outcome) => answer[1].degraded
    <2> HIDE DEF answer
    <2>1. late # "never" => answer = <<>> BY <1>1, <1>2
    <2>2. answer = <<>> <=> refusal # "none" BY <1>1
    <2>3. answer # <<>> => answer[1] = found BY <1>1, <2>2
    <2> QED BY <1>3, <1>5, <1>6, <1>7, <1>8, <2>1, <2>2, <2>3
<1> QED BY <1>9 DEF Code!ToolIsHonest, answer

(* What the bindings of an incident allow to be read.                      *)
LEMMA BindingCount == \A S : Code!Cardinality(S) = Cardinality(S)
BY Zenon DEF Code!Cardinality, Cardinality

LEMMA FiniteImage ==
    ASSUME NEW S, IsFiniteSet(S), NEW f, f = [x \in S |-> f[x]]
    PROVE  IsFiniteSet({f[x] : x \in S})
<1> f \in Surjection(S, {f[x] : x \in S})
    BY DEF Surjection
<1> QED BY FS_Surjection

LEMMA OnlyOne ==
    ASSUME NEW S, Cardinality(S) = 1, IsFiniteSet(S), NEW x \in S
    PROVE  S = {x}
<1>1. IsFiniteSet(S \ {x}) /\ Cardinality(S \ {x}) = 0 BY FS_RemoveElement
<1> QED BY <1>1, FS_EmptySet

(* Binding again leaves a session one generation of a repository, the one  *)
(* it was bound to last (SQLiteCodeMapStore.bind_incident).                *)
THEOREM BindingsStayOne ==
    ASSUME NEW bindings, NEW row, Code!BindingsAreOne(bindings)
    PROVE  Code!BindingsAreOne(Code!Bind(bindings, row)) /\ row \in Code!Bind(bindings, row)
BY DEF Code!BindingsAreOne, Code!Bind

(* The scope a search is given can be read, whatever the sessions are      *)
(* bound to: of several generations none is chosen (scope, _bound_identity *)
(* and rehydrate).                                                         *)
THEOREM ScopesStayReadable ==
    ASSUME NEW bindings, IsFiniteSet(bindings), NEW allowed, NEW asked, DOMAIN asked \subseteq {"repository", "snapshot"}
    PROVE  Code!ScopeIsReadable(bindings, allowed, asked)
<1> DEFINE selected == Code!Selected(bindings, allowed, asked)
<1> SUFFICES ASSUME NEW one \in Code!ScopeOf(bindings, allowed, asked)
             PROVE  /\ one.repository \in allowed
                    /\ Code!BoundIdentity(bindings, one.repository, one.snapshot) = {one.generation}
    BY DEF Code!ScopeIsReadable
<1>1. one \in selected /\ Cardinality(selected) = 1
    BY BindingCount DEF Code!ScopeOf
<1>2. IsFiniteSet(selected)
    <2> DEFINE kept == {b \in bindings : b.repository \in allowed /\ \A key \in DOMAIN asked : asked[key] = b[key]}
               key == [r \in kept |-> [repository |-> r.repository, snapshot |-> r.snapshot, generation |-> r.generation]]
    <2>1. IsFiniteSet(kept) BY FS_Subset
    <2>2. selected = {key[r] : r \in kept} BY DEF Code!Selected
    <2>3. key = [r \in kept |-> key[r]] OBVIOUS
    <2> HIDE DEF kept, key, selected
    <2>4. IsFiniteSet({key[r] : r \in kept}) BY <2>1, <2>3, FiniteImage
    <2> QED BY <2>2, <2>4
<1>3. selected = {one} BY <1>1, <1>2, OnlyOne
<1>4. PICK own \in bindings : /\ own.repository \in allowed /\ \A key \in DOMAIN asked : asked[key] = own[key]
                          /\ one = [repository |-> own.repository, snapshot |-> own.snapshot, generation |-> own.generation]
    BY <1>1 DEF Code!Selected
<1>5. one.repository = own.repository /\ one.snapshot = own.snapshot /\ one.generation = own.generation
    BY <1>4
<1> DEFINE same == {b \in bindings : b.repository = one.repository /\ b.snapshot = one.snapshot}
           bound == {r.generation : r \in same}
<1>6. \A b \in same : b.generation = one.generation
    <2> TAKE b \in same
    <2>1. \A key \in DOMAIN asked : asked[key] = b[key]
        BY <1>4, <1>5
    <2>2. [repository |-> b.repository, snapshot |-> b.snapshot, generation |-> b.generation] \in selected
        BY <1>4, <1>5, <2>1 DEF Code!Selected
    <2> QED BY <1>3, <2>2
<1>7. bound = {one.generation} BY <1>5, <1>6
<1>8. Cardinality(bound) = 1 BY <1>7, FS_Singleton
<1>9. Code!BoundIdentity(bindings, one.repository, one.snapshot) = bound
    BY <1>8, BindingCount DEF Code!BoundIdentity
<1> QED BY <1>4, <1>5, <1>7, <1>9

(* Evidence that was found in the scope of a search is read again under    *)
(* the same bindings; and after a session is bound again, unless that      *)
(* binds it to another generation of the snapshot or leaves no session     *)
(* bound to it: for every set of bindings (scope, bind_incident and        *)
(* rehydrate).                                                             *)
THEOREM EvidenceIsReadAgain ==
    ASSUME NEW bindings, IsFiniteSet(bindings), NEW row, NEW allowed, NEW asked, DOMAIN asked \subseteq {"repository", "snapshot"},
           NEW shown, NEW archive
    PROVE  Code!EvidenceStaysReadable(bindings, row, allowed, asked, shown, archive)
<1> SUFFICES ASSUME NEW one \in Code!ScopeOf(bindings, allowed, asked)
             PROVE  LET evidence == [repository |-> one.repository, snapshot |-> one.snapshot,
                                     generation |-> one.generation, content |-> shown[one.generation]]
                        unchanged == archive[one.generation] = shown[one.generation]
                        OfSnapshot(r) == r.repository = one.repository /\ r.snapshot = one.snapshot
                        Stays(r) == row.repository = one.repository => r.session = "none" \/ r.session # row.session
                    IN /\ Code!Rehydrated(bindings, evidence, archive) # {} <=> unchanged
                       /\ Code!Rehydrated(Code!Bind(bindings, row), evidence, archive) # {} <=>
                             /\ unchanged
                             /\ OfSnapshot(row) => row.generation = one.generation
                             /\ OfSnapshot(row) \/ \E r \in bindings : OfSnapshot(r) /\ Stays(r)
    BY Zenon DEF Code!EvidenceStaysReadable
<1> DEFINE evidence == [repository |-> one.repository, snapshot |-> one.snapshot,
                        generation |-> one.generation, content |-> shown[one.generation]]
           unchanged == archive[one.generation] = shown[one.generation]
           OfSnapshot(r) == r.repository = one.repository /\ r.snapshot = one.snapshot
           Stays(r) == row.repository = one.repository => r.session = "none" \/ r.session # row.session
           again == Code!Bind(bindings, row)
           readable == (OfSnapshot(row) => row.generation = one.generation)
                          /\ (OfSnapshot(row) \/ \E r \in bindings : OfSnapshot(r) /\ Stays(r))
           bound == {r.generation : r \in {b \in bindings : b.repository = one.repository /\ b.snapshot = one.snapshot}}
           boundAgain == {r.generation : r \in {b \in again : b.repository = one.repository /\ b.snapshot = one.snapshot}}
<1>1. Code!BoundIdentity(bindings, one.repository, one.snapshot) = {one.generation}
    BY ScopesStayReadable DEF Code!ScopeIsReadable
<1>2. bound = {one.generation}
    BY <1>1 DEF Code!BoundIdentity
<1>3. \A r \in bindings : OfSnapshot(r) => r.generation = one.generation
    BY <1>2
<1>4. again = {r \in bindings : r.session = "none" \/ r.session # row.session \/ r.repository # row.repository} \cup {row}
    BY DEF Code!Bind
<1>5. boundAgain = {one.generation} <=> readable
    <2>1. ASSUME boundAgain = {one.generation} PROVE readable
        <3>1. OfSnapshot(row) => row.generation \in boundAgain
            BY <1>4
        <3>2. PICK r \in again : OfSnapshot(r)
            BY <2>1
        <3>3. r = row \/ (r \in bindings /\ (r.session = "none" \/ r.session # row.session \/ r.repository # row.repository))
            BY <1>4, <3>2
        <3>4. OfSnapshot(row) \/ r \in bindings
            BY <3>2, <3>3
        <3> QED BY <2>1, <3>1, <3>2, <3>3
    <2>2. ASSUME readable PROVE boundAgain = {one.generation}
        <3>1. \A r \in again : OfSnapshot(r) => r.generation = one.generation
            BY <1>3, <1>4, <2>2
        <3>2. \E r \in again : OfSnapshot(r)
            BY <1>4, <2>2
        <3> QED BY <3>1, <3>2
    <2> QED BY <2>1, <2>2
<1>6. Code!BoundIdentity(again, one.repository, one.snapshot) = {one.generation} <=> boundAgain = {one.generation}
    <2>1. Cardinality({one.generation}) = 1
        BY FS_Singleton
    <2>2. Code!BoundIdentity(again, one.repository, one.snapshot) = IF Code!Cardinality(boundAgain) = 1 THEN boundAgain ELSE {}
        BY DEF Code!BoundIdentity
    <2> HIDE DEF boundAgain, again
    <2>3. boundAgain = {one.generation} => Code!Cardinality(boundAgain) = 1
        BY <2>1, BindingCount
    <2> QED BY <2>2, <2>3
<1>7. Code!Rehydrated(bindings, evidence, archive) # {} <=> unchanged
    BY <1>1 DEF Code!Rehydrated
<1>8. Code!Rehydrated(again, evidence, archive) # {} <=> unchanged /\ readable
    <2>1. Code!Rehydrated(again, evidence, archive) # {} <=>
             Code!BoundIdentity(again, one.repository, one.snapshot) = {one.generation} /\ unchanged
        BY DEF Code!Rehydrated
    <2> QED BY <1>5, <1>6, <2>1
<1> QED BY <1>7, <1>8
=============================================================================
