------------------------ MODULE RetrievalCoordinator ------------------------
(***************************************************************************)
(* The full-text projections of published generations, and the coordinator *)
(* that makes them.                                                        *)
(*                                                                         *)
(* A manifest says which documents belong to a revision of a generation,   *)
(* the documents are written, and publication compares the two and moves   *)
(* the pointer that searches follow.  Each of these is one transaction;    *)
(* the rows of the full-text index are written with the documents and go   *)
(* unmentioned.                                                            *)
(*                                                                         *)
(* Of the coordinator one thread projects the generations and works off    *)
(* their embedding runs, queries of tools take turns with it for the one   *)
(* client of the index, and stop() may come at any time.  The tables       *)
(* outlive the process, and another publisher writes them too.             *)
(***************************************************************************)
EXTENDS Naturals, FiniteSets

CONSTANTS
    Scope,       \* published generations of snapshots
    Revision,    \* projection revisions
    Document,    \* documents of a scope under a revision
    Expected,    \* Expected[s][r]: what the archive of s makes under r
    LeftOver,    \* tables of documents an earlier schema may have left
    None,
    Query,       \* calls of code_retrieval.search and expand_graph
    Mine,        \* the coordinator's projection revision
    MaxCrashes,
    Publication  \* the <<scope, revision>> pairs the other publisher projects

ASSUME LexicalAssumption ==
    /\ None \notin Revision
    /\ \A s \in Scope, r \in Revision : Expected[s][r] \subseteq Document
    /\ LeftOver \subseteq [Scope -> [Revision -> SUBSET Document]]

ASSUME CoordinatorAssumption ==
    /\ None \notin Scope /\ Mine \in Revision /\ MaxCrashes \in Nat /\ Publication \subseteq Scope \X Revision
    /\ Query \cap {"free", "starter", "thread"} = {}

VARIABLES
    manifest,  \* manifest[s][r]: status, expected documents, base revision, published_once
    documents, \* code_search_documents
    pointer,   \* code_search_active_projections
    state,     \* new, running, stopping, stopped, failed
    stopping,  \* the event
    lock,      \* "free", "starter", "thread" or a query
    thread,    \* where the scheduler thread is
    scope,     \* the scope it projects
    runs, errors,  \* scopes that are enqueued, that are quarantined
    clients,   \* the index and the embedder: "none", "open", "closed"
    query,     \* query[q]: idle, waiting, inside, answered, late, refused
    stopper,   \* the caller of stop(): idle, joining, done, timeout, raised
    other,     \* where the other publisher is in each of its publications
    crashes

lexicalVars == <<manifest, documents, pointer>>
inMemory == <<state, stopping, lock, thread, scope, runs, errors, clients, query, stopper>>
coordinatorVars == <<lexicalVars, inMemory, other, crashes>>

NoManifest == [status |-> "absent", expected |-> {}, base |-> None, once |-> FALSE]

(* Documents of an earlier schema may be there already.                    *)
LexicalInit ==
    /\ manifest = [s \in Scope |-> [r \in Revision |-> NoManifest]]
    /\ documents \in LeftOver
    /\ pointer = [s \in Scope |-> None]

Fresh ==
    /\ state = "new" /\ stopping = FALSE /\ lock = "free" /\ thread = "none" /\ scope = None
    /\ runs = {} /\ errors = {} /\ clients = "none" /\ query = [q \in Query |-> "idle"] /\ stopper = "idle"

Init == LexicalInit /\ Fresh /\ other = [p \in Publication |-> "begin"] /\ crashes = 0

-----------------------------------------------------------------------------
(* The tables.                                                             *)

(* active(): what a search of the scope reads.                             *)
Active(s) == IF pointer[s] # None /\ manifest[s][pointer[s]].status = "ready" THEN pointer[s] ELSE None

(* begin() raises when the revision expects other documents already.       *)
MayBegin(s, r) == manifest[s][r].status = "absent" \/ manifest[s][r].expected = Expected[s][r]

(* A manifest that failed keeps the base it began with.                    *)
Begin(s, r) ==
    /\ MayBegin(s, r)
    /\ manifest' = IF manifest[s][r].status \in {"ready", "building"} THEN manifest
                   ELSE [manifest EXCEPT ![s][r] = [@ EXCEPT
                            !.status = "building", !.expected = Expected[s][r],
                            !.base = IF manifest[s][r].status = "absent" THEN pointer[s] ELSE manifest[s][r].base]]
    /\ UNCHANGED <<documents, pointer>>

(* upsert_documents() raises when a published projection would change.     *)
Frozen(s, r) == manifest[s][r].status = "ready" \/ manifest[s][r].once

MayUpsert(s, r, docs) == Frozen(s, r) => docs \subseteq documents[s][r]

Upsert(s, r, docs) ==
    /\ MayUpsert(s, r, docs)
    /\ documents' = [documents EXCEPT ![s][r] = @ \cup docs]
    /\ UNCHANGED <<manifest, pointer>>

(* publish(): the pointer must still be where it was when the manifest was *)
(* begun, or at the revision itself once it is ready.                      *)
Conflict(s, r) == pointer[s] # (IF manifest[s][r].status = "ready" THEN r ELSE manifest[s][r].base)

(* Mutant: whoever publishes last wins.                                    *)
SameDocuments(s, r) == documents[s][r] = manifest[s][r].expected

Consistent(s, r) == documents[s][r] = manifest[s][r].expected /\ ~Conflict(s, r)

Publish(s, r) ==
    /\ manifest[s][r].status # "absent"
    /\ manifest' = [manifest EXCEPT ![s][r] = [@ EXCEPT
                       !.status = IF Consistent(s, r) THEN "ready" ELSE "failed",
                       !.once = manifest[s][r].once \/ Consistent(s, r)]]
    /\ pointer' = IF Consistent(s, r) THEN [pointer EXCEPT ![s] = r] ELSE pointer
    /\ UNCHANGED documents

-----------------------------------------------------------------------------
Running == state = "running" /\ ~stopping

(* start(): the clients are opened under the lock, then the thread runs;   *)
(* stop() may come in between.                                             *)
StartOpens ==
    /\ state = "new" /\ lock = "free"
    /\ \/ lock' = "starter" /\ clients' = "open" /\ state' = state
       \/ lock' = lock /\ clients' = "closed" /\ state' = "failed"
    /\ UNCHANGED <<lexicalVars, stopping, thread, scope, runs, errors, query, stopper, other, crashes>>

StartRuns ==
    /\ lock = "starter"
    /\ state' = "running" /\ thread' = "waiting" /\ lock' = "free"
    /\ UNCHANGED <<lexicalVars, stopping, scope, runs, errors, clients, query, stopper, other, crashes>>

(* stop() sets the event and waits for the thread it sees, for a while.    *)
Stop ==
    /\ stopper \in {"idle", "timeout"}
    /\ stopping' = TRUE
    /\ state' = IF state = "running" THEN "stopping" ELSE IF state = "new" THEN "stopped" ELSE state
    /\ stopper' = IF thread # "none" THEN "joining" ELSE IF state = "failed" THEN "raised" ELSE "done"
    /\ UNCHANGED <<lexicalVars, lock, thread, scope, runs, errors, clients, query, other, crashes>>

Joined ==
    /\ stopper = "joining"
    /\ \/ thread = "ended" /\ stopper' = IF state = "failed" THEN "raised" ELSE "done"
       \/ thread # "ended" /\ stopper' = "timeout"
    /\ UNCHANGED <<lexicalVars, state, stopping, lock, thread, scope, runs, errors, clients, query, other, crashes>>

-----------------------------------------------------------------------------
(* The thread.                                                             *)
ThreadRest == <<stopping, clients, query, stopper, other, crashes>>

(* The loop of _run(), and tick() as far as its first check.               *)
Wake ==
    /\ thread = "waiting"
    /\ \/ stopping /\ thread' = "ending" /\ lock' = lock
       \/ ~stopping /\ lock = "free" /\ lock' = "thread" /\ thread' = "woken"
    /\ UNCHANGED <<lexicalVars, state, scope, runs, errors, ThreadRest>>

(* A stop that comes between the two checks makes the second one raise.    *)
CheckState ==
    /\ thread = "woken"
    /\ IF state # "running"
       THEN state' = "failed" /\ thread' = "ending" /\ lock' = "free"
       ELSE thread' = "choosing" /\ UNCHANGED <<state, lock>>
    /\ UNCHANGED <<lexicalVars, scope, runs, errors, ThreadRest>>

Open == Scope \ (runs \cup errors)

(* The next published generation that has neither run nor error, or, when  *)
(* there is none, the runs.                                                *)
Choose ==
    /\ thread = "choosing" /\ ~stopping
    /\ \/ \E s \in Open : scope' = s /\ thread' = "resolving"
       \/ Open = {} /\ thread' = "working" /\ scope' = scope
    /\ UNCHANGED <<lexicalVars, state, lock, runs, errors, ThreadRest>>

(* Mutant: nothing is remembered of an error.                              *)
TryAgain == errors' = errors /\ thread' = "choosing"

(* An error quarantines the scope.                                         *)
Quarantine == errors' = errors \cup {scope} /\ thread' = "choosing"

(* _project() begins: another active revision is an error, the own one     *)
(* needs no documents.                                                     *)
Resolve ==
    /\ thread = "resolving" /\ ~stopping
    /\ \/ Active(scope) \notin {None, Mine} /\ Quarantine
       \/ Active(scope) = Mine /\ thread' = "enqueuing" /\ errors' = errors
       \/ Active(scope) = None /\ thread' = "reading" /\ errors' = errors
    /\ UNCHANGED <<lexicalVars, state, lock, scope, runs, ThreadRest>>

(* Reading the archive may fail.                                           *)
ReadArchive ==
    /\ thread = "reading" /\ ~stopping
    /\ \/ Quarantine
       \/ Expected[scope][Mine] # {} /\ thread' = "beginning" /\ errors' = errors
    /\ UNCHANGED <<lexicalVars, state, lock, scope, runs, ThreadRest>>

ThreadStep(from, to, may, step) ==
    /\ thread = from
    /\ \/ may /\ step /\ thread' = to /\ errors' = errors
       \/ ~may /\ Quarantine /\ UNCHANGED lexicalVars
    /\ UNCHANGED <<state, lock, scope, runs, ThreadRest>>

ThreadBegins == ThreadStep("beginning", "writing", MayBegin(scope, Mine), Begin(scope, Mine))
ThreadWrites == ThreadStep("writing", "publishing", MayUpsert(scope, Mine, Expected[scope][Mine]),
                           Upsert(scope, Mine, Expected[scope][Mine]))

(* Publication leaves its report before it raises.                         *)
ThreadPublishes ==
    /\ thread = "publishing" /\ Publish(scope, Mine)
    /\ IF Consistent(scope, Mine) THEN thread' = "enqueuing" /\ errors' = errors ELSE Quarantine
    /\ UNCHANGED <<state, lock, scope, runs, ThreadRest>>

(* enqueue() raises unless the projection is the active one.               *)
Enqueue ==
    /\ thread = "enqueuing" /\ ~stopping
    /\ IF Active(scope) = Mine
       THEN runs' = runs \cup {scope} /\ thread' = "choosing" /\ errors' = errors
       ELSE Quarantine /\ runs' = runs
    /\ UNCHANGED <<lexicalVars, state, lock, scope, ThreadRest>>

(* run_once() for each run; what it raises ends the scheduler.             *)
WorkRuns ==
    /\ thread = "working" /\ lock' = "free"
    /\ \/ thread' = "waiting" /\ state' = state
       \/ ~stopping /\ runs # {} /\ thread' = "ending" /\ state' = "failed"
    /\ UNCHANGED <<lexicalVars, scope, runs, errors, ThreadRest>>

(* A stop that is seen leaves tick(); nothing is quarantined for it.       *)
StopSeen ==
    /\ stopping /\ thread \in {"choosing", "resolving", "reading", "enqueuing"}
    /\ thread' = "waiting" /\ lock' = "free"
    /\ UNCHANGED <<lexicalVars, state, scope, runs, errors, ThreadRest>>

(* The finally clause of _run(); a client may refuse to close.             *)
Close ==
    /\ thread = "ending" /\ lock = "free"
    /\ thread' = "ended" /\ clients' = "closed"
    /\ state' \in {"failed", IF state = "failed" THEN "failed" ELSE "stopped"}
    /\ UNCHANGED <<lexicalVars, stopping, lock, scope, runs, errors, query, stopper, other, crashes>>

Thread ==
    \/ Wake \/ CheckState \/ Choose \/ Resolve \/ ReadArchive \/ ThreadBegins \/ ThreadWrites
    \/ ThreadPublishes \/ Enqueue \/ WorkRuns \/ StopSeen \/ Close

-----------------------------------------------------------------------------
(* guarded(): a query waits for the lock as long as its deadline allows.   *)
QueryRest == <<lexicalVars, state, stopping, thread, scope, runs, errors, clients, stopper, other, crashes>>

Ask(q) ==
    /\ query[q] = "idle" /\ Running
    /\ query' = [query EXCEPT ![q] = "waiting"]
    /\ UNCHANGED <<QueryRest, lock>>

(* Mutant: only the state is looked at before the wait.                    *)
EnterUnchecked(q) ==
    /\ query[q] = "waiting" /\ lock = "free"
    /\ query' = [query EXCEPT ![q] = "inside"] /\ lock' = q
    /\ UNCHANGED QueryRest

Enter(q) ==
    /\ query[q] = "waiting" /\ lock = "free"
    /\ IF Running
       THEN query' = [query EXCEPT ![q] = "inside"] /\ lock' = q
       ELSE query' = [query EXCEPT ![q] = "refused"] /\ lock' = lock
    /\ UNCHANGED QueryRest

(* An answer that comes too late is not given.                             *)
Finish(q) ==
    /\ query[q] = "inside"
    /\ \E outcome \in {"answered", "late"} : query' = [query EXCEPT ![q] = outcome]
    /\ lock' = "free"
    /\ UNCHANGED QueryRest

WaitedTooLong(q) ==
    /\ query[q] = "waiting" /\ lock # "free"
    /\ query' = [query EXCEPT ![q] = "late"]
    /\ UNCHANGED <<QueryRest, lock>>

-----------------------------------------------------------------------------
(* Another publisher of the same database, one transaction at a time.      *)
OtherPublishes(p) ==
    LET s == p[1] r == p[2] IN
    /\ \/ /\ other[p] = "begin"
          /\ IF MayBegin(s, r) THEN Begin(s, r) /\ other' = [other EXCEPT ![p] = "write"]
             ELSE UNCHANGED lexicalVars /\ other' = [other EXCEPT ![p] = "end"]
       \/ /\ other[p] = "write"
          /\ IF MayUpsert(s, r, Expected[s][r])
             THEN Upsert(s, r, Expected[s][r]) /\ other' = [other EXCEPT ![p] = "publish"]
             ELSE UNCHANGED lexicalVars /\ other' = [other EXCEPT ![p] = "end"]
       \/ other[p] = "publish" /\ Publish(s, r) /\ other' = [other EXCEPT ![p] = "end"]
    /\ UNCHANGED <<inMemory, crashes>>

(* The process dies and a new coordinator is made.                         *)
Crash ==
    /\ crashes < MaxCrashes /\ state # "new" /\ crashes' = crashes + 1
    /\ state' = "new" /\ stopping' = FALSE /\ lock' = "free" /\ thread' = "none" /\ scope' = None
    /\ runs' = {} /\ errors' = {} /\ clients' = "none" /\ query' = [q \in Query |-> "idle"] /\ stopper' = "idle"
    /\ UNCHANGED <<lexicalVars, other>>

Next ==
    \/ StartOpens \/ StartRuns \/ Stop \/ Joined \/ Thread \/ Crash
    \/ \E q \in Query : Ask(q) \/ Enter(q) \/ Finish(q) \/ WaitedTooLong(q)
    \/ \E p \in Publication : OtherPublishes(p)

Spec == Init /\ [][Next]_coordinatorVars

-----------------------------------------------------------------------------
(* A search reads a revision whose documents are exactly those its         *)
(* manifest expects.                                                       *)
ActiveIsComplete == \A s \in Scope :
    Active(s) # None => documents[s][Active(s)] = manifest[s][Active(s)].expected

(* What was published once is never rewritten, and the pointer moves only  *)
(* to a revision that was begun when it stood where it stands.             *)
Unrewritten == \A s \in Scope, r \in Revision :
    /\ manifest[s][r].once => documents'[s][r] = documents[s][r] /\ manifest'[s][r].expected = manifest[s][r].expected
    /\ pointer'[s] # pointer[s] => pointer[s] = manifest[s][pointer'[s]].base

(* The clients are used by one caller at a time and never once they are    *)
(* closed; a stop that returns has left nothing open behind it.            *)
ClientsAreGuarded ==
    /\ \A q \in Query : query[q] = "inside" => lock = q /\ clients = "open" /\ thread # "ended"
    /\ (lock = "thread") <=> (thread \in {"woken", "choosing", "resolving", "reading", "beginning", "writing",
                                          "publishing", "enqueuing", "working"})
    /\ lock = "thread" => clients = "open"
    /\ stopper = "done" => lock # "thread" /\ (thread = "ended" => clients = "closed")

(* What is quarantined is not worked on, and what is enqueued was          *)
(* published by someone.                                                   *)
EnqueuedIsPublished ==
    /\ runs \cap errors = {}
    /\ \A s \in runs : manifest[s][Mine].once

RetrievalIsSound == ActiveIsComplete /\ ClientsAreGuarded /\ EnqueuedIsPublished

PublicationsAreOrderly == [][Unrewritten]_lexicalVars

(* A stop ends the thread whatever it is doing, no query waits forever,    *)
(* and a coordinator that goes on settles every published generation.      *)
ThreadsSettle ==
    /\ [](stopping /\ thread # "none" => <>(thread \in {"ended", "none"}))
    /\ \A q \in Query : []<>(query[q] \notin {"waiting", "inside"})
    /\ []<>(Open = {} \/ ~Running)

(* The thread and the queries go on when they can; the lock is granted     *)
(* again and again, and deadlines pass.                                    *)
FairSpec ==
    /\ Spec
    /\ WF_coordinatorVars(StartRuns) /\ SF_coordinatorVars(Thread)
    /\ \A q \in Query : WF_coordinatorVars(Finish(q)) /\ WF_coordinatorVars(Enter(q) \/ WaitedTooLong(q))
=============================================================================
