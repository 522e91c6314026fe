------------------------------- MODULE GitCache -------------------------------
(***************************************************************************)
(* The bare clone a service keeps of a repository.  A process takes the    *)
(* lock of the clone, fetches the ref it tracks, asks which commit that    *)
(* was and pins it before it says so; builders read pinned commits later.  *)
(*                                                                         *)
(* Git itself is outside: a push may rewrite a ref, and objects that no    *)
(* pin and no fetch holds may be pruned with any fetch.  A command of git  *)
(* may fail or take too long, and a process may die at any step, which     *)
(* gives up its lock.                                                      *)
(***************************************************************************)
EXTENDS Naturals, Sequences, FiniteSets

CONSTANTS
    Process, Ref, Revision,
    Tracks,        \* [Process -> Ref]: tracked_ref
    MaxRevisions,  \* pushes and faults are counted to here
    MaxSyncs       \* syncs and reads that end

(* A process tracks one ref, and no process or commit is called "none".    *)
ConstantsOK == Tracks \in [Process -> Ref] /\ "none" \notin Process \cup Revision

VARIABLES
    tip,      \* [Ref -> Revision], at the remote
    clone,    \* cache_root: "none", "half" (an init that did not end) or "ready"
    objects,  \* the commits whose objects the clone has
    fetched,  \* FETCH_HEAD: a commit, or "none"
    pins,     \* refs/antisentinel/pinned/
    lock,     \* the process in _cache_lock(), or "none"
    step,     \* [Process -> where it is: "idle", "ensure", "fetch", "parse", "pin", "read"]
    commit,   \* [Process -> the commit it parsed or reads, or "none"]
    known,    \* [Process -> _verified_commits]
    seen,     \* the tips of a process's ref since it began
    synced,   \* the commits a sync has returned
    wrong,    \* a sync returned a commit that was not its ref's, or a read found nothing
    changes, ended

gitState == <<tip, clone, objects, fetched, pins, lock, step, commit, known, seen, synced, wrong, changes, ended>>

GitInit ==
    /\ \E r \in Revision : tip = [f \in Ref |-> r]
    /\ clone = "none" /\ objects = {} /\ fetched = "none" /\ pins = {} /\ lock = "none"
    /\ step = [p \in Process |-> "idle"] /\ commit = [p \in Process |-> "none"] /\ known = [p \in Process |-> {}]
    /\ seen = [p \in Process |-> {}] /\ synced = {} /\ wrong = FALSE /\ changes = 0 /\ ended = 0

(* Mutant: a process does not wait for the lock.                           *)
FreeAlways == TRUE

(* _cache_lock(): an exclusive lock of a file beside the clone.            *)
LockFree == lock = "none"

Push(f) ==
    /\ changes < MaxRevisions /\ changes' = changes + 1
    /\ \E r \in Revision \ {tip[f]} :
          /\ tip' = [tip EXCEPT ![f] = r]
          /\ seen' = [p \in Process |-> IF Tracks[p] = f /\ step[p] # "idle" THEN seen[p] \cup {r} ELSE seen[p]]
    /\ UNCHANGED <<clone, objects, fetched, pins, lock, step, commit, known, synced, wrong, ended>>

-----------------------------------------------------------------------------
(* sync_ref(): the steps in the lock.                                      *)
Go(p, to) == step' = [step EXCEPT ![p] = to]
Leave(p) == lock' = "none" /\ Go(p, "idle") /\ ended' = ended + 1

Begin(p) ==
    /\ step[p] = "idle" /\ LockFree /\ ended < MaxSyncs
    /\ lock' = p /\ Go(p, "ensure") /\ commit' = [commit EXCEPT ![p] = "none"]
    /\ seen' = [seen EXCEPT ![p] = {tip[Tracks[p]]}]
    /\ UNCHANGED <<tip, clone, objects, fetched, pins, known, synced, wrong, changes, ended>>

(* _ensure_cache(): a directory that exists is taken for a clone.          *)
Ensure(p) ==
    /\ step[p] = "ensure" /\ clone \in {"none", "ready"}
    /\ clone' = "ready" /\ Go(p, "fetch")
    /\ UNCHANGED <<tip, objects, fetched, pins, lock, commit, known, seen, synced, wrong, changes, ended>>

(* Nothing but what a pin or FETCH_HEAD holds outlives a prune.            *)
Fetch(p) ==
    /\ step[p] = "fetch"
    /\ fetched' = tip[Tracks[p]]
    /\ \E pruned \in SUBSET (objects \ (pins \cup {fetched'})) : objects' = (objects \ pruned) \cup {fetched'}
    /\ Go(p, "parse")
    /\ UNCHANGED <<tip, clone, pins, lock, commit, known, seen, synced, wrong, changes, ended>>

RevParse(p) ==
    /\ step[p] = "parse" /\ commit' = [commit EXCEPT ![p] = fetched] /\ Go(p, "pin")
    /\ UNCHANGED <<tip, clone, objects, fetched, pins, lock, known, seen, synced, wrong, changes, ended>>

Returned(p) ==
    /\ synced' = synced \cup {commit[p]} /\ wrong' = (wrong \/ commit[p] \notin seen[p])

(* Mutant: the commit is returned as it was parsed.                        *)
PinNothing(p) ==
    /\ step[p] = "pin" /\ Returned(p) /\ Leave(p)
    /\ UNCHANGED <<tip, clone, objects, fetched, pins, commit, known, seen, changes>>

(* _pin_locked()                                                           *)
Pin(p) ==
    /\ step[p] = "pin" /\ commit[p] \in objects
    /\ pins' = pins \cup {commit[p]} /\ known' = [known EXCEPT ![p] = @ \cup {commit[p]}]
    /\ Returned(p) /\ Leave(p)
    /\ UNCHANGED <<tip, clone, objects, fetched, commit, seen, changes>>

(* A command fails or is too late, or the process dies: what it was to do  *)
(* may be done, an init may leave a directory or not.                      *)
Fault(p) ==
    /\ step[p] # "idle" /\ changes < MaxRevisions /\ changes' = changes + 1
    /\ clone' \in (IF step[p] = "ensure" /\ clone = "none" THEN {"none", "half"} ELSE {clone})
    /\ fetched' \in (IF step[p] = "fetch" THEN {fetched, tip[Tracks[p]]} ELSE {fetched})
    /\ objects' = objects \cup ({fetched'} \ {"none"})
    /\ pins' \in (IF step[p] = "pin" THEN {pins, pins \cup {commit[p]}} ELSE {pins})
    /\ known' \in {known, [known EXCEPT ![p] = {}]}
    /\ Leave(p)
    /\ UNCHANGED <<tip, commit, seen, synced, wrong>>

(* No command of git succeeds in a clone that is half made.                *)
Broken(p) ==
    /\ step[p] = "ensure" /\ clone = "half" /\ Leave(p)
    /\ UNCHANGED <<tip, clone, objects, fetched, pins, commit, known, seen, synced, wrong, changes>>

-----------------------------------------------------------------------------
(* list_tree(), read_blob() and diff_paths() of a builder: a commit is     *)
(* verified once, in each process.                                         *)
Open(p) ==
    /\ step[p] = "idle" /\ LockFree /\ ended < MaxSyncs
    /\ \E c \in synced : commit' = [commit EXCEPT ![p] = c]
    /\ lock' = p /\ Go(p, "read")
    /\ UNCHANGED <<tip, clone, objects, fetched, pins, known, seen, synced, wrong, changes, ended>>

ReadObjects(p) ==
    /\ step[p] = "read"
    /\ known' = [known EXCEPT ![p] = @ \cup (objects \cap {commit[p]})]
    /\ wrong' = (wrong \/ commit[p] \notin objects)
    /\ Leave(p)
    /\ UNCHANGED <<tip, clone, objects, fetched, pins, commit, seen, synced, changes>>

GitNext ==
    \/ \E f \in Ref : Push(f)
    \/ \E p \in Process :
          Begin(p) \/ Ensure(p) \/ Fetch(p) \/ RevParse(p) \/ Pin(p) \/ Fault(p) \/ Broken(p) \/ Open(p) \/ ReadObjects(p)

(* What a sync returned was its own ref's commit at some time of the sync, *)
(* and its objects are there for every later build, whatever is pushed,    *)
(* pruned or broken off; and a commit that a process has verified is one   *)
(* it can still read.                                                      *)
CloneIsSound ==
    /\ ~wrong /\ synced \subseteq pins /\ pins \subseteq objects
    /\ \A p \in Process : known[p] \subseteq objects
    /\ clone # "ready" => synced = {}
=============================================================================
