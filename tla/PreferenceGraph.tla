--------------------------- MODULE PreferenceGraph ---------------------------
(***************************************************************************)
(* PreferenceGraph: what one operator prefers for one subject and          *)
(* predicate.  Every preference is kept three times: in the store, in a    *)
(* cache that may outlive the process, and in the process.  An upsert      *)
(* changes them one after the other, and any of its writes may be refused. *)
(***************************************************************************)
EXTENDS Integers, Sequences

CONSTANTS
    Object,      \* what may be preferred
    Confidence,  \* how sure a classification may be of it
    MaxUpserts   \* bound

(* A confidence is a number, and no more than a number here.               *)
ConstantsOK == Confidence \subseteq Int /\ MaxUpserts \in Nat

VARIABLES
    durable,  \* the records in the store, in the order of their making
    cached,   \* the list in the cache, <<>> when there is none
    copy,     \* _records of the process
    todo,     \* the writes to the store an upsert has still to make
    caching,  \* the upsert has still to refresh the cache
    upserts,  \* upserts begun, from which new_memory_id() takes its ids
    stale     \* history: a write was refused, or a process died in an upsert
              \* whose cache lived on

graphVars == <<durable, cached, copy, todo, caching, upserts, stale>>

Init ==
    /\ durable = <<>> /\ cached = <<>> /\ copy = <<>>
    /\ todo = <<>> /\ caching = FALSE /\ upserts = 0 /\ stale = FALSE

Quiet == todo = <<>> /\ ~caching

(* append() and replace() of the store, and of the list in the process: a  *)
(* record takes the place of the one with its id.                          *)
Put(list, r) ==
    IF \E k \in DOMAIN list : list[k].id = r.id
    THEN [k \in DOMAIN list |-> IF list[k].id = r.id THEN r ELSE list[k]]
    ELSE Append(list, r)

(* _load(): the cache before the process, and the process before the store *)
Loaded == IF cached # <<>> THEN cached ELSE IF copy # <<>> THEN copy ELSE durable

Active(list) == {k \in DOMAIN list : list[k].status = "active"}
First(places) == CHOOSE k \in places : \A j \in places : k <= j

(* A contradiction of less confidence than what it contradicts.            *)
Weaker(c, active) == active.object # c.object /\ c.confidence < active.confidence

(* The records an upsert writes, in this order: a conflict; the merged     *)
(* record; the record that is superseded and then the new one; or only the *)
(* new one.                                                                *)
Writes(c, list) ==
    LET new == [id |-> upserts + 1, object |-> c.object, confidence |-> c.confidence,
                status |-> "active", version |-> 1, against |-> 0]
    IN  IF Active(list) = {} THEN <<new>>
        ELSE LET active == list[First(Active(list))]
                 newer == active.version + 1
             IN  CASE Weaker(c, active) ->
                          <<[new EXCEPT !.status = "conflict", !.version = newer, !.against = active.id]>>
                   [] active.object = c.object ->
                          <<[active EXCEPT !.confidence = IF c.confidence > @ THEN c.confidence ELSE @,
                                           !.version = newer]>>
                   [] OTHER -> <<[active EXCEPT !.status = "superseded"], [new EXCEPT !.version = newer]>>

(* upsert() loads, and changes its list in the process before it writes.   *)
Begin(c) ==
    /\ Quiet /\ upserts < MaxUpserts
    /\ upserts' = upserts + 1
    /\ todo' = Writes(c, Loaded)
    /\ copy' = Put(Loaded, Head(todo'))
    /\ cached' = Loaded
    /\ UNCHANGED <<durable, caching, stale>>

Write ==
    /\ todo # <<>>
    /\ durable' = Put(durable, Head(todo))
    /\ todo' = Tail(todo)
    /\ IF Tail(todo) = <<>> THEN caching' = TRUE /\ UNCHANGED copy
       ELSE copy' = Put(copy, todo[2]) /\ UNCHANGED caching
    /\ UNCHANGED <<cached, upserts, stale>>

(* Mutant: the cache is left as it was loaded.                             *)
KeepCache ==
    /\ caching
    /\ caching' = FALSE
    /\ UNCHANGED <<durable, cached, copy, todo, upserts, stale>>

Refresh ==
    /\ caching
    /\ cached' = copy
    /\ caching' = FALSE
    /\ UNCHANGED <<durable, copy, todo, upserts, stale>>

(* The store, or the cache, raises: the upsert ends, and the list of the   *)
(* process keeps what was not written.                                     *)
Refused ==
    /\ ~Quiet
    /\ todo' = <<>> /\ caching' = FALSE /\ stale' = TRUE
    /\ UNCHANGED <<durable, cached, copy, upserts>>

(* The entry expires, or the cache cannot be reached when it is read.      *)
Expires ==
    /\ cached # <<>>
    /\ cached' = <<>>
    /\ UNCHANGED <<durable, copy, todo, caching, upserts, stale>>

(* The process dies; the cache dies with it, or is Redis.                  *)
Restart ==
    /\ copy' = <<>> /\ todo' = <<>> /\ caching' = FALSE
    /\ \/ cached' = <<>> /\ UNCHANGED stale
       \/ UNCHANGED cached /\ stale' = (stale \/ (~Quiet /\ cached # <<>>))
    /\ UNCHANGED <<durable, upserts>>

Next ==
    \/ \E o \in Object, n \in Confidence : Begin([object |-> o, confidence |-> n])
    \/ Write \/ Refresh \/ Refused \/ Expires \/ Restart

-----------------------------------------------------------------------------
TypeOK ==
    /\ \A list \in {durable, cached, copy, todo} : \A k \in DOMAIN list :
          list[k].id \in 1..MaxUpserts /\ list[k].confidence \in Confidence
    /\ Len(todo) <= 2 /\ caching \in BOOLEAN /\ stale \in BOOLEAN

(* The operator never prefers two things at once.                          *)
OneActivePreference == ~stale => \A j, k \in Active(durable) : j = k

(* Between upserts the cache and the process, where they have a list, have *)
(* the one of the store.                                                   *)
CopiesAgree == ~stale /\ Quiet => cached \in {<<>>, durable} /\ copy \in {<<>>, durable}

(* A conflict names a record of the store, which was the surer one.        *)
ConflictsAreRecorded == ~stale => \A k \in DOMAIN durable :
    durable[k].status = "conflict" =>
        \E n \in DOMAIN durable : /\ durable[n].id = durable[k].against
                                  /\ durable[n].confidence > durable[k].confidence
                                  /\ durable[n].object # durable[k].object

(* The three places a preference is kept in agree, as far as no write was  *)
(* refused and no cache outlived an upsert: after that the store may name  *)
(* two active preferences, or a conflict with a record it does not have.   *)
PreferencesAgree == TypeOK /\ OneActivePreference /\ CopiesAgree /\ ConflictsAreRecorded
=============================================================================
