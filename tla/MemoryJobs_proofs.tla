-------------------------- MODULE MemoryJobs_proofs --------------------------
(***************************************************************************)
(* Proofs about MemoryJobs for any number of jobs and workers, any         *)
(* candidates and any number of interruptions.  No command but the claim   *)
(* looks at who holds a lease; what keeps the jobs apart is that a job is  *)
(* in one place at a time, until a lease lapses under its holder.          *)
(* PreferenceGraph, VectorProjection and SessionTimeline follow.           *)
(***************************************************************************)
EXTENDS MemoryJobs, Integers, FiniteSetTheorems, SequenceTheorems, WellFoundedInduction, TLAPS

Index == UNION {DOMAIN Candidates[j] : j \in Job}
JobType == [status : {"absent", "pending", "processing"} \cup Final, attempts : Nat]
WorkerType == [at : Places \cup {"idle"}, job : Job \cup {"none"}, attempts : Nat,
               kept : SUBSET Index, left : SUBSET Index]

TypeInv ==
    /\ producer \in [Job -> {"new", "written", "queued", "dead"}]
    /\ hash \in [Job -> JobType]
    /\ pending \in [Job -> {"out", "waiting", "due"}]
    /\ processing \in [Job -> {"out", "live", "lapsed"}]
    /\ worker \in [Worker -> WorkerType]
    /\ errors \in [Worker -> BOOLEAN]
    /\ stopped \in [Worker -> {"no", "drained", "undrained"}]
    /\ stored \in [Job -> SUBSET Index] /\ \A j \in Job : stored[j] \subseteq DOMAIN Candidates[j]
    /\ trouble \in [Job -> Nat]

Holds(w, j) == worker[w].at # "idle" /\ worker[w].job = j

(* What a worker has in hand: what it keeps is stored or still to be.      *)
WorkerOK(w) ==
    \/ worker[w] = Resting
    \/ /\ worker[w].at # "idle" /\ worker[w].job \in Job
       /\ worker[w].left \subseteq DOMAIN Candidates[worker[w].job]
       /\ worker[w].kept \subseteq stored[worker[w].job] \cup worker[w].left

WorkerInv == \A w \in Worker : WorkerOK(w)

(* The five places of a job.                                               *)

Unclaimed(j) == \A w \in Worker : ~Holds(w, j)

Unlisted(j) ==
    /\ producer[j] # "queued" /\ hash[j].status \notin Final
    /\ producer[j] = "new" => hash[j].status = "absent"
    /\ pending[j] = "out" /\ processing[j] = "out" /\ Unclaimed(j)

Listed(j) ==
    /\ producer[j] = "queued" /\ hash[j].status \notin Final
    /\ pending[j] # "out" /\ processing[j] = "out" /\ Unclaimed(j)

Left(j) ==
    /\ producer[j] = "queued" /\ hash[j].status \notin Final
    /\ pending[j] = "out" /\ processing[j] # "out" /\ Unclaimed(j)

Leased == {"claimed", "working", "raised", "rewriting", "releasing", "removing"}

HeldBy(w, j) ==
    /\ producer[j] = "queued" /\ hash[j].status \notin Final /\ pending[j] = "out"
    /\ Holds(w, j) /\ \A v \in Worker : Holds(v, j) => v = w
    /\ processing[j] = IF worker[w].at \in Leased THEN "live" ELSE "out"
    /\ worker[w].at \in {"claimed", "working", "raised", "rewriting"} => worker[w].attempts = hash[j].attempts
    /\ worker[w].at = "rewriting" => hash[j].attempts < 2

Held(j) == \E w \in Worker : HeldBy(w, j)

Over(j) ==
    /\ producer[j] = "queued" /\ pending[j] = "out" /\ processing[j] = "out" /\ Unclaimed(j)
    /\ hash[j].status \in Final \/ j \in torn

(* Until its lease lapses under its holder a job is in one of them.        *)
InOnePlace(j) == hash[j].attempts <= 2 /\ (Unlisted(j) \/ Listed(j) \/ Left(j) \/ Held(j) \/ Over(j))

PlaceInv == \A j \in Job : j \notin late => InOnePlace(j)

IInv == TypeInv /\ WorkerInv /\ PlaceInv
-----------------------------------------------------------------------------
(* Jobs and workers that a step leaves alone                               *)

LEMMA Rows ==
    ASSUME IInv
    PROVE  /\ \A w \in Worker : worker[w] \in WorkerType /\ WorkerOK(w)
           /\ \A j \in Job : /\ hash[j] \in JobType /\ stored[j] \subseteq DOMAIN Candidates[j]
                             /\ pending[j] \in {"out", "waiting", "due"} /\ processing[j] \in {"out", "live", "lapsed"}
           /\ \A j \in Job : j \notin late => InOnePlace(j)
BY DEF IInv, TypeInv, WorkerInv, PlaceInv

LEMMA JobStays ==
    ASSUME NEW j, InOnePlace(j), hash'[j] = hash[j], pending'[j] = pending[j], processing'[j] = processing[j],
           producer'[j] = producer[j], j \in torn => j \in torn',
           \A w \in Worker : worker'[w] = worker[w] \/ ~(Holds(w, j) \/ (worker'[w].at # "idle" /\ worker'[w].job = j))
    PROVE  InOnePlace(j)'
<1>1. \A w \in Worker : Holds(w, j)' <=> Holds(w, j)
    BY DEF Holds
<1>2. Unclaimed(j) => Unclaimed(j)'
    BY <1>1 DEF Unclaimed
<1>3. CASE Unlisted(j)
    BY <1>2, <1>3 DEF InOnePlace, Unlisted
<1>4. CASE Listed(j)
    BY <1>2, <1>4 DEF InOnePlace, Listed
<1>5. CASE Left(j)
    BY <1>2, <1>5 DEF InOnePlace, Left
<1>6. CASE Held(j)
    <2>1. PICK w \in Worker : HeldBy(w, j)
        BY <1>6 DEF Held
    <2>2. worker'[w] = worker[w]
        BY <2>1 DEF HeldBy
    <2>3. HeldBy(w, j)'
        BY <1>1, <2>1, <2>2 DEF HeldBy
    <2> QED BY <2>3 DEF InOnePlace, Held
<1>7. CASE Over(j)
    BY <1>2, <1>7 DEF InOnePlace, Over
<1> QED BY <1>3, <1>4, <1>5, <1>6, <1>7 DEF InOnePlace

(* Whoever holds a job that is not late is its only holder.                *)
LEMMA Alone ==
    ASSUME IInv, NEW w \in Worker, NEW j \in Job, Holds(w, j), j \notin late
    PROVE  HeldBy(w, j) /\ hash[j].attempts <= 2
<1>1. InOnePlace(j) /\ ~Unclaimed(j)
    BY Rows DEF Unclaimed
<1>2. Held(j)
    BY <1>1 DEF InOnePlace, Unlisted, Listed, Left, Over
<1> QED BY <1>1, <1>2 DEF Held, HeldBy, InOnePlace

LEMMA InWork ==
    ASSUME IInv, NEW w \in Worker, worker[w] # Resting
    PROVE  /\ worker[w].at # "idle" /\ worker[w].job \in Job /\ Holds(w, worker[w].job) /\ worker[w] \in WorkerType
           /\ worker[w].left \subseteq DOMAIN Candidates[worker[w].job]
           /\ worker[w].kept \subseteq stored[worker[w].job] \cup worker[w].left
BY Rows DEF WorkerOK, Holds

-----------------------------------------------------------------------------
(* A step of the worker w on its job j: it goes on with it or leaves it.   *)
LEMMA OwnStep ==
    ASSUME IInv, NEW w \in Worker, NEW j \in Job, Holds(w, j), NEW rec \in WorkerType,
           worker' = [worker EXCEPT ![w] = rec],
           \/ rec = Resting
           \/ /\ rec.at # "idle" /\ rec.job = j
              /\ rec.left \subseteq DOMAIN Candidates[j] /\ rec.kept \subseteq stored'[j] \cup rec.left,
           hash' \in [Job -> JobType], pending' \in [Job -> {"out", "waiting", "due"}],
           processing' \in [Job -> {"out", "live", "lapsed"}],
           \A k \in Job \ {j} : hash'[k] = hash[k] /\ pending'[k] = pending[k] /\ processing'[k] = processing[k],
           \A k \in Job : stored[k] \subseteq stored'[k] /\ stored'[k] \subseteq DOMAIN Candidates[k],
           stored' \in [Job -> SUBSET Index], errors' \in [Worker -> BOOLEAN], trouble' \in [Job -> Nat],
           producer' = producer, stopped' = stopped, late' = late, torn \subseteq torn',
           j \notin late /\ HeldBy(w, j) /\ hash[j].attempts <= 2 => InOnePlace(j)'
    PROVE  IInv'
<1>1. worker' \in [Worker -> WorkerType] /\ worker'[w] = rec /\ \A v \in Worker \ {w} : worker'[v] = worker[v]
    BY DEF IInv, TypeInv
<1>2. TypeInv'
    BY <1>1 DEF IInv, TypeInv
<1>3. WorkerInv'
    <2>1. ASSUME NEW v \in Worker \ {w} PROVE WorkerOK(v)'
        BY <1>1, Rows DEF WorkerOK, Resting
    <2>2. WorkerOK(w)'
        BY <1>1 DEF WorkerOK, Resting
    <2> QED BY <2>1, <2>2 DEF WorkerInv
<1>4. PlaceInv'
    <2> SUFFICES ASSUME NEW k \in Job, k \notin late' PROVE InOnePlace(k)'
        BY DEF PlaceInv
    <2>1. CASE k = j
        BY <2>1, Alone
    <2>2. CASE k # j
        <3>1. InOnePlace(k) /\ hash'[k] = hash[k] /\ pending'[k] = pending[k] /\ processing'[k] = processing[k] /\ producer'[k] = producer[k]
            BY <2>2, Rows
        <3>2. \A v \in Worker : worker'[v] = worker[v] \/ ~(Holds(v, k) \/ (worker'[v].at # "idle" /\ worker'[v].job = k))
            BY <1>1, <2>2 DEF Holds, Resting
        <3> QED BY <3>1, <3>2, JobStays
    <2> QED BY <2>1, <2>2
<1> QED BY <1>2, <1>3, <1>4 DEF IInv

(* The holder of j goes on, or leaves it to nobody.                        *)
LEMMA HolderMoves ==
    ASSUME IInv, NEW w \in Worker, NEW j \in Job, HeldBy(w, j), NEW rec, worker' = [worker EXCEPT ![w] = rec]
    PROVE  /\ rec.at # "idle" /\ rec.job = j => Holds(w, j)' /\ \A v \in Worker : Holds(v, j)' => v = w
           /\ rec = Resting => Unclaimed(j)'
           /\ worker'[w] = rec
BY DEF IInv, TypeInv, HeldBy, Holds, Unclaimed, Resting

LEMMA BeginStep == ASSUME IInv, NEW w \in Worker, Begin(w) PROVE IInv'
<1> PICK x : x = worker[w]
    OBVIOUS
<1> PICK j : j = x.job
    OBVIOUS
<1>1. x # Resting /\ x.at = "claimed" /\ x.job \in Job /\ Holds(w, j) /\ x \in WorkerType /\ j \in Job
    BY InWork DEF Begin, Resting
<1>2. PICK kept \in SUBSET DOMAIN Candidates[j] : worker' = [worker EXCEPT ![w].at = "working", ![w].kept = kept, ![w].left = kept]
    BY DEF Begin
<1>3. PICK rec : rec = [x EXCEPT !.at = "working", !.kept = kept, !.left = kept]
    OBVIOUS
<1>4. worker' = [worker EXCEPT ![w] = rec]
    BY <1>2, <1>3 DEF IInv, TypeInv
<1>5. kept \in SUBSET Index
    BY <1>1 DEF Index
<1>6. rec \in WorkerType /\ rec.at = "working" /\ rec.job = j /\ rec.kept = kept /\ rec.left = kept /\ rec.attempts = x.attempts
    BY <1>1, <1>3, <1>5 DEF WorkerType, Places
<1>7. PICK h : h = [hash[j] EXCEPT !.status = "processing"]
    OBVIOUS
<1>8. h \in JobType /\ h.status = "processing" /\ h.attempts = hash[j].attempts
    BY <1>1, <1>7, Rows DEF JobType
<1>9. hash' = [hash EXCEPT ![j] = h]
    BY <1>7 DEF Begin, IInv, TypeInv
<1>10. hash' \in [Job -> JobType] /\ hash'[j] = h /\ \A k \in Job \ {j} : hash'[k] = hash[k]
    BY <1>1, <1>8, <1>9 DEF IInv, TypeInv
<1>11. UNCHANGED <<producer, pending, processing, errors, stopped, stored, torn, late, trouble>>
    BY DEF Begin, setVars, historyVars
<1>12. ASSUME HeldBy(w, j), hash[j].attempts <= 2 PROVE InOnePlace(j)'
    <2>1. Holds(w, j)' /\ (\A v \in Worker : Holds(v, j)' => v = w) /\ worker'[w] = rec
        BY ZenonT(60), <1>1, <1>4, <1>6, <1>8, <1>10, <1>11, <1>12, HolderMoves
    <2>2. HeldBy(w, j)'
        BY <1>1, <1>4, <1>6, <1>8, <1>10, <1>11, <1>12, <2>1 DEF HeldBy, Leased, Final
    <2> QED BY <1>1, <1>8, <1>10, <1>12, <2>2 DEF InOnePlace, Held
<1> QED BY <1>1, <1>4, <1>6, <1>10, <1>11, <1>12, OwnStep DEF IInv, TypeInv

LEMMA WriteCandidateStep == ASSUME IInv, NEW w \in Worker, WriteCandidate(w) PROVE IInv'
<1> PICK x : x = worker[w]
    OBVIOUS
<1> PICK j : j = x.job
    OBVIOUS
<1>1. /\ x # Resting /\ x.at = "working" /\ x.job \in Job /\ Holds(w, j) /\ x \in WorkerType /\ j \in Job
      /\ x.left \subseteq DOMAIN Candidates[j] /\ x.kept \subseteq stored[j] \cup x.left
    BY InWork DEF WriteCandidate, Resting
<1>2. PICK c \in x.left : /\ stored' = [stored EXCEPT ![j] = @ \cup {c}]
                          /\ worker' = [worker EXCEPT ![w].left = @ \ {c}]
    BY DEF WriteCandidate
<1>3. PICK rec : rec = [x EXCEPT !.left = x.left \ {c}]
    OBVIOUS
<1>4. worker' = [worker EXCEPT ![w] = rec]
    BY <1>2, <1>3 DEF IInv, TypeInv
<1>5. rec \in WorkerType /\ rec.at = "working" /\ rec.job = j /\ rec.kept = x.kept /\ rec.left = x.left \ {c} /\ rec.attempts = x.attempts
    BY <1>1, <1>3 DEF WorkerType
<1>6. UNCHANGED <<producer, hash, pending, processing, errors, stopped, torn, late, trouble>>
    BY DEF WriteCandidate, setVars, historyVars
<1>7. /\ stored' \in [Job -> SUBSET Index] /\ stored'[j] = stored[j] \cup {c}
      /\ \A k \in Job : stored[k] \subseteq stored'[k] /\ stored'[k] \subseteq DOMAIN Candidates[k]
    <2>1. stored \in [Job -> SUBSET Index] /\ c \in Index /\ c \in DOMAIN Candidates[j]
        BY <1>1, <1>2 DEF IInv, TypeInv, Index
    <2> QED BY <1>1, <1>2, <2>1, Rows
<1>8. ASSUME HeldBy(w, j), hash[j].attempts <= 2 PROVE InOnePlace(j)'
    <2>1. Holds(w, j)' /\ (\A v \in Worker : Holds(v, j)' => v = w) /\ worker'[w] = rec
        BY <1>1, <1>4, <1>5, <1>6, <1>8, HolderMoves
    <2>2. HeldBy(w, j)'
        BY <1>1, <1>4, <1>5, <1>6, <1>8, <2>1 DEF HeldBy, Leased
    <2> QED BY <1>1, <1>6, <1>8, <2>2 DEF InOnePlace, Held
<1> QED BY <1>1, <1>4, <1>5, <1>6, <1>7, <1>8, OwnStep DEF IInv, TypeInv

(* The steps that only move the worker on.                                 *)
LEMMA MovesStep ==
    ASSUME IInv, NEW w \in Worker, NEW to \in Places,
           worker[w].at \in {"working", "raised"}, to \in {"raised", "removing"},
           worker' = [worker EXCEPT ![w].at = to],
           UNCHANGED <<producer, hash, pending, processing, errors, stopped, stored, torn, late, trouble>>
    PROVE  IInv'
<1> PICK x : x = worker[w]
    OBVIOUS
<1> PICK j : j = x.job
    OBVIOUS
<1>1. /\ x # Resting /\ x.job \in Job /\ Holds(w, j) /\ x \in WorkerType /\ j \in Job
      /\ x.left \subseteq DOMAIN Candidates[j] /\ x.kept \subseteq stored[j] \cup x.left
    BY InWork DEF Resting
<1>2. PICK rec : rec = [x EXCEPT !.at = to]
    OBVIOUS
<1>3. worker' = [worker EXCEPT ![w] = rec]
    BY <1>2 DEF IInv, TypeInv
<1>4. rec \in WorkerType /\ rec.at = to /\ rec.job = j /\ rec.kept = x.kept /\ rec.left = x.left /\ rec.attempts = x.attempts
    BY <1>1, <1>2 DEF WorkerType
<1>5. ASSUME HeldBy(w, j), hash[j].attempts <= 2 PROVE InOnePlace(j)'
    <2>1. Holds(w, j)' /\ (\A v \in Worker : Holds(v, j)' => v = w) /\ worker'[w] = rec
        BY <1>1, <1>3, <1>4, <1>5, HolderMoves
    <2>2. HeldBy(w, j)'
        BY <1>1, <1>3, <1>4, <1>5, <2>1 DEF HeldBy, Leased
    <2> QED BY <1>1, <1>5, <2>2 DEF InOnePlace, Held
<1>6. rec.at # "idle" /\ UNCHANGED <<producer, hash, pending, processing, errors, stopped, stored, torn, late, trouble>>
    BY <1>4 DEF Places
<1>7. /\ hash' \in [Job -> JobType] /\ pending' \in [Job -> {"out", "waiting", "due"}]
      /\ processing' \in [Job -> {"out", "live", "lapsed"}] /\ stored' \in [Job -> SUBSET Index]
      /\ errors' \in [Worker -> BOOLEAN] /\ trouble' \in [Job -> Nat]
      /\ \A k \in Job : stored[k] \subseteq stored'[k] /\ stored'[k] \subseteq DOMAIN Candidates[k]
    BY <1>6 DEF IInv, TypeInv
<1> QED BY ZenonT(60), <1>1, <1>3, <1>4, <1>5, <1>6, <1>7, OwnStep

LEMMA ReadAgainStep == ASSUME IInv, NEW w \in Worker, ReadAgain(w) PROVE IInv'
<1> PICK x : x = worker[w]
    OBVIOUS
<1> PICK j : j = x.job
    OBVIOUS
<1>1. /\ x # Resting /\ x.at = "raised" /\ x.attempts < 2 /\ x.job \in Job /\ Holds(w, j) /\ x \in WorkerType /\ j \in Job
      /\ x.left \subseteq DOMAIN Candidates[j] /\ x.kept \subseteq stored[j] \cup x.left
    BY InWork DEF ReadAgain, MayRetry, Resting
<1>2. PICK rec : rec = [x EXCEPT !.at = "rewriting", !.attempts = hash[j].attempts]
    OBVIOUS
<1>3. worker' = [worker EXCEPT ![w] = rec]
    BY <1>2 DEF ReadAgain, IInv, TypeInv
<1>4. hash[j].attempts \in Nat
    BY <1>1, Rows DEF JobType
<1>5. rec \in WorkerType /\ rec.at = "rewriting" /\ rec.job = j /\ rec.kept = x.kept /\ rec.left = x.left /\ rec.attempts = hash[j].attempts
    BY <1>1, <1>2, <1>4 DEF WorkerType, Places
<1>6. UNCHANGED <<producer, hash, pending, processing, errors, stopped, stored, torn, late, trouble>>
    BY DEF ReadAgain, setVars, historyVars
<1>7. ASSUME HeldBy(w, j), hash[j].attempts <= 2 PROVE InOnePlace(j)'
    <2>1. Holds(w, j)' /\ (\A v \in Worker : Holds(v, j)' => v = w) /\ worker'[w] = rec
        BY <1>1, <1>3, <1>5, <1>6, <1>7, HolderMoves
    <2>2. HeldBy(w, j)'
        BY <1>1, <1>3, <1>5, <1>6, <1>7, <2>1 DEF HeldBy, Leased
    <2> QED BY <1>1, <1>6, <1>7, <2>2 DEF InOnePlace, Held
<1> QED BY <1>1, <1>3, <1>5, <1>6, <1>7, OwnStep DEF IInv, TypeInv

LEMMA RewriteStep == ASSUME IInv, NEW w \in Worker, Rewrite(w) PROVE IInv'
<1> PICK x : x = worker[w]
    OBVIOUS
<1> PICK j : j = x.job
    OBVIOUS
<1>1. /\ x # Resting /\ x.at = "rewriting" /\ x.job \in Job /\ Holds(w, j) /\ x \in WorkerType /\ j \in Job
      /\ x.left \subseteq DOMAIN Candidates[j] /\ x.kept \subseteq stored[j] \cup x.left
    BY InWork DEF Rewrite, Moves, Resting
<1>2. PICK rec : rec = [x EXCEPT !.at = "releasing"]
    OBVIOUS
<1>3. worker' = [worker EXCEPT ![w] = rec]
    BY <1>2 DEF Rewrite, Moves, IInv, TypeInv
<1>4. rec \in WorkerType /\ rec.at = "releasing" /\ rec.job = j /\ rec.kept = x.kept /\ rec.left = x.left /\ rec.attempts = x.attempts
    BY <1>1, <1>2 DEF WorkerType, Places
<1>5. hash' \in [Job -> JobType] /\ hash'[j] = [status |-> "pending", attempts |-> x.attempts + 1] /\ \A k \in Job \ {j} : hash'[k] = hash[k]
    <2>1. PICK h : h = [status |-> "pending", attempts |-> x.attempts + 1]
        OBVIOUS
    <2>2. h \in JobType
        BY <1>1, <2>1 DEF JobType, WorkerType
    <2>3. hash' = [hash EXCEPT ![j] = h]
        BY <2>1 DEF Rewrite
    <2> QED BY <1>1, <2>1, <2>2, <2>3 DEF IInv, TypeInv
<1>6. UNCHANGED <<producer, pending, processing, errors, stopped, stored, torn, late, trouble>>
    BY DEF Rewrite, Moves, setVars, historyVars
<1>7. ASSUME HeldBy(w, j), hash[j].attempts <= 2 PROVE InOnePlace(j)'
    <2>1. Holds(w, j)' /\ (\A v \in Worker : Holds(v, j)' => v = w) /\ worker'[w] = rec
        BY <1>1, <1>3, <1>4, <1>7, HolderMoves DEF Places
    <2>2. HeldBy(w, j)'
        BY <1>1, <1>4, <1>5, <1>6, <1>7, <2>1 DEF HeldBy, Leased, Final
    <2>3. x.attempts = hash[j].attempts /\ hash[j].attempts < 2 /\ hash[j].attempts \in Nat
        BY <1>1, <1>7, Rows DEF HeldBy, JobType
    <2>4. hash'[j].attempts <= 2
        BY <1>5, <2>3
    <2> QED BY <2>2, <2>4 DEF InOnePlace, Held
<1>8. /\ pending' \in [Job -> {"out", "waiting", "due"}]
      /\ processing' \in [Job -> {"out", "live", "lapsed"}]
      /\ stored' \in [Job -> SUBSET Index]
      /\ errors' \in [Worker -> BOOLEAN]
      /\ trouble' \in [Job -> Nat]
      /\ \A k \in Job : stored[k] \subseteq stored'[k] /\ stored'[k] \subseteq DOMAIN Candidates[k]
    BY <1>5, <1>6 DEF IInv, TypeInv
<1>9. /\ \A k \in Job \ {j} : hash'[k] = hash[k] /\ pending'[k] = pending[k] /\ processing'[k] = processing[k]
      /\ hash' \in [Job -> JobType] /\ pending' \in [Job -> {"out", "waiting", "due"}] /\ processing' \in [Job -> {"out", "live", "lapsed"}]
      /\ rec.at # "idle" /\ rec.job = j /\ rec.left \subseteq DOMAIN Candidates[j] /\ rec.kept \subseteq stored'[j] \cup rec.left
    BY <1>1, <1>4, <1>5, <1>6, <1>8
<1> QED BY <1>1, <1>3, <1>4, <1>6, <1>7, <1>8, <1>9, OwnStep

LEMMA ReleaseStep == ASSUME IInv, NEW w \in Worker, Release(w) PROVE IInv'
<1> PICK x : x = worker[w]
    OBVIOUS
<1> PICK j : j = x.job
    OBVIOUS
<1>1. /\ x # Resting /\ x.at = "releasing" /\ x.job \in Job /\ Holds(w, j) /\ x \in WorkerType /\ j \in Job
      /\ x.left \subseteq DOMAIN Candidates[j] /\ x.kept \subseteq stored[j] \cup x.left
    BY InWork DEF Release, Moves, Resting
<1>2. PICK rec : rec = [x EXCEPT !.at = "rescheduling"]
    OBVIOUS
<1>3. worker' = [worker EXCEPT ![w] = rec]
    BY <1>2 DEF Release, Moves, IInv, TypeInv
<1>4. rec \in WorkerType /\ rec.at = "rescheduling" /\ rec.job = j /\ rec.kept = x.kept /\ rec.left = x.left /\ rec.attempts = x.attempts
    BY <1>1, <1>2 DEF WorkerType, Places
<1>5. processing' \in [Job -> {"out", "live", "lapsed"}] /\ processing'[j] = "out" /\ \A k \in Job \ {j} : processing'[k] = processing[k]
    BY <1>1 DEF Release, Moves, IInv, TypeInv
<1>6. UNCHANGED <<producer, hash, pending, errors, stopped, stored, torn, late, trouble>>
    BY DEF Release, Moves, setVars, historyVars
<1>7. ASSUME HeldBy(w, j), hash[j].attempts <= 2 PROVE InOnePlace(j)'
    <2>1. Holds(w, j)' /\ (\A v \in Worker : Holds(v, j)' => v = w) /\ worker'[w] = rec
        BY <1>1, <1>3, <1>4, <1>7, HolderMoves DEF Places
    <2>2. HeldBy(w, j)'
        BY <1>1, <1>4, <1>5, <1>6, <1>7, <2>1 DEF HeldBy, Leased
    <2> QED BY <1>1, <1>5, <1>6, <1>7, <2>2 DEF InOnePlace, Held
<1>8. /\ hash' \in [Job -> JobType]
      /\ pending' \in [Job -> {"out", "waiting", "due"}]
      /\ stored' \in [Job -> SUBSET Index]
      /\ errors' \in [Worker -> BOOLEAN]
      /\ trouble' \in [Job -> Nat]
      /\ \A k \in Job : stored[k] \subseteq stored'[k] /\ stored'[k] \subseteq DOMAIN Candidates[k]
    BY <1>5, <1>6 DEF IInv, TypeInv
<1>9. /\ \A k \in Job \ {j} : hash'[k] = hash[k] /\ pending'[k] = pending[k] /\ processing'[k] = processing[k]
      /\ hash' \in [Job -> JobType] /\ pending' \in [Job -> {"out", "waiting", "due"}] /\ processing' \in [Job -> {"out", "live", "lapsed"}]
      /\ rec.at # "idle" /\ rec.job = j /\ rec.left \subseteq DOMAIN Candidates[j] /\ rec.kept \subseteq stored'[j] \cup rec.left
    BY <1>1, <1>4, <1>5, <1>6, <1>8
<1> QED BY <1>1, <1>3, <1>4, <1>6, <1>7, <1>8, <1>9, OwnStep

LEMMA RescheduleStep == ASSUME IInv, NEW w \in Worker, Reschedule(w) PROVE IInv'
<1> PICK x : x = worker[w]
    OBVIOUS
<1> PICK j : j = x.job
    OBVIOUS
<1>1. /\ x # Resting /\ x.at = "rescheduling" /\ x.job \in Job /\ Holds(w, j) /\ x \in WorkerType /\ j \in Job
      /\ x.left \subseteq DOMAIN Candidates[j] /\ x.kept \subseteq stored[j] \cup x.left
    BY InWork DEF Reschedule, Resting
<1>2. worker' = [worker EXCEPT ![w] = Resting] /\ Resting \in WorkerType
    BY DEF Reschedule, WorkerType, Resting
<1>5. pending' \in [Job -> {"out", "waiting", "due"}] /\ pending'[j] = "waiting" /\ \A k \in Job \ {j} : pending'[k] = pending[k]
    BY <1>1 DEF Reschedule, IInv, TypeInv
<1>6. UNCHANGED <<producer, hash, processing, errors, stopped, stored, torn, late, trouble>>
    BY DEF Reschedule, setVars, historyVars
<1>7. ASSUME HeldBy(w, j), hash[j].attempts <= 2 PROVE InOnePlace(j)'
    <2>1. Unclaimed(j)'
        <3>1. w \in Worker /\ j \in Job /\ HeldBy(w, j)
            BY <1>1, <1>7
        <3> QED BY <1>2, <3>1, HolderMoves
    <2> QED BY <1>1, <1>5, <1>6, <1>7, <2>1 DEF HeldBy, Leased, InOnePlace, Listed
<1>8. /\ hash' \in [Job -> JobType]
      /\ processing' \in [Job -> {"out", "live", "lapsed"}]
      /\ stored' \in [Job -> SUBSET Index]
      /\ errors' \in [Worker -> BOOLEAN]
      /\ trouble' \in [Job -> Nat]
      /\ \A k \in Job : stored[k] \subseteq stored'[k] /\ stored'[k] \subseteq DOMAIN Candidates[k]
    BY <1>5, <1>6 DEF IInv, TypeInv
<1>9. /\ \A k \in Job \ {j} : hash'[k] = hash[k] /\ pending'[k] = pending[k] /\ processing'[k] = processing[k]
      /\ hash' \in [Job -> JobType] /\ pending' \in [Job -> {"out", "waiting", "due"}] /\ processing' \in [Job -> {"out", "live", "lapsed"}]
    BY <1>1, <1>5, <1>6, <1>8
<1> QED BY <1>1, <1>2, <1>6, <1>7, <1>8, <1>9, OwnStep

LEMMA RevokeStep == ASSUME IInv, NEW w \in Worker, Revoke(w) PROVE IInv'
<1> PICK x : x = worker[w]
    OBVIOUS
<1> PICK j : j = x.job
    OBVIOUS
<1>1. /\ x # Resting /\ x.at = "removing" /\ x.job \in Job /\ Holds(w, j) /\ x \in WorkerType /\ j \in Job
      /\ x.left \subseteq DOMAIN Candidates[j] /\ x.kept \subseteq stored[j] \cup x.left
    BY InWork DEF Revoke, Moves, Resting
<1>2. PICK rec : rec = [x EXCEPT !.at = "unlisting"]
    OBVIOUS
<1>3. worker' = [worker EXCEPT ![w] = rec]
    BY <1>2 DEF Revoke, Moves, IInv, TypeInv
<1>4. rec \in WorkerType /\ rec.at = "unlisting" /\ rec.job = j /\ rec.kept = x.kept /\ rec.left = x.left /\ rec.attempts = x.attempts
    BY <1>1, <1>2 DEF WorkerType, Places
<1>5. processing' \in [Job -> {"out", "live", "lapsed"}] /\ processing'[j] = "out" /\ \A k \in Job \ {j} : processing'[k] = processing[k]
    BY <1>1 DEF Revoke, Moves, IInv, TypeInv
<1>6. UNCHANGED <<producer, hash, pending, errors, stopped, stored, torn, late, trouble>>
    BY DEF Revoke, Moves, setVars, historyVars
<1>7. ASSUME HeldBy(w, j), hash[j].attempts <= 2 PROVE InOnePlace(j)'
    <2>1. Holds(w, j)' /\ (\A v \in Worker : Holds(v, j)' => v = w) /\ worker'[w] = rec
        BY <1>1, <1>3, <1>4, <1>7, HolderMoves DEF Places
    <2>2. HeldBy(w, j)'
        BY <1>1, <1>4, <1>5, <1>6, <1>7, <2>1 DEF HeldBy, Leased
    <2> QED BY <1>1, <1>5, <1>6, <1>7, <2>2 DEF InOnePlace, Held
<1>8. /\ hash' \in [Job -> JobType]
      /\ pending' \in [Job -> {"out", "waiting", "due"}]
      /\ stored' \in [Job -> SUBSET Index]
      /\ errors' \in [Worker -> BOOLEAN]
      /\ trouble' \in [Job -> Nat]
      /\ \A k \in Job : stored[k] \subseteq stored'[k] /\ stored'[k] \subseteq DOMAIN Candidates[k]
    BY <1>5, <1>6 DEF IInv, TypeInv
<1>9. /\ \A k \in Job \ {j} : hash'[k] = hash[k] /\ pending'[k] = pending[k] /\ processing'[k] = processing[k]
      /\ hash' \in [Job -> JobType] /\ pending' \in [Job -> {"out", "waiting", "due"}] /\ processing' \in [Job -> {"out", "live", "lapsed"}]
      /\ rec.at # "idle" /\ rec.job = j /\ rec.left \subseteq DOMAIN Candidates[j] /\ rec.kept \subseteq stored'[j] \cup rec.left
    BY <1>1, <1>4, <1>5, <1>6, <1>8
<1> QED BY <1>1, <1>3, <1>4, <1>6, <1>7, <1>8, <1>9, OwnStep

LEMMA UnlistStep == ASSUME IInv, NEW w \in Worker, Unlist(w) PROVE IInv'
<1> PICK x : x = worker[w]
    OBVIOUS
<1> PICK j : j = x.job
    OBVIOUS
<1>1. /\ x # Resting /\ x.at = "unlisting" /\ x.job \in Job /\ Holds(w, j) /\ x \in WorkerType /\ j \in Job
      /\ x.left \subseteq DOMAIN Candidates[j] /\ x.kept \subseteq stored[j] \cup x.left
    BY InWork DEF Unlist, Moves, Resting
<1>2. PICK rec : rec = [x EXCEPT !.at = "closing"]
    OBVIOUS
<1>3. worker' = [worker EXCEPT ![w] = rec]
    BY <1>2 DEF Unlist, Moves, IInv, TypeInv
<1>4. rec \in WorkerType /\ rec.at = "closing" /\ rec.job = j /\ rec.kept = x.kept /\ rec.left = x.left /\ rec.attempts = x.attempts
    BY <1>1, <1>2 DEF WorkerType, Places
<1>5. pending' \in [Job -> {"out", "waiting", "due"}] /\ pending'[j] = "out" /\ \A k \in Job \ {j} : pending'[k] = pending[k]
    BY <1>1 DEF Unlist, Moves, IInv, TypeInv
<1>6. UNCHANGED <<producer, hash, processing, errors, stopped, stored, torn, late, trouble>>
    BY DEF Unlist, Moves, setVars, historyVars
<1>7. ASSUME HeldBy(w, j), hash[j].attempts <= 2 PROVE InOnePlace(j)'
    <2>1. Holds(w, j)' /\ (\A v \in Worker : Holds(v, j)' => v = w) /\ worker'[w] = rec
        BY <1>1, <1>3, <1>4, <1>7, HolderMoves DEF Places
    <2>2. HeldBy(w, j)'
        BY <1>1, <1>4, <1>5, <1>6, <1>7, <2>1 DEF HeldBy, Leased
    <2> QED BY <1>1, <1>5, <1>6, <1>7, <2>2 DEF InOnePlace, Held
<1>8. /\ hash' \in [Job -> JobType]
      /\ processing' \in [Job -> {"out", "live", "lapsed"}]
      /\ stored' \in [Job -> SUBSET Index]
      /\ errors' \in [Worker -> BOOLEAN]
      /\ trouble' \in [Job -> Nat]
      /\ \A k \in Job : stored[k] \subseteq stored'[k] /\ stored'[k] \subseteq DOMAIN Candidates[k]
    BY <1>5, <1>6 DEF IInv, TypeInv
<1>9. /\ \A k \in Job \ {j} : hash'[k] = hash[k] /\ pending'[k] = pending[k] /\ processing'[k] = processing[k]
      /\ hash' \in [Job -> JobType] /\ pending' \in [Job -> {"out", "waiting", "due"}] /\ processing' \in [Job -> {"out", "live", "lapsed"}]
      /\ rec.at # "idle" /\ rec.job = j /\ rec.left \subseteq DOMAIN Candidates[j] /\ rec.kept \subseteq stored'[j] \cup rec.left
    BY <1>1, <1>4, <1>5, <1>6, <1>8
<1> QED BY <1>1, <1>3, <1>4, <1>6, <1>7, <1>8, <1>9, OwnStep

LEMMA CloseStep == ASSUME IInv, NEW w \in Worker, Close(w) PROVE IInv'
<1> PICK x : x = worker[w]
    OBVIOUS
<1> PICK j : j = x.job
    OBVIOUS
<1>1. /\ x # Resting /\ x.at = "closing" /\ x.job \in Job /\ Holds(w, j) /\ x \in WorkerType /\ j \in Job
      /\ x.left \subseteq DOMAIN Candidates[j] /\ x.kept \subseteq stored[j] \cup x.left
    BY InWork DEF Close, Resting
<1>2. worker' = [worker EXCEPT ![w] = Resting] /\ Resting \in WorkerType
    BY DEF Close, WorkerType, Resting
<1>5. /\ hash' \in [Job -> JobType] /\ hash'[j].status \in Final /\ hash'[j].attempts = hash[j].attempts
      /\ \A k \in Job \ {j} : hash'[k] = hash[k]
    <2>1. PICK s : s = IF worker[w].left = {} THEN "completed" ELSE "failed"
        OBVIOUS
    <2>2. PICK h : h = [hash[j] EXCEPT !.status = s]
        OBVIOUS
    <2>3. h \in JobType /\ h.status \in Final /\ h.attempts = hash[j].attempts
        BY <1>1, <2>1, <2>2, Rows DEF JobType, Final
    <2>4. hash' = [hash EXCEPT ![j] = h]
        BY <2>1, <2>2 DEF Close, IInv, TypeInv
    <2> QED BY <1>1, <2>3, <2>4 DEF IInv, TypeInv
<1>6. UNCHANGED <<producer, pending, processing, errors, stopped, stored, torn, late, trouble>>
    BY DEF Close, setVars, historyVars
<1>7. ASSUME HeldBy(w, j), hash[j].attempts <= 2 PROVE InOnePlace(j)'
    <2>1. Unclaimed(j)'
        <3>1. w \in Worker /\ j \in Job /\ HeldBy(w, j)
            BY <1>1, <1>7
        <3> QED BY <1>2, <3>1, HolderMoves
    <2> QED BY <1>1, <1>5, <1>6, <1>7, <2>1 DEF HeldBy, Leased, InOnePlace, Over
<1>8. /\ pending' \in [Job -> {"out", "waiting", "due"}]
      /\ processing' \in [Job -> {"out", "live", "lapsed"}]
      /\ stored' \in [Job -> SUBSET Index]
      /\ errors' \in [Worker -> BOOLEAN]
      /\ trouble' \in [Job -> Nat]
      /\ \A k \in Job : stored[k] \subseteq stored'[k] /\ stored'[k] \subseteq DOMAIN Candidates[k]
    BY <1>5, <1>6 DEF IInv, TypeInv
<1>9. /\ \A k \in Job \ {j} : hash'[k] = hash[k] /\ pending'[k] = pending[k] /\ processing'[k] = processing[k]
      /\ hash' \in [Job -> JobType] /\ pending' \in [Job -> {"out", "waiting", "due"}] /\ processing' \in [Job -> {"out", "live", "lapsed"}]
    BY <1>1, <1>5, <1>6, <1>8
<1> QED BY <1>1, <1>2, <1>6, <1>7, <1>8, <1>9, OwnStep

(* Whoever is interrupted before it gave the lease up leaves the job to    *)
(* whoever takes it back; after that the job is torn.                      *)
LEMMA InterruptStep == ASSUME IInv, NEW w \in Worker, Interrupt(w) PROVE IInv'
<1> PICK x : x = worker[w]
    OBVIOUS
<1> PICK j : j = x.job
    OBVIOUS
<1>1. x # Resting /\ x.job \in Job /\ Holds(w, j) /\ x \in WorkerType /\ j \in Job /\ x.at \in Places
    BY InWork DEF Interrupt, WorkerType
<1>2. worker' = [worker EXCEPT ![w] = Resting] /\ Resting \in WorkerType
    BY DEF Interrupt, WorkerType, Resting
<1>3. UNCHANGED <<producer, hash, pending, processing, stopped, stored, late>>
    BY DEF Interrupt, setVars
<1>4. /\ torn \subseteq torn' /\ (x.at \in {"rescheduling", "unlisting", "closing"} => j \in torn')
      /\ errors' \in [Worker -> BOOLEAN] /\ trouble' \in [Job -> Nat]
    <2>1. torn \subseteq torn' /\ (x.at \in {"rescheduling", "unlisting", "closing"} => j \in torn')
        BY DEF Interrupt
    <2>2. errors' \in [Worker -> BOOLEAN]
        BY DEF Interrupt, IInv, TypeInv
    <2>3. trouble' \in [Job -> Nat]
        BY <1>1 DEF Interrupt, Troubled, IInv, TypeInv
    <2> QED BY <2>1, <2>2, <2>3
<1>5. ASSUME HeldBy(w, j), hash[j].attempts <= 2 PROVE InOnePlace(j)'
    <2>1. Unclaimed(j)'
        BY <1>1, <1>2, <1>5, HolderMoves
    <2>2. CASE x.at \in {"rescheduling", "unlisting", "closing"}
        BY <1>1, <1>3, <1>4, <1>5, <2>1, <2>2 DEF HeldBy, Leased, InOnePlace, Over
    <2>3. CASE x.at \in Leased
        BY <1>1, <1>3, <1>5, <2>1, <2>3 DEF HeldBy, Leased, InOnePlace, Left
    <2> QED BY <1>1, <2>2, <2>3 DEF Places, Leased
<1>6. /\ hash' \in [Job -> JobType] /\ pending' \in [Job -> {"out", "waiting", "due"}]
      /\ processing' \in [Job -> {"out", "live", "lapsed"}] /\ stored' \in [Job -> SUBSET Index]
      /\ \A k \in Job : stored[k] \subseteq stored'[k] /\ stored'[k] \subseteq DOMAIN Candidates[k]
    BY <1>3 DEF IInv, TypeInv
<1> QED BY <1>1, <1>2, <1>3, <1>4, <1>5, <1>6, OwnStep

-----------------------------------------------------------------------------
(* Claims                                                                  *)

LEMMA ClaimStep == ASSUME IInv, NEW w \in Worker, Claim(w) PROVE IInv'
<1>1. PICK back \in TakenBack : \E l \in back \cup {k \in Job : pending[k] = "due"} :
         /\ pending' = [k \in Job |-> IF k = l THEN "out" ELSE IF k \in back THEN "due" ELSE pending[k]]
         /\ processing' = [k \in Job |-> IF k = l THEN "live" ELSE IF k \in back THEN "out" ELSE processing[k]]
         /\ worker' = [worker EXCEPT ![w] = [Resting EXCEPT !.at = "claimed", !.job = l, !.attempts = hash[l].attempts]]
    BY DEF Claim
<1>2. PICK j \in back \cup {k \in Job : pending[k] = "due"} :
         /\ pending' = [k \in Job |-> IF k = j THEN "out" ELSE IF k \in back THEN "due" ELSE pending[k]]
         /\ processing' = [k \in Job |-> IF k = j THEN "live" ELSE IF k \in back THEN "out" ELSE processing[k]]
         /\ worker' = [worker EXCEPT ![w] = [Resting EXCEPT !.at = "claimed", !.job = j, !.attempts = hash[j].attempts]]
    BY <1>1
<1>3. back \subseteq Lapsed /\ Lapsed \subseteq Job /\ \A k \in back : processing[k] = "lapsed"
    BY DEF TakenBack, Lapsed
<1>4. j \in Job
    BY <1>2, <1>3
<1>5. PICK rec : rec = [Resting EXCEPT !.at = "claimed", !.job = j, !.attempts = hash[j].attempts]
    OBVIOUS
<1>6. worker' = [worker EXCEPT ![w] = rec] /\ worker[w] = Resting
    BY <1>2, <1>5 DEF Claim
<1>7. hash[j].attempts \in Nat
    BY <1>4, Rows DEF JobType
<1>8. /\ rec \in WorkerType /\ rec.at = "claimed" /\ rec.job = j /\ rec.attempts = hash[j].attempts
      /\ rec.kept = {} /\ rec.left = {}
    BY <1>4, <1>5, <1>7 DEF WorkerType, Resting, Places
<1>9. UNCHANGED <<producer, hash, errors, stopped, stored, torn, late, trouble>>
    BY DEF Claim, historyVars
<1>10. worker' \in [Worker -> WorkerType] /\ worker'[w] = rec /\ \A v \in Worker \ {w} : worker'[v] = worker[v]
    BY <1>6, <1>8 DEF IInv, TypeInv
<1>11. /\ pending' \in [Job -> {"out", "waiting", "due"}] /\ processing' \in [Job -> {"out", "live", "lapsed"}]
       /\ pending'[j] = "out" /\ processing'[j] = "live"
       /\ \A k \in Job \ {j} : \/ pending'[k] = pending[k] /\ processing'[k] = processing[k]
                               \/ k \in back /\ pending'[k] = "due" /\ processing'[k] = "out"
    BY <1>2, <1>4 DEF IInv, TypeInv
<1>12. TypeInv'
    BY <1>9, <1>10, <1>11 DEF IInv, TypeInv
<1>13. WorkerInv'
    <2>1. ASSUME NEW v \in Worker \ {w} PROVE WorkerOK(v)'
        BY <1>9, <1>10, Rows DEF WorkerOK, Resting
    <2>2. WorkerOK(w)'
        BY <1>4, <1>8, <1>10 DEF WorkerOK
    <2> QED BY <2>1, <2>2 DEF WorkerInv
<1>14. \A v \in Worker : Holds(v, j)' <=> Holds(v, j) \/ v = w
    BY <1>6, <1>8, <1>10 DEF Holds
<1>15. \A k \in Job \ {j} : Unclaimed(k) => Unclaimed(k)'
    BY <1>8, <1>10 DEF Unclaimed, Holds
<1>16. ASSUME NEW k \in Job, k \notin late, k \in back
       PROVE  Left(k) /\ hash[k].attempts <= 2
    BY <1>3, <1>16, Rows DEF InOnePlace, Unlisted, Listed, Held, HeldBy, Over, Leased
<1>17. ASSUME j \notin late PROVE InOnePlace(j)'
    <2>1. /\ Listed(j) \/ Left(j)
          /\ hash[j].attempts <= 2
        <3>1. CASE j \in back
            BY <1>4, <1>16, <1>17, <3>1
        <3>2. CASE pending[j] = "due"
            BY <1>4, <1>17, <3>2, Rows DEF InOnePlace, Unlisted, Left, Held, HeldBy, Over
        <3> QED BY <1>2, <3>1, <3>2
    <2>2. producer[j] = "queued" /\ hash[j].status \notin Final /\ Unclaimed(j)
        BY <2>1 DEF Listed, Left
    <2>3. Holds(w, j)' /\ \A v \in Worker : Holds(v, j)' => v = w
        BY <1>14, <2>2 DEF Unclaimed
    <2>4. HeldBy(w, j)'
        BY <1>8, <1>9, <1>10, <1>11, <2>2, <2>3 DEF HeldBy, Leased
    <2> QED BY <1>9, <2>1, <2>4 DEF InOnePlace, Held
<1>18. ASSUME NEW k \in Job \ {j}, k \notin late PROVE InOnePlace(k)'
    <2>1. CASE pending'[k] = pending[k] /\ processing'[k] = processing[k]
        <3>1. \A v \in Worker : worker'[v] = worker[v] \/ ~(Holds(v, k) \/ (worker'[v].at # "idle" /\ worker'[v].job = k))
            BY <1>6, <1>8, <1>10 DEF Holds, Resting
        <3>2. InOnePlace(k) /\ hash'[k] = hash[k] /\ producer'[k] = producer[k] /\ torn' = torn
            BY <1>9, <1>18, Rows
        <3> QED BY <2>1, <3>1, <3>2, JobStays
    <2>2. CASE k \in back /\ pending'[k] = "due" /\ processing'[k] = "out"
        <3>1. Left(k) /\ hash[k].attempts <= 2
            BY <1>16, <1>18, <2>2
        <3>2. Listed(k)'
            BY <1>9, <1>15, <2>2, <3>1 DEF Left, Listed
        <3> QED BY <1>9, <3>1, <3>2 DEF InOnePlace
    <2> QED BY <1>11, <2>1, <2>2
<1>19. PlaceInv'
    BY <1>9, <1>17, <1>18 DEF PlaceInv
<1> QED BY <1>12, <1>13, <1>19 DEF IInv

-----------------------------------------------------------------------------
(* Steps of no worker: the producer, the clock, stop()                     *)

LEMMA QueueStep ==
    ASSUME IInv, NEW j \in Job, UNCHANGED <<worker, stored, torn>>, late \subseteq late',
           producer' \in [Job -> {"new", "written", "queued", "dead"}],
           hash' \in [Job -> JobType], pending' \in [Job -> {"out", "waiting", "due"}],
           processing' \in [Job -> {"out", "live", "lapsed"}],
           \A k \in Job \ {j} : hash'[k] = hash[k] /\ pending'[k] = pending[k] /\ processing'[k] = processing[k] /\ producer'[k] = producer[k],
           errors' \in [Worker -> BOOLEAN], trouble' \in [Job -> Nat], stopped' \in [Worker -> {"no", "drained", "undrained"}],
           j \notin late' /\ InOnePlace(j) => InOnePlace(j)'
    PROVE  IInv'
<1>1. TypeInv' /\ WorkerInv'
    BY DEF IInv, TypeInv, WorkerInv, WorkerOK
<1>2. ASSUME NEW k \in Job, k \notin late' PROVE InOnePlace(k)'
    <2>1. InOnePlace(k)
        BY <1>2, Rows
    <2>2. CASE k = j
        BY <1>2, <2>1, <2>2
    <2>3. CASE k # j
        BY <2>1, <2>3, JobStays
    <2> QED BY <2>2, <2>3
<1> QED BY <1>1, <1>2 DEF IInv, PlaceInv

LEMMA WriteStep == ASSUME IInv, NEW j \in Job, Write(j) PROVE IInv'
<1>1. UNCHANGED <<pending, processing, worker, errors, stopped, stored, torn, late, trouble>>
    BY DEF Write, setVars, historyVars
<1>2. PICK h : h = [status |-> "pending", attempts |-> 0]
    OBVIOUS
<1>3. h \in JobType /\ h.status = "pending" /\ h.attempts = 0
    BY <1>2 DEF JobType
<1>4. producer' = [producer EXCEPT ![j] = "written"] /\ hash' = [hash EXCEPT ![j] = h] /\ producer[j] = "new"
    BY <1>2 DEF Write
<1>5. /\ producer' \in [Job -> {"new", "written", "queued", "dead"}] /\ hash' \in [Job -> JobType]
      /\ producer'[j] = "written" /\ hash'[j] = h
      /\ \A k \in Job \ {j} : hash'[k] = hash[k] /\ producer'[k] = producer[k]
    BY <1>3, <1>4 DEF IInv, TypeInv
<1>6. ASSUME InOnePlace(j) PROVE InOnePlace(j)'
    <2>1. Unlisted(j)
        BY <1>4, <1>6 DEF InOnePlace, Listed, Left, Held, HeldBy, Over
    <2>2. Unlisted(j)'
        BY <1>1, <1>3, <1>5, <2>1 DEF Unlisted, Unclaimed, Holds, Final
    <2> QED BY <1>3, <1>5, <2>2 DEF InOnePlace
<1> QED BY <1>1, <1>5, <1>6, QueueStep DEF IInv, TypeInv

LEMMA ListStep == ASSUME IInv, NEW j \in Job, List(j) PROVE IInv'
<1>1. UNCHANGED <<hash, processing, worker, errors, stopped, stored, torn, late, trouble>>
    BY DEF List, historyVars
<1>2. /\ producer' \in [Job -> {"new", "written", "queued", "dead"}] /\ pending' \in [Job -> {"out", "waiting", "due"}]
      /\ producer[j] = "written" /\ producer'[j] = "queued" /\ pending'[j] = "due"
      /\ \A k \in Job \ {j} : pending'[k] = pending[k] /\ producer'[k] = producer[k]
    BY DEF List, IInv, TypeInv
<1>3. ASSUME InOnePlace(j) PROVE InOnePlace(j)'
    <2>1. Unlisted(j)
        BY <1>2, <1>3 DEF InOnePlace, Listed, Left, Held, HeldBy, Over
    <2>2. Listed(j)'
        BY <1>1, <1>2, <2>1 DEF Unlisted, Listed, Unclaimed, Holds
    <2> QED BY <1>1, <1>3, <2>2 DEF InOnePlace
<1> QED BY <1>1, <1>2, <1>3, QueueStep DEF IInv, TypeInv

LEMMA AbandonStep == ASSUME IInv, NEW j \in Job, Abandon(j) PROVE IInv'
<1>1. UNCHANGED <<hash, pending, processing, worker, errors, stopped, stored, torn, late>>
    BY DEF Abandon, setVars
<1>2. /\ producer' \in [Job -> {"new", "written", "queued", "dead"}] /\ trouble' \in [Job -> Nat]
      /\ producer[j] = "written" /\ producer'[j] = "dead" /\ \A k \in Job \ {j} : producer'[k] = producer[k]
    BY DEF Abandon, Troubled, IInv, TypeInv
<1>3. ASSUME InOnePlace(j) PROVE InOnePlace(j)'
    <2>1. Unlisted(j)
        BY <1>2, <1>3 DEF InOnePlace, Listed, Left, Held, HeldBy, Over
    <2>2. Unlisted(j)'
        BY <1>1, <1>2, <2>1 DEF Unlisted, Unclaimed, Holds
    <2> QED BY <1>1, <1>3, <2>2 DEF InOnePlace
<1> QED BY <1>1, <1>2, <1>3, QueueStep DEF IInv, TypeInv

LEMMA ComesDueStep == ASSUME IInv, NEW j \in Job, ComesDue(j) PROVE IInv'
<1>1. UNCHANGED <<producer, hash, processing, worker, errors, stopped, stored, torn, late, trouble>>
    BY DEF ComesDue, historyVars
<1>2. /\ pending' \in [Job -> {"out", "waiting", "due"}] /\ pending[j] = "waiting" /\ pending'[j] = "due"
      /\ \A k \in Job \ {j} : pending'[k] = pending[k]
    BY DEF ComesDue, IInv, TypeInv
<1>3. ASSUME InOnePlace(j) PROVE InOnePlace(j)'
    <2>1. Listed(j)
        BY <1>2, <1>3 DEF InOnePlace, Unlisted, Left, Held, HeldBy, Over
    <2>2. Listed(j)'
        BY <1>1, <1>2, <2>1 DEF Listed, Unclaimed, Holds
    <2> QED BY <1>1, <1>3, <2>2 DEF InOnePlace
<1> QED BY <1>1, <1>2, <1>3, QueueStep DEF IInv, TypeInv

(* A lease that lapses under its holder makes the job late.                *)
LEMMA LapsesStep == ASSUME IInv, NEW j \in Job, Lapses(j) PROVE IInv'
<1>1. UNCHANGED <<producer, hash, pending, worker, errors, stopped, stored, torn>>
    BY DEF Lapses
<1>2. /\ processing' \in [Job -> {"out", "live", "lapsed"}] /\ processing[j] = "live" /\ processing'[j] = "lapsed"
      /\ \A k \in Job \ {j} : processing'[k] = processing[k]
    BY DEF Lapses, IInv, TypeInv
<1>3. late \subseteq late' /\ trouble' \in [Job -> Nat] /\ (j \notin late' => Unclaimed(j))
    BY DEF Lapses, Troubled, Holders, Unclaimed, Holds, IInv, TypeInv
<1>4. ASSUME j \notin late', InOnePlace(j) PROVE InOnePlace(j)'
    <2>1. Left(j)
        BY <1>2, <1>3, <1>4 DEF InOnePlace, Unlisted, Listed, Held, HeldBy, Over, Unclaimed
    <2>2. Left(j)'
        BY <1>1, <1>2, <2>1 DEF Left, Unclaimed, Holds
    <2> QED BY <1>1, <1>4, <2>2 DEF InOnePlace
<1> QED BY <1>1, <1>2, <1>3, <1>4, QueueStep DEF IInv, TypeInv

LEMMA StopStep == ASSUME IInv, NEW w \in Worker, Stop(w) PROVE IInv'
<1>1. UNCHANGED <<producer, hash, pending, processing, worker, stored, torn, late, trouble>>
    BY DEF Stop, setVars, historyVars
<1>2. errors' \in [Worker -> BOOLEAN] /\ stopped' \in [Worker -> {"no", "drained", "undrained"}]
    BY DEF Stop, IInv, TypeInv
<1>3. TypeInv' /\ WorkerInv'
    BY <1>1, <1>2 DEF IInv, TypeInv, WorkerInv, WorkerOK
<1>4. PlaceInv'
    BY <1>1, Rows, JobStays DEF PlaceInv
<1> QED BY <1>3, <1>4 DEF IInv

-----------------------------------------------------------------------------
(* The inductive invariant, and what it gives                              *)

LEMMA Initially == Init => IInv
<1> SUFFICES ASSUME Init PROVE IInv
    OBVIOUS
<1>1. Resting \in WorkerType /\ [status |-> "absent", attempts |-> 0] \in JobType
    BY DEF Resting, WorkerType, JobType
<1>2. TypeInv
    BY <1>1 DEF Init, TypeInv
<1>3. WorkerInv
    BY DEF Init, WorkerInv, WorkerOK
<1>4. PlaceInv
    BY DEF Init, PlaceInv, InOnePlace, Unlisted, Unclaimed, Holds, Resting, Final
<1> QED BY <1>2, <1>3, <1>4 DEF IInv

LEMMA Steps == IInv /\ [Next]_jobVars => IInv'
<1> SUFFICES ASSUME IInv, [Next]_jobVars PROVE IInv'
    OBVIOUS
<1>1. ASSUME NEW w \in Worker, StoreRefuses(w) \/ Acknowledge(w) \/ GiveUp(w) PROVE IInv'
    <2>1. PICK to \in {"raised", "removing"} :
             worker[w].at \in {"working", "raised"} /\ worker' = [worker EXCEPT ![w].at = to]
        BY <1>1 DEF StoreRefuses, Acknowledge, GiveUp, Moves
    <2>2. UNCHANGED <<producer, hash, pending, processing, errors, stopped, stored, torn, late, trouble>>
        BY <1>1 DEF StoreRefuses, Acknowledge, GiveUp, Moves, setVars, historyVars
    <2>3. to \in Places
        BY DEF Places
    <2> QED BY <2>1, <2>2, <2>3, MovesStep
<1>2. ASSUME NEW w \in Worker, Work(w) PROVE IInv'
    BY <1>1, <1>2, ClaimStep, BeginStep, WriteCandidateStep, ReadAgainStep, RewriteStep, ReleaseStep, RescheduleStep,
       RevokeStep, UnlistStep, CloseStep DEF Work
<1>3. CASE UNCHANGED jobVars
    <2>1. UNCHANGED <<producer, hash, pending, processing, worker, errors, stopped, stored, torn, late, trouble>>
        BY <1>3 DEF jobVars, setVars, historyVars
    <2>2. TypeInv' /\ WorkerInv'
        BY <2>1 DEF IInv, TypeInv, WorkerInv, WorkerOK
    <2>3. PlaceInv'
        BY <2>1, Rows, JobStays DEF PlaceInv
    <2> QED BY <2>2, <2>3 DEF IInv
<1> QED BY <1>2, <1>3, InterruptStep, StopStep, WriteStep, ListStep, AbandonStep, ComesDueStep, LapsesStep DEF Next, Enqueue

(* Until a lease lapses under its holder every job is unlisted, listed,    *)
(* left under its lease, held by one worker, or over (Redis sets and hash  *)
(* of memory/jobs.py).                                                     *)
THEOREM JobsAreInOnePlace == Spec => []IInv
BY Initially, Steps, PTL DEF Spec

LEMMA HoldersAre == ASSUME NEW j PROVE Holders(j) = {w \in Worker : Holds(w, j)}
BY DEF Holders, Holds

(* A job's hash, its place in the two sets, the workers and the store fit, *)
(* whatever is interrupted: no job is forgotten, two workers share one     *)
(* only after a lapsed lease, what is acknowledged is stored, and a job is *)
(* tried three times (RedisMemoryJobQueue, process_one_memory_job).        *)
THEOREM JobsStaySound == Spec => []JobsAreSound
<1>1. IInv => JobsAreSound
    <2> SUFFICES ASSUME IInv PROVE JobsAreSound
        OBVIOUS
    <2>1. TypeOK
        <3>1. \A w \in Worker : worker[w].at \in Places \cup {"idle"}
            BY Rows DEF WorkerType
        <3> QED BY <3>1 DEF TypeOK, IInv, TypeInv, JobType
    <2>2. NoJobIsForgotten
        <3> SUFFICES ASSUME NEW j \in Job, j \notin late, producer[j] = "queued", pending[j] = "out", processing[j] = "out"
                     PROVE  Holders(j) # {} \/ hash[j].status \in Final \/ j \in torn
            BY DEF NoJobIsForgotten, IInv, TypeInv
        <3>1. InOnePlace(j)
            BY Rows
        <3>2. CASE Held(j)
            BY <3>2, HoldersAre DEF Held, HeldBy
        <3> QED BY <3>1, <3>2 DEF InOnePlace, Unlisted, Listed, Left, Over
    <2>3. OneHolder
        <3> SUFFICES ASSUME NEW j \in Job, j \notin late PROVE ~(Cardinality(Holders(j)) > 1)
            BY DEF OneHolder
        <3>1. CASE Holders(j) = {}
            BY <3>1, FS_EmptySet
        <3>2. CASE Holders(j) # {}
            <4>1. PICK w \in Worker : Holds(w, j)
                BY <3>2, HoldersAre
            <4>2. Holders(j) = {w}
                BY <4>1, HoldersAre, Alone DEF HeldBy
            <4> QED BY <4>2, FS_Singleton
        <3> QED BY <3>1, <3>2
    <2>4. AcknowledgedIsStored
        BY InWork DEF AcknowledgedIsStored, Resting
    <2>5. AttemptsAreBounded
        BY Rows DEF AttemptsAreBounded, InOnePlace
    <2> QED BY <2>1, <2>2, <2>3, <2>4, <2>5 DEF JobsAreSound
<1> QED BY <1>1, JobsAreInOnePlace, PTL

(* A queue that stop() calls drained has no job waiting or in work, except *)
(* between two commands of another worker, and a job that is over is not   *)
(* opened again unless its lease had lapsed (has_inflight, ack, fail).     *)
THEOREM WhatIsOverStaysOver == Spec => OverStaysOver
<1>1. IInv /\ [Next]_jobVars => \A w \in Worker : stopped'[w] = "drained" /\ stopped[w] = "no" =>
          \A j \in Job : \/ producer[j] # "queued" \/ hash[j].status \in Final
                         \/ j \in torn \cup late
                         \/ \E v \in Holders(j) : worker[v].at \in {"rescheduling", "unlisting", "closing"}
    <2> SUFFICES ASSUME IInv, [Next]_jobVars, NEW w \in Worker, stopped'[w] = "drained", stopped[w] = "no",
                        NEW j \in Job, producer[j] = "queued", hash[j].status \notin Final, j \notin torn \cup late
                 PROVE  \E v \in Holders(j) : worker[v].at \in {"rescheduling", "unlisting", "closing"}
        OBVIOUS
    <2>1. PICK u \in Worker : Stop(u) /\ stopped'[u] = "drained"
        <3>1. stopped' # stopped
            OBVIOUS
        <3>2. PICK u \in Worker : Stop(u)
            BY <3>1 DEF Next, jobVars, Enqueue, Write, List, Abandon, ComesDue, Lapses, Work, Claim, Begin, WriteCandidate,
                        StoreRefuses, Acknowledge, GiveUp, ReadAgain, Rewrite, Release, Reschedule, Revoke, Unlist, Close,
                        Moves, Interrupt
        <3>3. u = w
            BY <3>2 DEF Stop, IInv, TypeInv
        <3> QED BY <3>2, <3>3
    <2>2. pending[j] = "out" /\ processing[j] = "out"
        BY <2>1 DEF Stop, HasInflight, IInv, TypeInv
    <2>3. PICK v \in Worker : HeldBy(v, j)
        BY <2>2, Rows DEF InOnePlace, Unlisted, Listed, Left, Over, Held
    <2>4. worker[v].at \notin Leased /\ worker[v].at # "idle" /\ worker[v].at \in Places \cup {"idle"}
        BY <2>2, <2>3, Rows DEF HeldBy, Holds, WorkerType
    <2> QED BY <2>3, <2>4, HoldersAre DEF HeldBy, Leased, Places
<1>2. IInv /\ [Next]_jobVars => \A j \in Job : hash[j].status \in Final /\ j \notin late => hash'[j] = hash[j]
    <2> SUFFICES ASSUME IInv, [Next]_jobVars, NEW j \in Job, hash[j].status \in Final, j \notin late
                 PROVE  hash'[j] = hash[j]
        OBVIOUS
    <2>1. Over(j) /\ Unclaimed(j)
        BY Rows DEF InOnePlace, Unlisted, Listed, Left, Held, HeldBy, Over
    <2>2. ASSUME NEW w \in Worker, Begin(w) \/ Rewrite(w) \/ Close(w) PROVE hash'[j] = hash[j]
        <3>1. worker[w].at # "idle" /\ worker[w].job # j
            BY <2>1, <2>2 DEF Begin, Rewrite, Close, Moves, Unclaimed, Holds
        <3> QED BY <2>2, <3>1 DEF Begin, Rewrite, Close, IInv, TypeInv
    <2>3. ASSUME NEW k \in Job, Write(k) PROVE hash'[j] = hash[j]
        BY <2>1, <2>3 DEF Write, Over, IInv, TypeInv
    <2> QED BY <2>2, <2>3 DEF Next, jobVars, Enqueue, List, Abandon, ComesDue, Lapses, Work, Claim, WriteCandidate,
                StoreRefuses, Acknowledge, GiveUp, ReadAgain, Release, Reschedule, Revoke, Unlist, Moves, Interrupt, Stop
<1> QED BY <1>1, <1>2, JobsAreInOnePlace, PTL DEF Spec, OverStaysOver, DrainedIsDrained, OverIsOver
-----------------------------------------------------------------------------
(* What an operator prefers (PreferenceGraph).                             *)
CONSTANTS Object, Confidence, MaxUpserts
VARIABLES durable, cached, copy, todo, caching, upserts, stale
Graph == INSTANCE PreferenceGraph

Preference == [id : 1..MaxUpserts, object : Object, confidence : Confidence,
               status : {"active", "superseded", "conflict"}, version : Nat, against : Nat]

(* A list that was made by n upserts none of which was broken off.         *)
Distinct(list) == \A j, k \in DOMAIN list : list[j].id = list[k].id => j = k
Surer(list, k, n) ==
    list[n].id = list[k].against /\ list[n].confidence > list[k].confidence /\ list[n].object # list[k].object
ListOK(list, n) ==
    /\ Distinct(list) /\ \A k \in DOMAIN list : list[k].id <= n
    /\ \A j, k \in Graph!Active(list) : j = k
    /\ \A k \in DOMAIN list : list[k].status = "conflict" => \E m \in DOMAIN list : Surer(list, k, m)

GraphType ==
    /\ durable \in Seq(Preference) /\ cached \in Seq(Preference) /\ copy \in Seq(Preference)
    /\ todo \in Seq(Preference) /\ Len(todo) <= 2 /\ upserts \in 0..MaxUpserts
    /\ caching \in BOOLEAN /\ stale \in BOOLEAN /\ (caching => todo = <<>>)

(* An upsert that goes on has in the process what the store will have, and *)
(* each of its writes leaves a list that may be read.                      *)
UpsertInv ==
    /\ ListOK(durable, upserts)
    /\ todo # <<>> => /\ copy = Graph!Put(durable, todo[1])
                      /\ ListOK(Graph!Put(durable, todo[1]), upserts)
    /\ Len(todo) = 2 => ListOK(Graph!Put(Graph!Put(durable, todo[1]), todo[2]), upserts)
    /\ caching => copy = durable
    /\ Graph!Quiet => cached \in {<<>>, durable} /\ copy \in {<<>>, durable}

GraphInv == GraphType /\ (~stale => UpsertInv)

-----------------------------------------------------------------------------
(* Sequences of none and of one.                                           *)
LEMMA NoneIsEmpty == ASSUME NEW S, NEW s \in Seq(S), Len(s) = 0 PROVE s = <<>>
OBVIOUS
LEMMA OneIsSingle == ASSUME NEW S, NEW s \in Seq(S), Len(s) = 1 PROVE s = <<s[1]>>
OBVIOUS
LEMMA OneOrTwo ==
    ASSUME NEW S, NEW s \in Seq(S), s # <<>>, Len(s) <= 2
    PROVE  /\ Len(s) = 1 \/ Len(s) = 2
           /\ s[1] \in S /\ Tail(s) \in Seq(S) /\ Len(Tail(s)) = Len(s) - 1
           /\ Len(s) = 1 => Tail(s) = <<>>
           /\ Len(s) = 2 => s[2] \in S /\ Tail(s) = <<s[2]>>
<1>1. Len(s) \in Nat /\ Len(s) # 0
    OBVIOUS
<1>2. Len(s) = 1 \/ Len(s) = 2
    <2>1. PICK n \in Nat : n = Len(s)
        BY <1>1
    <2> QED BY <2>1, <1>1
<1>3. Tail(s) \in Seq(S) /\ Len(Tail(s)) = Len(s) - 1
    OBVIOUS
<1>4. ASSUME Len(s) = 1 PROVE Tail(s) = <<>>
    <2>1. Len(Tail(s)) = 0
        BY <1>3, <1>4
    <2> QED BY <1>3, <2>1, NoneIsEmpty
<1>5. s[1] \in S /\ (Len(s) = 2 => s[2] \in S)
    BY <1>1
<1>6. ASSUME Len(s) = 2 PROVE Tail(s) = <<s[2]>>
    <2>1. Tail(s)[1] = s[2]
        BY <1>6
    <2>2. Len(Tail(s)) = 1
        BY <1>3, <1>6
    <2> QED BY <1>3, <2>1, <2>2, OneIsSingle
<1> QED BY <1>2, <1>3, <1>4, <1>5, <1>6

LEMMA PutIsList ==
    ASSUME NEW list \in Seq(Preference), NEW r \in Preference
    PROVE  Graph!Put(list, r) \in Seq(Preference) /\ Graph!Put(list, r) # <<>>
<1>1. CASE \E k \in DOMAIN list : list[k].id = r.id
    <2> DEFINE new == [k \in 1..Len(list) |-> IF list[k].id = r.id THEN r ELSE list[k]]
    <2>1. Len(list) \in Nat /\ DOMAIN list = 1..Len(list) /\ \A k \in 1..Len(list) : list[k] \in Preference
        BY LenProperties, ElementOfSeq
    <2>2. new \in Seq(Preference) /\ Len(new) = Len(list) /\ Len(list) # 0
        BY <1>1, <2>1
    <2>3. Graph!Put(list, r) = new
        BY <1>1, <2>1 DEF Graph!Put
    <2> HIDE DEF new
    <2> QED BY <2>2, <2>3, EmptySeq
<1>2. CASE ~\E k \in DOMAIN list : list[k].id = r.id
    BY <1>2, AppendProperties DEF Graph!Put
<1> QED BY <1>1, <1>2

(* The first active preference is one.                                     *)
LEMMA FirstIsMember == ASSUME NEW S \in SUBSET Nat, S # {} PROVE Graph!First(S) \in S
<1> DEFINE Less == OpToRel(<, Nat)
<1>1. Less = {p \in Nat \X Nat : p[1] < p[2]}
    BY DEF OpToRel
<1>2. IsWellFoundedOn(Less, Nat)
    BY NatLessThanWellFounded
<1> HIDE DEF Less
<1>3. PICK x \in S : \A y \in S : ~ (<<y, x>> \in Less)
    BY <1>2, WFMin
<1>4. ASSUME NEW y \in S, y < x PROVE FALSE
    <2>1. <<y, x>> \in Nat \X Nat /\ <<y, x>>[1] = y /\ <<y, x>>[2] = x
        OBVIOUS
    <2>2. <<y, x>> \in Less
        BY <1>1, <1>4, <2>1
    <2> QED BY <1>3, <2>2
<1>5. \A y \in S : x <= y
    BY <1>4
<1> QED BY <1>5 DEF Graph!First

(* A record that has a new id.                                             *)
LEMMA NewRecord ==
    ASSUME NEW list \in Seq(Preference), NEW n \in Nat, ListOK(list, n), NEW r \in Preference, r.id = n + 1, Graph!ConstantsOK,
           \/ r.status = "active" /\ Graph!Active(list) = {}
           \/ /\ r.status = "conflict"
              /\ \E m \in DOMAIN list : list[m].id = r.against /\ list[m].confidence > r.confidence /\ list[m].object # r.object
    PROVE  ListOK(Graph!Put(list, r), n + 1)
<1> DEFINE new == Append(list, r)
<1>1. Len(list) \in Nat /\ DOMAIN list = 1..Len(list) /\ \A k \in 1..Len(list) : list[k] \in Preference
    BY LenProperties, ElementOfSeq
<1>2. \A k \in 1..Len(list) : list[k].id \in Nat /\ list[k].id <= n
    <2>1. \A k \in DOMAIN list : list[k].id <= n
        BY DEF ListOK
    <2>2. \A k \in 1..Len(list) : list[k].id \in 1..MaxUpserts
        BY <1>1 DEF Preference
    <2> QED BY <1>1, <2>1, <2>2 DEF Graph!ConstantsOK
<1>3. Graph!Put(list, r) = new
    <2>1. ~\E k \in DOMAIN list : list[k].id = r.id
        BY <1>1, <1>2
    <2> QED BY <2>1 DEF Graph!Put
<1>4. /\ DOMAIN new = 1..(Len(list) + 1) /\ new[Len(list) + 1] = r /\ \A k \in 1..Len(list) : new[k] = list[k]
      /\ new \in Seq(Preference)
    BY <1>1, AppendProperties, LenProperties
<1> HIDE DEF new
<1>5. Distinct(new) /\ \A k \in DOMAIN new : new[k].id <= n + 1
    <2>1. \A j, k \in 1..Len(list) : new[j].id = new[k].id => j = k
        BY <1>1, <1>4 DEF ListOK, Distinct
    <2>2. \A k \in 1..Len(list) : new[k].id \in Nat /\ new[k].id <= n
        BY <1>2, <1>4
    <2>3. new[Len(list) + 1].id = n + 1
        BY <1>4
    <2>4. \A k \in 1..Len(list) : new[k].id # new[Len(list) + 1].id /\ new[k].id <= n + 1
        BY <2>2, <2>3
    <2>5. \A k \in 1..(Len(list) + 1) : k \in 1..Len(list) \/ k = Len(list) + 1
        BY <1>1
    <2>6. new[Len(list) + 1].id <= n + 1
        BY <2>3
    <2> QED BY <1>4, <2>1, <2>4, <2>5, <2>6 DEF Distinct
<1>6. \A j, k \in Graph!Active(new) : j = k
    BY <1>1, <1>4 DEF ListOK, Graph!Active
<1>7. \A k \in DOMAIN new : new[k].status = "conflict" => \E m \in DOMAIN new : Surer(new, k, m)
    <2>1. ASSUME NEW k \in 1..Len(list), list[k].status = "conflict" PROVE \E m \in DOMAIN new : Surer(new, k, m)
        <3>1. PICK m \in 1..Len(list) : Surer(list, k, m)
            BY <1>1, <2>1 DEF ListOK
        <3> QED BY <1>1, <1>4, <3>1 DEF Surer
    <2>2. ASSUME r.status = "conflict" PROVE \E m \in DOMAIN new : Surer(new, Len(list) + 1, m)
        BY <1>1, <1>4, <2>2 DEF Surer
    <2> QED BY <1>1, <1>4, <2>1, <2>2
<1> QED BY <1>3, <1>5, <1>6, <1>7 DEF ListOK

(* A record that takes the place of the active one.                        *)
LEMMA ActiveReplaced ==
    ASSUME NEW list \in Seq(Preference), NEW n \in Nat, ListOK(list, n), NEW a \in Graph!Active(list),
           NEW r \in Preference, r.id = list[a].id, r.status \in {"active", "superseded"}, r.object = list[a].object,
           r.confidence >= list[a].confidence, Graph!ConstantsOK
    PROVE  /\ ListOK(Graph!Put(list, r), n)
           /\ r.status = "superseded" => Graph!Active(Graph!Put(list, r)) = {}
<1> DEFINE new == Graph!Put(list, r)
<1>1. Len(list) \in Nat /\ DOMAIN list = 1..Len(list) /\ \A k \in 1..Len(list) : list[k] \in Preference
    BY LenProperties, ElementOfSeq
<1>2. a \in DOMAIN list /\ list[a].status = "active" /\ \A k \in DOMAIN list : list[k].status = "active" => k = a
    BY DEF Graph!Active, ListOK
<1>3. DOMAIN new = DOMAIN list /\ \A k \in DOMAIN list : new[k] = IF k = a THEN r ELSE list[k]
    BY <1>2 DEF Graph!Put, ListOK, Distinct
<1> HIDE DEF new
<1>4. Distinct(new) /\ \A k \in DOMAIN new : new[k].id <= n
    BY <1>1, <1>2, <1>3 DEF ListOK, Distinct
<1>5. /\ \A j, k \in Graph!Active(new) : j = k
      /\ r.status = "superseded" => Graph!Active(new) = {}
    BY <1>2, <1>3 DEF Graph!Active
<1>6. \A k \in DOMAIN new : new[k].status = "conflict" => \E m \in DOMAIN new : Surer(new, k, m)
    <2>1. ASSUME NEW k \in DOMAIN list, k # a, list[k].status = "conflict" PROVE \E m \in DOMAIN new : Surer(new, k, m)
        <3>1. PICK m \in DOMAIN list : Surer(list, k, m)
            BY <2>1 DEF ListOK
        <3>2. new[m].id = list[m].id /\ new[m].object = list[m].object /\ new[m].confidence >= list[m].confidence
              /\ new[m].confidence \in Int /\ list[m].confidence \in Int /\ list[k].confidence \in Int
            <4>1. /\ \A k1 \in 1..Len(list) : list[k1].confidence \in Int
                  /\ r.confidence \in Int
                BY <1>1 DEF Preference, Graph!ConstantsOK
            <4>2. CASE m = a
                BY <1>1, <1>3, <4>1, <4>2
            <4>3. CASE m # a
                <5>1. new[m] = list[m]
                    BY <1>3, <4>3
                <5> QED BY <1>1, <4>1, <5>1
            <4> QED BY <4>2, <4>3
        <3> QED BY <1>3, <2>1, <3>1, <3>2 DEF Surer
    <2> QED BY <1>3, <2>1
<1> QED BY <1>4, <1>5, <1>6 DEF ListOK, new

LEMMA MoreUpserts == ASSUME NEW list \in Seq(Preference), NEW n \in Nat, ListOK(list, n), Graph!ConstantsOK PROVE ListOK(list, n + 1)
<1>1. \A k \in DOMAIN list : list[k].id \in Nat
    <2>1. DOMAIN list = 1..Len(list) /\ \A k \in 1..Len(list) : list[k] \in Preference
        BY LenProperties, ElementOfSeq
    <2> QED BY <2>1 DEF Preference, Graph!ConstantsOK
<1>2. \A k \in DOMAIN list : list[k].id <= n + 1
    <2>1. \A k \in DOMAIN list : list[k].id <= n
        BY DEF ListOK
    <2> QED BY <1>1, <2>1
<1> QED BY <1>2 DEF ListOK

(* The records of an upsert, each of which leaves such a list.             *)
LEMMA WritesOK ==
    ASSUME NEW list \in Seq(Preference), NEW c \in [object : Object, confidence : Confidence], Graph!ConstantsOK,
           upserts \in Nat, upserts < MaxUpserts
    PROVE  LET writes == Graph!Writes(c, list)
           IN  /\ writes \in Seq(Preference) /\ Len(writes) \in {1, 2}
               /\ ListOK(list, upserts) =>
                      /\ ListOK(Graph!Put(list, writes[1]), upserts + 1)
                      /\ Len(writes) = 2 => ListOK(Graph!Put(Graph!Put(list, writes[1]), writes[2]), upserts + 1)
<1> DEFINE writes == Graph!Writes(c, list)
           new == [id |-> upserts + 1, object |-> c.object, confidence |-> c.confidence,
                   status |-> "active", version |-> 1, against |-> 0]
           a == Graph!First(Graph!Active(list))
           active == list[a]
           newer == active.version + 1
           conflict == [new EXCEPT !.status = "conflict", !.version = newer, !.against = active.id]
           merged == [active EXCEPT !.confidence = IF c.confidence > @ THEN c.confidence ELSE @, !.version = newer]
           old == [active EXCEPT !.status = "superseded"]
           next == [new EXCEPT !.version = newer]
<1>1. DOMAIN list = 1..Len(list) /\ Len(list) \in Nat /\ \A k \in 1..Len(list) : list[k] \in Preference
    BY LenProperties, ElementOfSeq
<1>2. new \in Preference /\ new.id = upserts + 1 /\ new.status = "active" /\ new.object = c.object /\ new.confidence = c.confidence
    BY DEF Preference, Graph!ConstantsOK
<1>3. CASE Graph!Active(list) = {}
    <2>1. writes = <<new>>
        BY <1>3 DEF Graph!Writes
    <2> HIDE DEF new, writes
    <2>2. writes \in Seq(Preference) /\ Len(writes) = 1 /\ writes[1] = new
        BY <1>2, <2>1
    <2>3. ListOK(list, upserts) => ListOK(Graph!Put(list, new), upserts + 1)
        BY <1>2, <1>3, NewRecord
    <2> QED BY <2>2, <2>3 DEF writes
<1>4. CASE Graph!Active(list) # {}
    <2>1. a \in Graph!Active(list)
        <3>1. Graph!Active(list) \in SUBSET Nat
            BY <1>1 DEF Graph!Active
        <3> QED BY <1>4, <3>1, FirstIsMember
    <2>2. a \in DOMAIN list /\ active \in Preference /\ active.status = "active"
        BY <1>1, <2>1 DEF Graph!Active
    <2>3. writes = CASE Graph!Weaker(c, active) -> <<conflict>>
                     [] active.object = c.object -> <<merged>>
                     [] OTHER -> <<old, next>>
        BY <1>4 DEF Graph!Writes
    <2> HIDE DEF active
    <2>7. newer \in Nat /\ active.id \in 1..MaxUpserts /\ active.confidence \in Confidence /\ active.confidence \in Int
          /\ c.confidence \in Int
        <3>1. active.version \in Nat /\ active.id \in 1..MaxUpserts /\ active.confidence \in Confidence
            BY <2>2 DEF Preference
        <3>2. c.confidence \in Confidence /\ newer \in Nat
            BY <3>1
        <3> HIDE DEF newer
        <3> QED BY <3>1, <3>2 DEF Graph!ConstantsOK
    <2> HIDE DEF new, a, writes, newer
    <2>4. CASE Graph!Weaker(c, active)
        <3>1. writes = <<conflict>>
            BY <2>3, <2>4 DEF Graph!Weaker
        <3>2. /\ conflict \in Preference /\ conflict.id = upserts + 1 /\ conflict.status = "conflict"
              /\ conflict.against = active.id /\ conflict.object = c.object /\ conflict.confidence = c.confidence
            <4>1. active.id \in Nat
                BY <2>7 DEF Graph!ConstantsOK
            <4> QED BY <1>2, <2>7, <4>1 DEF Preference
        <3>3. active.confidence > c.confidence /\ active.object # c.object
            BY <2>2, <2>4 DEF Graph!Weaker, Preference, Graph!ConstantsOK
        <3> HIDE DEF conflict
        <3>4. writes \in Seq(Preference) /\ Len(writes) = 1 /\ writes[1] = conflict
            BY <3>1, <3>2
        <3>5. ListOK(list, upserts) => ListOK(Graph!Put(list, conflict), upserts + 1)
            BY <2>2, <3>2, <3>3, NewRecord DEF active
        <3> QED BY <3>4, <3>5 DEF writes
    <2>5. CASE ~Graph!Weaker(c, active) /\ active.object = c.object
        <3>1. writes = <<merged>>
            BY <2>3, <2>5
        <3>2. merged \in Preference /\ merged.id = active.id /\ merged.status = "active" /\ merged.object = active.object
              /\ merged.confidence >= active.confidence
            <4>2. PICK conf \in Confidence : /\ conf = IF c.confidence > active.confidence THEN c.confidence ELSE active.confidence
                                             /\ conf >= active.confidence
                BY <2>7
            <4>3. merged = [active EXCEPT !.confidence = conf, !.version = newer]
                BY <4>2
            <4> HIDE DEF merged
            <4> QED BY <2>2, <2>7, <4>2, <4>3 DEF Preference
        <3> HIDE DEF merged
        <3>3. writes \in Seq(Preference) /\ Len(writes) = 1 /\ writes[1] = merged
            BY <3>1, <3>2
        <3>4. ListOK(list, upserts) => ListOK(Graph!Put(list, merged), upserts + 1)
            BY <2>1, <3>2, ActiveReplaced, MoreUpserts, PutIsList DEF active
        <3> QED BY <3>3, <3>4 DEF writes
    <2>6. CASE ~Graph!Weaker(c, active) /\ active.object # c.object
        <3>1. writes = <<old, next>>
            BY <2>3, <2>6
        <3>2. old \in Preference /\ old.id = active.id /\ old.status = "superseded" /\ old.object = active.object
              /\ old.confidence = active.confidence /\ active.confidence \in Int
            BY <2>2, <2>7 DEF Preference
        <3>3. next \in Preference /\ next.id = upserts + 1 /\ next.status = "active"
            BY <1>2, <2>7 DEF Preference
        <3> HIDE DEF old, next
        <3>4. writes \in Seq(Preference) /\ Len(writes) = 2 /\ writes[1] = old /\ writes[2] = next
            BY <3>1, <3>2, <3>3
        <3>5. ASSUME ListOK(list, upserts)
              PROVE  ListOK(Graph!Put(list, old), upserts + 1) /\ ListOK(Graph!Put(Graph!Put(list, old), next), upserts + 1)
            <4>1. ListOK(Graph!Put(list, old), upserts) /\ Graph!Active(Graph!Put(list, old)) = {}
                BY <2>1, <3>2, <3>5, ActiveReplaced DEF active
            <4>2. Graph!Put(list, old) \in Seq(Preference)
                BY <3>2, PutIsList
            <4> QED BY <3>3, <4>1, <4>2, NewRecord, MoreUpserts
        <3> QED BY <3>4, <3>5 DEF writes
    <2> QED BY <2>4, <2>5, <2>6
<1> QED BY <1>3, <1>4

-----------------------------------------------------------------------------
LEMMA GraphBegins == ASSUME Graph!ConstantsOK, Graph!Init PROVE GraphInv
<1>1. durable = <<>> /\ cached = <<>> /\ copy = <<>> /\ todo = <<>> /\ ~caching /\ ~stale /\ upserts = 0
      /\ caching \in BOOLEAN /\ stale \in BOOLEAN
    BY DEF Graph!Init
<1>2. GraphType
    BY <1>1, EmptySeq DEF GraphType, Graph!ConstantsOK
<1>3. DOMAIN durable = {} /\ Len(todo) = 0
    BY <1>1
<1>4. ListOK(durable, upserts)
    BY <1>3 DEF ListOK, Distinct, Graph!Active
<1> QED BY <1>1, <1>2, <1>3, <1>4 DEF GraphInv, UpsertInv

LEMMA GraphBegin ==
    ASSUME Graph!ConstantsOK, GraphInv, NEW c \in [object : Object, confidence : Confidence], Graph!Begin(c)
    PROVE  GraphInv'
<1> DEFINE list == Graph!Loaded
           writes == Graph!Writes(c, list)
<1>1. list \in Seq(Preference) /\ (~stale => list = durable)
    BY DEF GraphInv, GraphType, UpsertInv, Graph!Loaded, Graph!Begin
<1>2. /\ todo' = writes /\ copy' = Graph!Put(list, writes[1]) /\ cached' = list /\ upserts' = upserts + 1
      /\ UNCHANGED <<durable, caching, stale>> /\ upserts < MaxUpserts /\ ~caching
    BY DEF Graph!Begin, Graph!Quiet
<1>3. upserts \in Nat /\ upserts + 1 \in 0..MaxUpserts
    BY <1>2 DEF GraphInv, GraphType, Graph!ConstantsOK
<1> HIDE DEF list
<1>4. /\ writes \in Seq(Preference) /\ Len(writes) \in {1, 2}
      /\ ListOK(list, upserts) =>
             /\ ListOK(Graph!Put(list, writes[1]), upserts + 1)
             /\ Len(writes) = 2 => ListOK(Graph!Put(Graph!Put(list, writes[1]), writes[2]), upserts + 1)
    BY <1>1, <1>2, <1>3, WritesOK
<1> HIDE DEF writes
<1>5. writes # <<>> /\ writes[1] \in Preference
    BY <1>4
<1>6. GraphType'
    <2>1. Graph!Put(list, writes[1]) \in Seq(Preference)
        BY <1>1, <1>5, PutIsList
    <2>2. /\ durable \in Seq(Preference) /\ stale \in BOOLEAN /\ caching \in BOOLEAN
        BY DEF GraphInv, GraphType
    <2>3. Len(todo') <= 2
        <3>1. Len(writes) = 1 \/ Len(writes) = 2
            BY <1>4
        <3>2. CASE Len(writes) = 1
            BY <1>2, <3>2
        <3>3. CASE Len(writes) = 2
            BY <1>2, <3>3
        <3> QED BY <3>1, <3>2, <3>3
    <2> QED BY <1>1, <1>2, <1>3, <1>4, <2>1, <2>2, <2>3 DEF GraphType
<1>7. ASSUME ~stale PROVE UpsertInv'
    <2>1. ListOK(durable, upserts) /\ list = durable /\ durable \in Seq(Preference)
        BY <1>1, <1>7 DEF GraphInv, GraphType, UpsertInv
    <2>2. ListOK(durable', upserts')
        BY <1>2, <1>3, <2>1, MoreUpserts
    <2> QED BY <1>2, <1>4, <1>5, <2>1, <2>2 DEF UpsertInv, Graph!Quiet
<1> QED BY <1>2, <1>6, <1>7 DEF GraphInv

LEMMA GraphWrite == ASSUME Graph!ConstantsOK, GraphInv, Graph!Write PROVE GraphInv'
<1>1. /\ todo \in Seq(Preference) /\ todo # <<>> /\ (Len(todo) = 1 \/ Len(todo) = 2) /\ todo[1] \in Preference
      /\ Len(todo) = 2 => todo[2] \in Preference /\ Tail(todo) = <<todo[2]>>
      /\ Len(todo) = 1 => Tail(todo) = <<>>
      /\ Tail(todo) \in Seq(Preference) /\ Len(Tail(todo)) = Len(todo) - 1
    <2>1. todo \in Seq(Preference) /\ todo # <<>> /\ Len(todo) <= 2
        BY DEF GraphInv, GraphType, Graph!Write
    <2> QED BY <2>1, OneOrTwo
<1>2. durable' = Graph!Put(durable, todo[1]) /\ todo' = Tail(todo) /\ UNCHANGED <<cached, upserts, stale>> /\ ~caching
    BY <1>1 DEF Graph!Write, GraphInv, GraphType
<1>3. /\ caching' \in BOOLEAN
      /\ \/ Len(todo) = 1 /\ caching' /\ copy' = copy
         \/ Len(todo) = 2 /\ ~caching' /\ copy' = Graph!Put(copy, todo[2])
    <2>1. CASE Len(todo) = 1
        BY <1>1, <2>1 DEF Graph!Write
    <2>2. CASE Len(todo) = 2
        <3>1. Tail(todo) # <<>>
            BY <1>1, <2>2
        <3> QED BY <1>2, <2>2, <3>1 DEF Graph!Write, GraphInv, GraphType
    <2> QED BY <1>1, <2>1, <2>2
<1>4. GraphType'
    <2>1. /\ durable \in Seq(Preference) /\ copy \in Seq(Preference) /\ cached \in Seq(Preference)
          /\ stale \in BOOLEAN /\ upserts \in 0..MaxUpserts
        BY DEF GraphInv, GraphType
    <2>2. durable' \in Seq(Preference)
        BY <1>1, <1>2, <2>1, PutIsList
    <2>3. CASE Len(todo) = 1
        BY <1>1, <1>2, <1>3, <2>1, <2>2, <2>3 DEF GraphType
    <2>4. CASE Len(todo) = 2
        <3>1. copy' \in Seq(Preference)
            BY <1>1, <1>3, <2>1, <2>4, PutIsList
        <3>2. Len(todo') = 1 /\ todo' \in Seq(Preference)
            BY <1>1, <1>2, <2>4
        <3>3. ~caching'
            BY <1>3, <2>4
        <3>4. Len(todo') <= 2
            BY <3>2
        <3>5. cached' \in Seq(Preference) /\ upserts' \in 0..MaxUpserts /\ stale' \in BOOLEAN /\ caching' \in BOOLEAN
            BY <1>2, <1>3, <2>1
        <3> QED BY <2>2, <3>1, <3>2, <3>3, <3>4, <3>5 DEF GraphType
    <2> QED BY <1>1, <2>3, <2>4
<1>5. ASSUME ~stale PROVE UpsertInv'
    <2>1. copy = Graph!Put(durable, todo[1]) /\ ListOK(durable', upserts')
        BY <1>1, <1>2, <1>5 DEF GraphInv, UpsertInv
    <2>2. CASE Len(todo) = 1
        BY <1>1, <1>2, <1>3, <2>1, <2>2 DEF UpsertInv, Graph!Quiet
    <2>3. CASE Len(todo) = 2
        <3>1. todo' = <<todo[2]>> /\ copy' = Graph!Put(durable', todo'[1])
            BY <1>1, <1>2, <1>3, <2>1, <2>3
        <3>2. ListOK(Graph!Put(durable', todo[2]), upserts)
            BY <1>2, <1>5, <2>3 DEF GraphInv, UpsertInv
        <3>3. Len(todo') = 1 /\ todo' # <<>> /\ todo'[1] = todo[2]
            BY <1>1, <1>2, <2>3, EmptySeq, <3>1
        <3> QED BY <1>2, <1>3, <2>1, <2>3, <3>1, <3>2, <3>3 DEF UpsertInv, Graph!Quiet
    <2> QED BY <1>1, <2>2, <2>3
<1> QED BY <1>2, <1>4, <1>5 DEF GraphInv

LEMMA GraphStep == ASSUME Graph!ConstantsOK, GraphInv, [Graph!Next]_(Graph!graphVars) PROVE GraphInv'
<1>1. CASE Graph!Refresh
    BY <1>1 DEF Graph!Refresh, Graph!Quiet, GraphInv, GraphType, UpsertInv
<1>2. CASE Graph!Refused
    <2>1. /\ stale' /\ ~caching' /\ todo' = <<>> /\ UNCHANGED <<durable, cached, copy, upserts>>
          /\ stale' \in BOOLEAN /\ caching' \in BOOLEAN
        BY <1>2 DEF Graph!Refused
    <2>2. <<>> \in Seq(Preference) /\ Len(<<>>) <= 2
        OBVIOUS
    <2> QED BY <2>1, <2>2 DEF GraphInv, GraphType
<1>3. CASE Graph!Expires
    BY <1>3 DEF Graph!Expires, Graph!Quiet, GraphInv, GraphType, UpsertInv
<1>4. CASE Graph!Restart
    <2>1. /\ copy' = <<>> /\ todo' = <<>> /\ ~caching' /\ caching' \in BOOLEAN
          /\ UNCHANGED <<durable, upserts>> /\ cached' \in {<<>>, cached}
        BY <1>4 DEF Graph!Restart
    <2>2. stale' \in BOOLEAN
        BY <1>4 DEF Graph!Restart, GraphInv, GraphType
    <2>6. <<>> \in Seq(Preference) /\ Len(<<>>) <= 2
        OBVIOUS
    <2>3. GraphType'
        BY <2>1, <2>2, <2>6 DEF GraphInv, GraphType
    <2>4. ASSUME ~stale' PROVE ~stale /\ (cached' = <<>> \/ (cached' = cached /\ Graph!Quiet))
        <3>1. CASE cached' = <<>> /\ UNCHANGED stale
            BY <2>4, <3>1
        <3>2. CASE UNCHANGED cached /\ stale' = (stale \/ (~Graph!Quiet /\ cached # <<>>))
            BY <2>4, <3>2
        <3> QED BY <1>4, <3>1, <3>2 DEF Graph!Restart
    <2>5. ASSUME ~stale' PROVE UpsertInv'
        <3>1. UpsertInv
            BY <2>4, <2>5 DEF GraphInv
        <3>2. Len(todo') = 0
            BY <2>1
        <3> QED BY <2>1, <2>4, <2>5, <3>1, <3>2 DEF UpsertInv
    <2> QED BY <2>3, <2>5 DEF GraphInv
<1>5. CASE UNCHANGED Graph!graphVars
    BY <1>5 DEF Graph!graphVars, Graph!Quiet, GraphInv, GraphType, UpsertInv
<1> QED BY <1>1, <1>2, <1>3, <1>4, <1>5, GraphBegin, GraphWrite DEF Graph!Next

(* As far as no write was refused and no cache outlived an upsert, an      *)
(* operator never prefers two things, the cache and the process have the   *)
(* store's list where they have one between upserts, and a conflict names  *)
(* the surer record it is one with: for every number of upserts, expired   *)
(* entries and restarts (PreferenceGraph.upsert, _load, _cache).           *)
THEOREM PreferencesStayOne ==
    ASSUME Graph!ConstantsOK
    PROVE  Graph!Init /\ [][Graph!Next]_(Graph!graphVars) => []Graph!PreferencesAgree
<1>1. ASSUME GraphInv PROVE Graph!PreferencesAgree
    <2>1. Graph!TypeOK
        <3>1. \A list \in {durable, cached, copy, todo} : \A k \in DOMAIN list : list[k] \in Preference
            BY <1>1, LenProperties, ElementOfSeq DEF GraphInv, GraphType
        <3>2. \A list \in {durable, cached, copy, todo} : \A k \in DOMAIN list :
                  list[k].id \in 1..MaxUpserts /\ list[k].confidence \in Confidence
            BY <3>1 DEF Preference
        <3> QED BY <1>1, <3>2 DEF GraphInv, GraphType, Graph!TypeOK
    <2>2. Graph!OneActivePreference /\ Graph!CopiesAgree
        BY <1>1 DEF GraphInv, UpsertInv, ListOK, Graph!OneActivePreference, Graph!CopiesAgree
    <2>3. Graph!ConflictsAreRecorded
        BY <1>1 DEF GraphInv, UpsertInv, ListOK, Surer, Graph!ConflictsAreRecorded
    <2> QED BY <2>1, <2>2, <2>3 DEF Graph!PreferencesAgree
<1> QED BY <1>1, GraphBegins, GraphStep, PTL
-----------------------------------------------------------------------------
(* The vectors of a call of the embedder (VectorProjection).               *)
CONSTANTS MAX_BLOCK_CHARS, MAX_BLOCKS_PER_SESSION, MAX_BATCH_CHARS, MAX_BATCH_ITEMS, MAX_TURN_CHARS, MaxInputChars,
          BatchSize, MaxRetries, Phase
VARIABLES turns, call
Embedder == INSTANCE VectorProjection

LEMMA TimesGrows ==
    ASSUME NEW a \in Nat, NEW b \in Nat, NEW w \in Nat, a <= b
    PROVE  a * w <= b * w
<1> DEFINE d == b - a
<1>1. d \in Nat /\ b = a + d
    OBVIOUS
<1> HIDE DEF d
<1>2. b * w = a * w + d * w
    BY <1>1
<1>3. d * w >= 0
    BY <1>1
<1>4. a * w \in Int /\ d * w \in Int
    BY <1>1
<1> QED BY <1>2, <1>3, <1>4

(* After q whole batches there is one more to ask for.                     *)
LEMMA NoMoreBatches ==
    ASSUME NEW q \in Nat, NEW size \in Nat \ {0}, NEW n \in Nat, q * size < n
    PROVE  q + 1 <= (n + size - 1) \div size
<1> DEFINE batches == (n + size - 1) \div size
<1>1. batches \in Int /\ n + size - 1 < size * batches + size
    OBVIOUS
<1> HIDE DEF batches
<1>2. n <= size * batches
    BY <1>1
<1>3. ASSUME batches <= q PROVE FALSE
    <2> DEFINE d == q - batches
    <2>1. d \in Nat /\ q = batches + d
        BY <1>1, <1>3
    <2> HIDE DEF d
    <2>2. q * size = batches * size + d * size /\ d * size >= 0
        BY <1>1, <2>1
    <2> QED BY <1>1, <1>2, <2>1, <2>2
<1> QED BY <1>1, <1>3 DEF batches

Asked == IF call.timed THEN 1 ELSE MaxRetries + 1
Call ==
    [texts : Nat \ {0}, timed : BOOLEAN, vectors : Seq(Nat), attempt : Nat, posts : Nat, spent : Nat,
     status : {"asking", "done", "invalid", "transport_error", "http_error", "timeout"}]

(* The vectors so far are those of whole batches, and each batch was asked *)
(* for so often at most.                                                   *)
CallInv ==
    /\ call \in Call
    /\ \A k \in 1..Len(call.vectors) : call.vectors[k] = k
    /\ call.status = "asking" =>
          /\ Len(call.vectors) < call.texts /\ call.attempt < Asked
          /\ \E q \in Nat : Len(call.vectors) = q * BatchSize /\ call.posts <= q * Asked + call.attempt
    /\ call.status = "done" => Len(call.vectors) = call.texts
    /\ call.posts <= Embedder!Batched * Asked
    /\ call.timed => call.spent < Phase

(* An answer with as many items as the batch has texts, each with another  *)
(* index of it, has one for every text.                                    *)
LEMMA EveryIndexIsThere ==
    ASSUME NEW n \in Nat, NEW items \in [1..n -> 0..(n - 1)], Embedder!IsInjective(items), NEW index \in 0..(n - 1)
    PROVE  \E k \in 1..n : items[k] = index
<1>1. items \in Injection(1..n, 0..(n - 1))
    BY DEF Embedder!IsInjective, Injection, IsInjective
<1>2. IsFiniteSet(1..n) /\ IsFiniteSet(0..(n - 1)) /\ Cardinality(1..n) = n /\ Cardinality(0..(n - 1)) = n
    BY FS_Interval
<1>3. items \in Surjection(1..n, 0..(n - 1))
    BY <1>1, <1>2, FS_Injection
<1> QED BY <1>3 DEF Surjection

LEMMA ParsedInItsOrder ==
    ASSUME NEW n \in Nat, NEW items \in Embedder!Items(n), NEW vectors \in Embedder!Parsed(items, n),
           call.vectors \in Seq(Nat)
    PROVE  vectors \in Seq(Nat) /\ Len(vectors) = n /\ \A k \in 1..n : vectors[k] = Len(call.vectors) + k
<1> DEFINE Of(index) == CHOOSE k \in DOMAIN items : items[k] = index
           m == Len(call.vectors)
           parsed == [k \in 1..n |-> m + items[Of(k - 1)] + 1]
<1>1. /\ Len(items) = n /\ (\A k \in DOMAIN items : items[k] < n) /\ Embedder!IsInjective(items)
      /\ vectors = parsed
    BY DEF Embedder!Parsed
<1>2. PICK size \in (n - 1)..n : items \in [1..size -> 0..n]
    BY DEF Embedder!Items
<1>3. items \in [1..n -> 0..(n - 1)]
    <2>1. CASE size \in Nat
        <3>1. items \in Seq(0..n) /\ Len(items) = size
            BY <1>2, <2>1
        <3> QED BY <1>1, <1>2, <3>1
    <2>2. CASE size \notin Nat
        <3>1. n = 0 /\ size = -1
            BY <2>2
        <3>2. 1..size = 1..n
            BY <3>1
        <3> QED BY <1>2, <3>1, <3>2
    <2> QED BY <2>1, <2>2
<1>4. ASSUME NEW k \in 1..n PROVE items[Of(k - 1)] = k - 1
    <2>1. k - 1 \in 0..(n - 1)
        OBVIOUS
    <2>2. \E j \in DOMAIN items : items[j] = k - 1
        BY SMTT(30), <1>1, <1>3, <2>1, EveryIndexIsThere
    <2> QED BY <2>2
<1> HIDE DEF Of
<1>5. m \in Nat
    OBVIOUS
<1> HIDE DEF m
<1>6. \A k \in 1..n : m + items[Of(k - 1)] + 1 = m + k /\ m + k \in Nat
    BY <1>4, <1>5
<1>7. parsed \in [1..n -> Nat] /\ \A k \in 1..n : parsed[k] = m + k
    BY <1>6
<1> HIDE DEF parsed
<1> QED BY <1>1, <1>7 DEF m

(* One more request keeps to the bound.                                    *)
LEMMA OneMorePost ==
    ASSUME Embedder!ConstantsOK, CallInv, call.status = "asking"
    PROVE  /\ Asked \in Nat \ {0} /\ call.posts + 1 <= Embedder!Batched * Asked
           /\ \A q \in Nat : Len(call.vectors) = q * BatchSize /\ call.posts <= q * Asked + call.attempt
                  => call.posts + 1 <= (q + 1) * Asked
<1>1. /\ BatchSize \in Nat \ {0} /\ MaxRetries \in Nat
      /\ call.texts \in Nat /\ call.posts \in Nat /\ call.attempt \in Nat /\ call.timed \in BOOLEAN
      /\ call.attempt < Asked /\ Len(call.vectors) < call.texts
    BY DEF Embedder!ConstantsOK, CallInv, Call
<1>2. Asked \in Nat \ {0}
    BY <1>1 DEF Asked
<1>3. ASSUME NEW q \in Nat, call.posts <= q * Asked + call.attempt
      PROVE  call.posts + 1 <= (q + 1) * Asked
    <2>1. (q + 1) * Asked = q * Asked + Asked /\ q * Asked \in Int
        BY <1>2
    <2> QED BY <1>1, <1>2, <1>3, <2>1
<1>4. PICK q \in Nat : Len(call.vectors) = q * BatchSize /\ call.posts <= q * Asked + call.attempt
    BY DEF CallInv
<1>5. q + 1 <= Embedder!Batched
    BY <1>1, <1>4, NoMoreBatches DEF Embedder!Batched
<1>6. Embedder!Batched \in Int
    BY <1>1 DEF Embedder!Batched
<1>7. (q + 1) * Asked <= Embedder!Batched * Asked /\ (q + 1) * Asked \in Int /\ Embedder!Batched * Asked \in Int
    BY <1>2, <1>5, <1>6, TimesGrows
<1>8. call.posts + 1 <= (q + 1) * Asked
    BY <1>3, <1>4
<1> QED BY <1>1, <1>2, <1>3, <1>7, <1>8

LEMMA EndsKeeps ==
    ASSUME Embedder!ConstantsOK, CallInv, call.status = "asking",
           NEW status \in {"invalid", "transport_error", "http_error", "timeout"}, Embedder!Ends(status)
    PROVE  CallInv'
<1>1. /\ call' \in Call /\ call'.texts = call.texts /\ call'.timed = call.timed /\ call'.vectors = call.vectors
      /\ call'.posts = call.posts + 1 /\ call'.spent = call.spent /\ call'.status = status
    <2>1. call \in Call /\ call.posts \in Nat /\ call.posts + 1 \in Nat
        BY DEF CallInv, Call
    <2>2. call' = [call EXCEPT !.status = status, !.posts = call.posts + 1]
        BY DEF Embedder!Ends
    <2>3. call' \in Call
        BY <2>1, <2>2 DEF Call
    <2> QED BY <2>1, <2>2, <2>3 DEF Call
<1>2. Asked' = Asked /\ Embedder!Batched' = Embedder!Batched
    BY <1>1 DEF Asked, Embedder!Batched
<1> QED BY <1>1, <1>2, OneMorePost DEF CallInv

LEMMA RetryKeeps ==
    ASSUME Embedder!ConstantsOK, CallInv, call.status = "asking", Embedder!MayRetry(call.attempt),
           call' = [call EXCEPT !.attempt = @ + 1, !.posts = @ + 1]
    PROVE  CallInv'
<1>1. /\ call' \in Call /\ call'.texts = call.texts /\ call'.timed = call.timed /\ call'.vectors = call.vectors
      /\ call'.posts = call.posts + 1 /\ call'.spent = call.spent /\ call'.status = "asking" /\ call'.attempt = call.attempt + 1
    <2>1. call \in Call /\ call.posts \in Nat /\ call.posts + 1 \in Nat /\ call.attempt \in Nat /\ call.attempt + 1 \in Nat
        BY DEF CallInv, Call
    <2>2. call' \in Call
        BY <2>1 DEF Call
    <2> QED BY <2>1, <2>2 DEF Call
<1>2. Asked' = Asked /\ Embedder!Batched' = Embedder!Batched
    BY <1>1 DEF Asked, Embedder!Batched
<1>3. call'.attempt < Asked
    BY <1>1 DEF Embedder!MayRetry, Asked, Embedder!ConstantsOK, CallInv, Call
<1>4. PICK q \in Nat : Len(call.vectors) = q * BatchSize /\ call.posts <= q * Asked + call.attempt
    BY DEF CallInv
<1>5. call'.posts <= q * Asked + call'.attempt
    <2>1. Asked \in Nat /\ q * Asked \in Int
        BY OneMorePost
    <2>2. call.posts \in Nat /\ call.attempt \in Nat
        BY DEF CallInv, Call
    <2> HIDE DEF Asked
    <2> QED BY <1>1, <1>4, <2>1, <2>2
<1> QED BY <1>1, <1>2, <1>3, <1>4, <1>5, OneMorePost DEF CallInv

LEMMA AnswerKeeps ==
    ASSUME Embedder!ConstantsOK, CallInv, call.status = "asking", NEW time \in Nat, call.spent + time < Phase \/ ~call.timed,
           NEW items \in Embedder!Items(Embedder!Count), NEW vectors \in Embedder!Parsed(items, Embedder!Count),
           call' = [call EXCEPT !.vectors = @ \o vectors, !.attempt = 0, !.posts = @ + 1, !.spent = @ + time,
                                !.status = IF Len(call.vectors) + Embedder!Count = call.texts THEN "done" ELSE @]
    PROVE  CallInv'
<1> DEFINE n == Embedder!Count
           m == Len(call.vectors)
           list == call.vectors \o vectors
<1>1. /\ call \in Call /\ call.vectors \in Seq(Nat) /\ m \in Nat /\ call.texts \in Nat \ {0} /\ m < call.texts
      /\ call.posts \in Nat /\ call.spent \in Nat /\ BatchSize \in Nat \ {0}
    BY DEF CallInv, Call, Embedder!ConstantsOK
<1>2. /\ n = (IF BatchSize < call.texts - m THEN BatchSize ELSE call.texts - m)
      /\ n \in Nat \ {0} /\ m + n <= call.texts /\ (m + n # call.texts => n = BatchSize)
    BY <1>1 DEF Embedder!Count, Embedder!Smaller
<1> HIDE DEF n
<1>3. vectors \in Seq(Nat) /\ Len(vectors) = n /\ \A k \in 1..n : vectors[k] = m + k
    BY <1>1, <1>2, ParsedInItsOrder DEF n
<1>4. list \in Seq(Nat) /\ Len(list) = m + n
    BY <1>1, <1>3, ConcatProperties
<1>5. \A k \in 1..(m + n) : list[k] = k
    <2> SUFFICES ASSUME NEW k \in 1..(m + n) PROVE list[k] = k
        OBVIOUS
    <2>1. list[k] = IF k <= m THEN call.vectors[k] ELSE vectors[k - m]
        BY <1>1, <1>3, ConcatProperties
    <2>2. CASE k <= m
        <3>1. k \in 1..m
            BY <1>1, <2>2
        <3> QED BY <2>1, <2>2, <3>1 DEF CallInv
    <2>3. CASE ~(k <= m)
        <3>1. k - m \in 1..n /\ m + (k - m) = k
            BY <1>1, <1>2, <2>3
        <3> HIDE DEF m, list
        <3> QED BY <1>3, <2>1, <2>3, <3>1
    <2> QED BY <2>2, <2>3
<1> HIDE DEF list
<1>6. /\ call'.texts = call.texts /\ call'.timed = call.timed /\ call'.vectors = list /\ call'.attempt = 0
      /\ call'.posts = call.posts + 1 /\ call'.spent = call.spent + time
      /\ call'.status = IF m + n = call.texts THEN "done" ELSE "asking"
    BY <1>1 DEF Call, list, n
<1>7. call' \in Call
    <2>1. call.posts + 1 \in Nat /\ call.spent + time \in Nat
        BY <1>1
    <2>2. (IF m + n = call.texts THEN "done" ELSE call.status) \in {"asking", "done"}
        OBVIOUS
    <2> DEFINE status == IF m + n = call.texts THEN "done" ELSE call.status
    <2>3. call' = [call EXCEPT !.vectors = list, !.attempt = 0, !.posts = call.posts + 1, !.spent = call.spent + time, !.status = status]
        BY DEF list, n
    <2> HIDE DEF status
    <2>4. status \in {"asking", "done"}
        BY <2>2 DEF status
    <2>5. call' = [texts |-> call.texts, timed |-> call.timed, vectors |-> list, attempt |-> 0, posts |-> call.posts + 1,
                   spent |-> call.spent + time, status |-> status]
        BY <1>1, <2>3 DEF Call
    <2>6. call.timed \in BOOLEAN /\ 0 \in Nat
        BY <1>1 DEF Call
    <2> QED BY <1>1, <1>4, <2>1, <2>4, <2>5, <2>6 DEF Call
<1>8. Asked' = Asked /\ Embedder!Batched' = Embedder!Batched
    BY <1>6 DEF Asked, Embedder!Batched
<1>9. Asked \in Nat \ {0} /\ call'.posts <= Embedder!Batched * Asked
    BY <1>6, OneMorePost
<1>10. ASSUME m + n # call.texts
       PROVE  \E q \in Nat : Len(list) = q * BatchSize /\ call'.posts <= q * Asked + 0
    <2>1. PICK q \in Nat : m = q * BatchSize /\ call.posts <= q * Asked + call.attempt
        BY DEF CallInv
    <2>2. call'.posts <= (q + 1) * Asked
        BY <1>6, <2>1, OneMorePost
    <2>3. Len(list) = (q + 1) * BatchSize
        BY <1>1, <1>2, <1>4, <1>10, <2>1
    <2>4. (q + 1) * Asked + 0 = (q + 1) * Asked /\ q + 1 \in Nat
        BY <1>9
    <2> QED BY <2>2, <2>3, <2>4
<1>11. call.timed => call.spent + time < Phase
    OBVIOUS
<1> HIDE DEF m
<1>12. call'.status = "asking" =>
           /\ Len(call'.vectors) < call'.texts /\ call'.attempt < Asked
           /\ \E q \in Nat : Len(call'.vectors) = q * BatchSize /\ call'.posts <= q * Asked + call'.attempt
    <2> SUFFICES ASSUME m + n # call.texts
                 PROVE  /\ Len(list) < call.texts /\ 0 < Asked
                        /\ \E q \in Nat : Len(list) = q * BatchSize /\ call'.posts <= q * Asked + 0
        BY <1>6
    <2>1. Len(list) < call.texts
        BY <1>1, <1>2, <1>4
    <2> QED BY <1>9, <1>10, <2>1
<1>13. call'.status = "done" => Len(call'.vectors) = call'.texts
    BY <1>4, <1>6
<1>14. \A k \in 1..Len(call'.vectors) : call'.vectors[k] = k
    BY <1>4, <1>5, <1>6
<1>15. call'.timed => call'.spent < Phase
    BY <1>6, <1>11
<1> QED BY <1>6, <1>7, <1>8, <1>9, <1>12, <1>13, <1>14, <1>15 DEF CallInv

LEMMA PostKeeps == ASSUME Embedder!ConstantsOK, CallInv, Embedder!Post PROVE CallInv'
<1>1. call.status = "asking" /\ call.timed \in BOOLEAN
    BY DEF Embedder!Post, CallInv, Call
<1>2. ASSUME NEW time \in IF call.timed THEN 0..1 ELSE {0}, call.spent + time < Phase, Embedder!Answered(time)
      PROVE  CallInv'
    <2>1. time \in Nat
        BY <1>2
    <2>2. PICK items \in Embedder!Items(Embedder!Count) :
              \/ \E vectors \in Embedder!Parsed(items, Embedder!Count) :
                    call' = [call EXCEPT !.vectors = @ \o vectors, !.attempt = 0, !.posts = @ + 1, !.spent = @ + time,
                                         !.status = IF Len(call.vectors) + Embedder!Count = call.texts THEN "done" ELSE @]
              \/ Embedder!Parsed(items, Embedder!Count) = {} /\ Embedder!Ends("invalid")
        BY <1>2 DEF Embedder!Answered
    <2> QED BY <1>1, <1>2, <2>1, <2>2, AnswerKeeps, EndsKeeps
<1>3. ASSUME NEW status \in {"transport_error", "http_error"}, Embedder!Unavailable(status) PROVE CallInv'
    BY <1>1, <1>3, RetryKeeps, EndsKeeps DEF Embedder!Unavailable
<1> QED BY <1>1, <1>2, <1>3, EndsKeeps DEF Embedder!Post

(* A call of any number of texts returns the vectors of its texts, in      *)
(* their order and all of them or none, in whatever order the service      *)
(* answers; a batch is asked for again MaxRetries times at most, and not   *)
(* at all by a query, which is answered within its time                    *)
(* (QwenFlashEmbedder.embed, embed_query, _request, _parse).               *)
THEOREM VectorsAreOfTheirTexts ==
    ASSUME Embedder!ConstantsOK, NEW texts \in Nat \ {0}
    PROVE  call \in Embedder!Calls(texts) /\ [][Embedder!Post]_call => []Embedder!EmbeddingHolds
<1>1. ASSUME call \in Embedder!Calls(texts) PROVE CallInv
    <2>1. /\ call.texts \in 1..texts /\ call.timed \in BOOLEAN /\ call.vectors = <<>> /\ call.attempt = 0
          /\ call.posts = 0 /\ call.spent = 0 /\ call.status = "asking" /\ call \in Call
        <3>1. 1..texts \subseteq Nat \ {0} /\ <<>> \in Seq(Nat)
            OBVIOUS
        <3>2. /\ call.texts \in 1..texts /\ call.timed \in BOOLEAN /\ call.vectors = <<>> /\ call.attempt = 0
              /\ call.posts = 0 /\ call.spent = 0 /\ call.status = "asking"
              /\ call = [texts |-> call.texts, timed |-> call.timed, vectors |-> call.vectors, attempt |-> call.attempt,
                         posts |-> call.posts, spent |-> call.spent, status |-> call.status]
            BY <1>1 DEF Embedder!Calls
        <3>3. /\ call.texts \in Nat \ {0} /\ call.vectors \in Seq(Nat) /\ call.attempt \in Nat /\ call.posts \in Nat
              /\ call.spent \in Nat /\ call.status \in {"asking"}
            BY <3>1, <3>2
        <3>4. call \in Call
            BY <3>2, <3>3 DEF Call
        <3> QED BY <3>2, <3>4
    <2>2. Len(call.vectors) = 0 /\ Asked \in Nat \ {0} /\ call.texts \in Nat \ {0} /\ BatchSize \in Nat \ {0} /\ 0 < Phase
        BY <2>1 DEF Embedder!ConstantsOK, Asked
    <2>3. 0 * BatchSize = 0 /\ 0 * Asked + 0 = 0
        BY <2>2
    <2>4. 0 + 1 <= Embedder!Batched
        BY <2>2, <2>3, NoMoreBatches DEF Embedder!Batched
    <2>5. Embedder!Batched \in Nat
        BY <2>2, <2>4 DEF Embedder!Batched
    <2>6. 0 <= Embedder!Batched * Asked
        BY <2>2, <2>5
    <2>7. Len(call.vectors) = 0 * BatchSize /\ call.posts <= 0 * Asked + call.attempt
        BY <2>1, <2>2, <2>3
    <2> QED BY <2>1, <2>2, <2>6, <2>7 DEF CallInv
<1>2. ASSUME CallInv PROVE Embedder!EmbeddingHolds
    <2>1. call.status = "done" => call.vectors = [k \in 1..call.texts |-> k]
        <3> SUFFICES ASSUME call.status = "done" PROVE call.vectors = [k \in 1..call.texts |-> k]
            OBVIOUS
        <3>1. call.vectors \in Seq(Nat) /\ Len(call.vectors) = call.texts /\ \A k \in 1..call.texts : call.vectors[k] = k
            BY <1>2 DEF CallInv, Call
        <3>2. call.vectors = [k \in 1..Len(call.vectors) |-> call.vectors[k]]
            BY <3>1
        <3> QED BY <3>1, <3>2
    <2> QED BY <1>2, <2>1 DEF CallInv, Asked, Embedder!EmbeddingHolds
<1>3. CallInv /\ UNCHANGED call => CallInv'
    BY DEF CallInv, Asked, Embedder!Batched
<1> QED BY <1>1, <1>2, <1>3, PostKeeps, PTL
-----------------------------------------------------------------------------
(* The timeline of a session and the recording of its run                  *)
(* (SessionTimeline).                                                      *)
CONSTANTS Event, ThisSession, DigestBudget, Results
VARIABLES nodes, recorded
Timeline == INSTANCE SessionTimeline

(* A set of numbers has a least one.                                       *)
LEMMA LeastOf ==
    ASSUME NEW S, S \subseteq Nat, S # {}
    PROVE  Timeline!Min(S) \in S /\ \A x \in S : Timeline!Min(S) <= x
<1> DEFINE Less == OpToRel(<, Nat)
<1>1. Less = {p \in Nat \X Nat : p[1] < p[2]}
    BY DEF OpToRel
<1>2. IsWellFoundedOn(Less, Nat)
    BY NatLessThanWellFounded
<1> HIDE DEF Less
<1>3. PICK x \in S : \A y \in S : ~ (<<y, x>> \in Less)
    BY <1>2, WFMin
<1>4. ASSUME NEW y \in S, y < x PROVE FALSE
    <2>1. <<y, x>> \in Nat \X Nat /\ <<y, x>>[1] = y /\ <<y, x>>[2] = x
        OBVIOUS
    <2>2. <<y, x>> \in Less
        BY <1>1, <1>4, <2>1
    <2> QED BY <1>3, <2>2
<1>5. \A y \in S : x <= y
    BY <1>4
<1> QED BY <1>5 DEF Timeline!Min

(* _find_related() finds the first node of an object, if there is one.     *)
LEMMA RelatedIsFirst ==
    ASSUME nodes \in Seq([event : Event, parent : Nat]), NEW key, NEW value
    PROVE  LET j == Timeline!Related(key, value) IN
           /\ j \in 0..Len(nodes)
           /\ j # 0 => Timeline!IsAbout(j, key, value) /\ \A i \in 1..(j - 1) : ~Timeline!IsAbout(i, key, value)
           /\ j = 0 => \A i \in 1..Len(nodes) : ~Timeline!IsAbout(i, key, value)
<1> DEFINE I == {i \in 1..Len(nodes) : Timeline!IsAbout(i, key, value)}
           j == Timeline!Related(key, value)
<1>1. j = IF I # {} THEN Timeline!Min(I) ELSE 0
    BY DEF Timeline!Related, Timeline!SelectInSeq, Timeline!IsAbout
<1>2. Len(nodes) \in Nat OBVIOUS
<1>3. I \subseteq 1..Len(nodes) /\ I \subseteq Nat /\ \A i \in 1..Len(nodes) : i \in I <=> Timeline!IsAbout(i, key, value)
    BY <1>2
<1> HIDE DEF I
<1>4. I # {} => Timeline!Min(I) \in I /\ \A x \in I : Timeline!Min(I) <= x
    BY <1>3, LeastOf
<1>5. j \in 0..Len(nodes)
    <2>1. CASE I = {}
        BY <1>1, <1>2, <2>1
    <2>2. CASE I # {}
        <3>1. j = Timeline!Min(I) /\ Timeline!Min(I) \in 1..Len(nodes)
            BY <1>1, <1>3, <1>4, <2>2
        <3> QED BY <1>2, <3>1
    <2> QED BY <2>1, <2>2
<1>6. ASSUME j = 0, NEW i \in 1..Len(nodes) PROVE ~Timeline!IsAbout(i, key, value)
    BY <1>1, <1>2, <1>3, <1>4, <1>6
<1>7. ASSUME j # 0 PROVE Timeline!IsAbout(j, key, value) /\ \A i \in 1..(j - 1) : ~Timeline!IsAbout(i, key, value)
    <2>1. j = Timeline!Min(I) /\ j \in I /\ \A x \in I : j <= x
        BY <1>1, <1>4, <1>7
    <2>2. \A i \in 1..(j - 1) : i \in 1..Len(nodes) /\ ~(j <= i)
        BY <1>2, <1>5
    <2> QED BY <1>3, <2>1, <2>2
<1> QED BY <1>5, <1>6, <1>7

TreeInv ==
    /\ nodes \in Seq([event : Event, parent : Nat])
    /\ \A k \in DOMAIN nodes : nodes[k].event.session = ThisSession
    /\ Timeline!TimelineIsATree

(* In whatever order the events come and whatever objects they name, the   *)
(* timeline of a session is one tree in which what is known of an object   *)
(* stays together (SessionTimelineTree.append_event, _find_related).       *)
THEOREM TimelinesStayTrees ==
    ASSUME Timeline!EventsAreRouted
    PROVE  Timeline!Init /\ [][Timeline!Next]_nodes => []Timeline!TimelineIsATree
<1>1. Timeline!Init => TreeInv
    BY DEF Timeline!Init, TreeInv, Timeline!TimelineIsATree
<1>2. ASSUME TreeInv, NEW e \in Event, Timeline!AppendEvent(e)
      PROVE  TreeInv'
    <2> DEFINE parent == Timeline!ParentOf(e)
               n == Len(nodes)
               leading == Timeline!Leading(e)
    <2>1. nodes \in Seq([event : Event, parent : Nat]) /\ n \in Nat
        BY <1>2 DEF TreeInv
    <2>2. nodes' = Append(nodes, [event |-> e, parent |-> parent]) /\ e.session = ThisSession
        BY <1>2 DEF Timeline!AppendEvent, Timeline!EventsAreRouted
    <2>3. Timeline!Keys = <<"tool_call", "task", "turn", "session">> /\ DOMAIN Timeline!Keys = 1..4
        BY DEF Timeline!Keys
    <2>4. leading = {k \in 1..4 : e[Timeline!Keys[k]] # "none" /\ Timeline!Related(Timeline!Keys[k], e[Timeline!Keys[k]]) # 0}
        BY <2>3 DEF Timeline!Leading
    <2>5. parent = IF leading = {} THEN 0
                   ELSE Timeline!Related(Timeline!Keys[Timeline!Min(leading)], e[Timeline!Keys[Timeline!Min(leading)]])
        BY DEF Timeline!ParentOf
    <2>6. leading # {} => Timeline!Min(leading) \in leading /\ \A x \in leading : Timeline!Min(leading) <= x
        BY <2>4, LeastOf
    <2>7. parent \in 0..n
        BY <2>1, <2>5, RelatedIsFirst
    <2>8. parent = 0 <=> n = 0
        <3>1. n # 0 => 4 \in leading
            <4>1. e[Timeline!Keys[4]] = ThisSession /\ ThisSession # "none"
                BY <2>2, <2>3 DEF Timeline!EventsAreRouted
            <4>2. n # 0 => Timeline!IsAbout(1, Timeline!Keys[4], ThisSession)
                BY <1>2, <2>1, <2>3 DEF TreeInv, Timeline!IsAbout
            <4>3. n # 0 => Timeline!Related(Timeline!Keys[4], ThisSession) # 0
                BY <2>1, <4>2, RelatedIsFirst
            <4> QED BY <2>4, <4>1, <4>3
        <3>2. leading # {} => parent # 0
            BY <2>4, <2>5, <2>6
        <3> QED BY <2>7, <3>1, <3>2
    <2>9. ASSUME NEW k \in 1..4, NEW j \in 1..n, Timeline!FirstAbout(j, Timeline!Keys[k], e[Timeline!Keys[k]])
          PROVE  \E m \in 1..k : Timeline!FirstAbout(parent, Timeline!Keys[m], e[Timeline!Keys[m]])
        <3>1. k \in leading
            BY <2>1, <2>4, <2>9, RelatedIsFirst DEF Timeline!FirstAbout
        <3> DEFINE m == Timeline!Min(leading)
        <3>2. m \in leading /\ m <= k
            BY <2>6, <3>1
        <3>3. parent = Timeline!Related(Timeline!Keys[m], e[Timeline!Keys[m]]) /\ parent # 0
            BY <2>4, <2>5, <3>2
        <3>4. Timeline!FirstAbout(parent, Timeline!Keys[m], e[Timeline!Keys[m]])
            BY <2>1, <2>4, <3>2, <3>3, RelatedIsFirst DEF Timeline!FirstAbout
        <3>5. m \in 1..k
            BY <2>4, <3>2
        <3> QED BY <3>4, <3>5
    <2> HIDE DEF parent
    <2>10. /\ nodes' \in Seq([event : Event, parent : Nat]) /\ Len(nodes') = n + 1 /\ DOMAIN nodes' = 1..(n + 1)
           /\ DOMAIN nodes = 1..n
           /\ \A k \in 1..n : nodes'[k] = nodes[k]
           /\ nodes'[n + 1] = [event |-> e, parent |-> parent]
        BY <2>1, <2>2, <2>7
    <2>11. nodes'[n + 1].event = e /\ nodes'[n + 1].parent = parent
        BY <2>10
    <2> DEFINE About(j, key, value) == nodes'[j].event.aggregate = value \/ nodes'[j].event[key] = value
               First(j, key, value) == value # "none" /\ About(j, key, value) /\ \A i \in 1..(j - 1) : ~About(i, key, value)
               Placed(k) == /\ nodes'[k].parent < k /\ (nodes'[k].parent = 0 <=> k = 1)
                            /\ \A i \in 1..4 : \A j \in 1..(k - 1) :
                                  First(j, Timeline!Keys[i], nodes'[k].event[Timeline!Keys[i]]) =>
                                     \E m \in 1..i : First(nodes'[k].parent, Timeline!Keys[m], nodes'[k].event[Timeline!Keys[m]])
    <2>12. \A j \in 1..n : \A key, value : First(j, key, value) <=> Timeline!FirstAbout(j, key, value)
        <3> TAKE j \in 1..n
        <3> TAKE key, value
        <3>1. j \in 1..n /\ \A i \in 1..(j - 1) : i \in 1..n
            BY <2>1
        <3>2. \A i \in 1..n : About(i, key, value) <=> Timeline!IsAbout(i, key, value)
            BY <2>10 DEF Timeline!IsAbout
        <3> HIDE DEF About
        <3> QED BY <3>1, <3>2 DEF Timeline!FirstAbout
    <2>13. \A k \in 1..(n + 1) : Placed(k)
        <3> HIDE DEF First
        <3>1. ASSUME NEW k \in 1..n PROVE Placed(k)
            <4>1. k \in DOMAIN nodes /\ k \in 1..n /\ nodes'[k] = nodes[k]
                BY <2>10
            <4>2. /\ nodes[k].parent < k /\ (nodes[k].parent = 0 <=> k = 1)
                  /\ \A i \in 1..4 : \A j \in 1..(k - 1) :
                        Timeline!FirstAbout(j, Timeline!Keys[i], nodes[k].event[Timeline!Keys[i]]) =>
                           \E m \in 1..i : Timeline!FirstAbout(nodes[k].parent, Timeline!Keys[m], nodes[k].event[Timeline!Keys[m]])
                BY <1>2, <2>3, <4>1 DEF TreeInv, Timeline!TimelineIsATree
            <4>3. nodes[k].parent \in Nat
                <5>0. \A S : \A q \in Seq(S) : \A i \in 1..Len(q) : q[i] \in S
                    OBVIOUS
                <5>1. nodes[k] \in [event : Event, parent : Nat]
                    BY <2>1, <4>1, <5>0
                <5> QED BY <5>1
            <4>4. \A j \in 1..(k - 1) : j \in 1..n /\ k # 1
                BY <2>1
            <4>5. k # 1 => nodes[k].parent \in 1..n
                BY <2>1, <4>2, <4>3
            <4> QED BY <2>12, <4>1, <4>2, <4>4, <4>5
        <3>2. Placed(n + 1)
            <4>1. parent < n + 1 /\ (parent = 0 <=> n + 1 = 1)
                BY <2>1, <2>7, <2>8
            <4>2. ASSUME NEW i \in 1..4, NEW j \in 1..n, First(j, Timeline!Keys[i], e[Timeline!Keys[i]])
                  PROVE  \E m \in 1..i : First(parent, Timeline!Keys[m], e[Timeline!Keys[m]])
                <5>1. PICK m \in 1..i : Timeline!FirstAbout(parent, Timeline!Keys[m], e[Timeline!Keys[m]])
                    BY <2>9, <2>12, <4>2
                <5>2. parent \in 1..n
                    BY <2>1, <2>7, <2>8, <4>2
                <5> QED BY <2>12, <5>1, <5>2
            <4>3. (n + 1) - 1 = n
                BY <2>1
            <4> QED BY <2>11, <4>1, <4>2, <4>3
        <3>3. \A k \in 1..(n + 1) : k \in 1..n \/ k = n + 1
            BY <2>1
        <3> QED BY <3>1, <3>2, <3>3
    <2>14. Timeline!TimelineIsATree'
        BY ZenonT(60), <2>3, <2>10, <2>13 DEF Timeline!TimelineIsATree, Timeline!FirstAbout, Timeline!IsAbout, Timeline!Keys
    <2> QED BY <1>2, <2>2, <2>10, <2>11, <2>14 DEF TreeInv
<1>3. ASSUME TreeInv, UNCHANGED nodes
      PROVE  TreeInv'
    BY <1>3 DEF TreeInv, Timeline!TimelineIsATree, Timeline!FirstAbout, Timeline!IsAbout
<1>4. TreeInv => Timeline!TimelineIsATree
    BY DEF TreeInv
<1>5. TreeInv /\ [Timeline!Next]_nodes => TreeInv'
    BY <1>2, <1>3 DEF Timeline!Next
<1> QED BY <1>1, <1>4, <1>5, PTL
-----------------------------------------------------------------------------
(* What comes after each step of a recording.                              *)
LEMMA StepsInOrder ==
    /\ Timeline!After("events") = "evidence" /\ Timeline!After("evidence") = "projection"
    /\ Timeline!After("projection") = "rollout" /\ Timeline!After("rollout") = "job" /\ Timeline!After("job") = "done"
<1> DEFINE found(x) == Timeline!SelectInSeq(Timeline!Steps, LAMBDA y : y = x)
           at(x) == {i \in 1..Len(Timeline!Steps) : Timeline!Steps[i] = x}
<1>1. /\ Len(Timeline!Steps) = 6
      /\ Timeline!Steps[1] = "events" /\ Timeline!Steps[2] = "evidence" /\ Timeline!Steps[3] = "projection"
      /\ Timeline!Steps[4] = "rollout" /\ Timeline!Steps[5] = "job" /\ Timeline!Steps[6] = "done"
    BY DEF Timeline!Steps
<1>2. \A x : found(x) = IF at(x) # {} THEN Timeline!Min(at(x)) ELSE 0
    BY DEF Timeline!SelectInSeq
<1>3. \A k \in Nat : Timeline!Min({k}) = k
    <2> TAKE k \in Nat
    <2>1. Timeline!Min({k}) \in {k}
        BY LeastOf
    <2> QED BY <2>1
<1>4. \A x : Timeline!After(x) = Timeline!Steps[found(x) + 1]
    BY DEF Timeline!After
<1> HIDE DEF found
<1>5. /\ at("events") = {1} /\ at("evidence") = {2} /\ at("projection") = {3} /\ at("rollout") = {4} /\ at("job") = {5}
    BY <1>1
<1> HIDE DEF at
<1>6. \A k \in 1..5 : \A x : at(x) = {k} => Timeline!After(x) = Timeline!Steps[k + 1]
    <2> TAKE k \in 1..5
    <2> TAKE x
    <2>1. at(x) = {k} => found(x) = k
        BY <1>2, <1>3
    <2> QED BY <1>4, <2>1
<1>7. \A k \in {1, 2, 3, 4, 5} : k \in 1..5
    OBVIOUS
<1> QED BY <1>1, <1>5, <1>6, <1>7

(* How far the recording of a run is says what is stored of it.            *)
RecordInv ==
    /\ recorded = [at |-> recorded.at, events |-> recorded.events, evidence |-> recorded.evidence,
                   projection |-> recorded.projection, rollouts |-> recorded.rollouts, jobs |-> recorded.jobs]
    /\ DOMAIN recorded.at = Timeline!Run /\ DOMAIN recorded.events = Timeline!Run /\ DOMAIN recorded.jobs = Timeline!Run
    /\ recorded.at = [s \in Timeline!Run |-> recorded.at[s]]
    /\ recorded.rollouts \subseteq Timeline!Run
    /\ \A s \in Timeline!Run :
          /\ recorded.at[s] = "evidence" => Len(recorded.events[s]) = Len(Results[s].events)
          /\ recorded.at[s] \in {"projection", "rollout", "job", "done"} => Timeline!Stored(s)
          /\ recorded.at[s] = "job" => (Results[s].status \in {"completed", "failed"} => s \in recorded.rollouts)
          /\ s \in recorded.rollouts \/ recorded.projection = s =>
                Timeline!Stored(s) /\ recorded.at[s] \notin {"events", "evidence"}
          /\ recorded.jobs[s] # <<>> =>
                /\ Timeline!Stored(s) /\ recorded.at[s] \notin {"events", "evidence"}
                /\ Results[s].status \in {"completed", "failed"} => s \in recorded.rollouts

(* However far the recording of each run gets, in whatever order the runs  *)
(* of an incident are recorded and wherever one breaks off, what is        *)
(* derived of a run stands on all its events and evidence, and a job on    *)
(* the rollout of a run that ended (record, _record_projection, enqueue).  *)
THEOREM RecordingsStayFounded ==
    ASSUME "none" \notin Timeline!Run
    PROVE  Timeline!RecordInit /\ [][Timeline!Record]_recorded => []Timeline!FactsComeFirst
<1>1. Timeline!RecordInit => RecordInv
    BY DEF Timeline!RecordInit, RecordInv, Timeline!Steps
<1>2. ASSUME RecordInv, NEW s \in Timeline!Run,
             \/ Timeline!KeepEvent(s) \/ Timeline!KeepEvidence(s) \/ Timeline!SaveProjection(s)
             \/ Timeline!KeepRollout(s) \/ Timeline!Enqueue(s) \/ Timeline!Breaks(s)
      PROVE  RecordInv'
    <2>1. CASE Timeline!KeepEvent(s)
        BY <1>2, <2>1, StepsInOrder DEF RecordInv, Timeline!KeepEvent, Timeline!At, Timeline!Goes, Timeline!Stored
    <2>2. CASE Timeline!KeepEvidence(s)
        BY <1>2, <2>2, StepsInOrder DEF RecordInv, Timeline!KeepEvidence, Timeline!At, Timeline!Goes, Timeline!Stored
    <2>3. CASE Timeline!SaveProjection(s)
        BY <1>2, <2>3, StepsInOrder DEF RecordInv, Timeline!SaveProjection, Timeline!At, Timeline!Goes, Timeline!Stored
    <2>4. CASE Timeline!KeepRollout(s)
        BY <1>2, <2>4, StepsInOrder DEF RecordInv, Timeline!KeepRollout, Timeline!At, Timeline!Goes, Timeline!Stored
    <2>5. CASE Timeline!Enqueue(s)
        BY <1>2, <2>5, StepsInOrder DEF RecordInv, Timeline!Enqueue, Timeline!At, Timeline!Goes, Timeline!Stored
    <2>6. CASE Timeline!Breaks(s)
        BY <1>2, <2>6, StepsInOrder DEF RecordInv, Timeline!Breaks, Timeline!At, Timeline!Goes, Timeline!Stored
    <2> QED BY <1>2, <2>1, <2>2, <2>3, <2>4, <2>5, <2>6
<1>3. ASSUME RecordInv, UNCHANGED recorded
      PROVE  RecordInv'
    BY <1>3 DEF RecordInv, Timeline!Stored
<1>4. RecordInv => Timeline!FactsComeFirst
    BY DEF RecordInv, Timeline!FactsComeFirst
<1>5. RecordInv /\ [Timeline!Record]_recorded => RecordInv'
    BY <1>2, <1>3 DEF Timeline!Record
<1> QED BY <1>1, <1>4, <1>5, PTL
=============================================================================
