----------------------------- MODULE MemoryJobs -----------------------------
(***************************************************************************)
(* RedisMemoryJobQueue, MemoryWorker and the recorder's                    *)
(* process_one_memory_job(): what a session taught is queued, and the      *)
(* workers of the processes that share a queue write it to memory.         *)
(*                                                                         *)
(* Only claiming a job is one script of Redis.  Everything else is several *)
(* commands, between which other workers run, a process dies or the        *)
(* connection breaks; and no command but the claim looks at who holds the  *)
(* lease of the job it is about.                                           *)
(***************************************************************************)
EXTENDS Naturals, Sequences, FiniteSets

CONSTANTS
    Job, Worker,
    Candidates,     \* the kinds of each job's candidates, in their order
    MaxTrouble      \* bound: how often, for each job, a process dies or loses Redis
                    \* over it or a lease lapses while its holder works

ASSUME JobAssumption ==
    /\ Candidates \in [Job -> Seq({"preference", "episodic"})]
    /\ MaxTrouble \in [Job -> Nat]

VARIABLES
    producer,    \* where the enqueue() of a job is
    hash,        \* the hash of a job: its status, and the attempts of its payload
    pending,     \* the pending set: a job is out of it, waits for its time, or is due
    processing,  \* the processing set: the lease of a job is live or has lapsed
    worker,      \* where each worker is, with the job it claimed
    errors,      \* MemoryWorker.errors is not empty
    stopped,     \* what MemoryWorker.stop() returned
    stored,      \* the candidates of a job that are in the memory store
    torn,        \* history: jobs whose holder was interrupted between two commands
    late,        \* history: jobs whose lease lapsed under their holder
    trouble      \* how much of MaxTrouble has happened

setVars == <<pending, processing>>
historyVars == <<torn, late, trouble>>
jobVars == <<producer, hash, setVars, worker, errors, stopped, stored, historyVars>>

Final == {"completed", "failed"}
Resting == [at |-> "idle", job |-> "none", attempts |-> 0, kept |-> {}, left |-> {}]
Places == {"claimed", "working", "raised", "rewriting", "releasing", "rescheduling",
           "removing", "unlisting", "closing"}

TypeOK ==
    /\ producer \in [Job -> {"new", "written", "queued", "dead"}]
    /\ hash \in [Job -> [status : {"absent", "pending", "processing"} \cup Final, attempts : Nat]]
    /\ pending \in [Job -> {"out", "waiting", "due"}]
    /\ processing \in [Job -> {"out", "live", "lapsed"}]
    /\ \A w \in Worker : worker[w].at \in Places \cup {"idle"}
    /\ errors \in [Worker -> BOOLEAN]
    /\ stopped \in [Worker -> {"no", "drained", "undrained"}]
    /\ \A j \in Job : stored[j] \subseteq DOMAIN Candidates[j]

Init ==
    /\ producer = [j \in Job |-> "new"]
    /\ hash = [j \in Job |-> [status |-> "absent", attempts |-> 0]]
    /\ pending = [j \in Job |-> "out"] /\ processing = [j \in Job |-> "out"]
    /\ worker = [w \in Worker |-> Resting]
    /\ errors = [w \in Worker |-> FALSE] /\ stopped = [w \in Worker |-> "no"]
    /\ stored = [j \in Job |-> {}]
    /\ torn = {} /\ late = {} /\ trouble = [j \in Job |-> 0]

-----------------------------------------------------------------------------
(* Something goes wrong with j once more.                                  *)
Troubled(j) == trouble[j] < MaxTrouble[j] /\ trouble' = [trouble EXCEPT ![j] = @ + 1]

(* enqueue(): the hash first, then the set.                                *)

Write(j) ==
    /\ producer[j] = "new"
    /\ producer' = [producer EXCEPT ![j] = "written"]
    /\ hash' = [hash EXCEPT ![j] = [status |-> "pending", attempts |-> 0]]
    /\ UNCHANGED <<setVars, worker, errors, stopped, stored, historyVars>>

List(j) ==
    /\ producer[j] = "written"
    /\ producer' = [producer EXCEPT ![j] = "queued"]
    /\ pending' = [pending EXCEPT ![j] = "due"]
    /\ UNCHANGED <<hash, processing, worker, errors, stopped, stored, historyVars>>

(* The process that enqueues dies between the two.                         *)
Abandon(j) ==
    /\ producer[j] = "written" /\ Troubled(j)
    /\ producer' = [producer EXCEPT ![j] = "dead"]
    /\ UNCHANGED <<hash, setVars, worker, errors, stopped, stored, torn, late>>

-----------------------------------------------------------------------------
(* A worker.                                                               *)

Holders(j) == {w \in Worker : worker[w].at # "idle" /\ worker[w].job = j}
Lapsed == {j \in Job : processing[j] = "lapsed"}

(* Mutant: leases are not looked at.                                       *)
Returned == {{}}

(* The script takes one lapsed job back, if there is one.                  *)
TakenBack == IF Lapsed = {} THEN {{}} ELSE {{j} : j \in Lapsed}

(* The claim script: one lapsed job is taken back, and a job that is due   *)
(* gets a lease.                                                           *)
Claim(w) ==
    /\ worker[w] = Resting /\ stopped[w] = "no"
    /\ \E back \in TakenBack : \E j \in back \cup {k \in Job : pending[k] = "due"} :
         /\ pending' = [k \in Job |-> IF k = j THEN "out" ELSE IF k \in back THEN "due" ELSE pending[k]]
         /\ processing' = [k \in Job |-> IF k = j THEN "live" ELSE IF k \in back THEN "out" ELSE processing[k]]
         /\ worker' = [worker EXCEPT ![w] = [Resting EXCEPT !.at = "claimed", !.job = j, !.attempts = hash[j].attempts]]
    /\ UNCHANGED <<producer, hash, errors, stopped, stored, historyVars>>

(* A step of w on its job, from one place to another.                      *)
Moves(w, from, to) ==
    /\ worker[w].at = from
    /\ worker' = [worker EXCEPT ![w].at = to]
    /\ UNCHANGED <<producer, errors, stopped, historyVars>>

(* The second half of claim(), and the classification: the model decides   *)
(* which of the candidates are kept, and keeps none that it could not read.*)
(* The rules keep a preference before a conclusion.                        *)
Begin(w) ==
    LET j == worker[w].job IN
    /\ worker[w].at = "claimed"
    /\ hash' = [hash EXCEPT ![j].status = "processing"]
    /\ \E kept \in SUBSET DOMAIN Candidates[j] :
         worker' = [worker EXCEPT ![w].at = "working", ![w].kept = kept, ![w].left = kept]
    /\ UNCHANGED <<producer, setVars, errors, stopped, stored, historyVars>>

(* The next candidate is written.  A preference is merged into what is     *)
(* there.  A conclusion that is there already is a conflict, because the   *)
(* record says when it was made.                                           *)
WriteCandidate(w) ==
    LET j == worker[w].job IN
    /\ worker[w].at = "working"
    /\ \E c \in worker[w].left :
         /\ \A d \in worker[w].left : c <= d
         /\ ~(Candidates[j][c] = "episodic" /\ c \in stored[j])
         /\ stored' = [stored EXCEPT ![j] = @ \cup {c}]
         /\ worker' = [worker EXCEPT ![w].left = @ \ {c}]
    /\ UNCHANGED <<producer, hash, setVars, errors, stopped, historyVars>>

(* The store refuses, for this reason or another.                          *)
StoreRefuses(w) ==
    /\ worker[w].left # {}
    /\ Moves(w, "working", "raised")
    /\ UNCHANGED <<hash, setVars, stored>>

(* All is written: the job is to be acknowledged.                          *)
Acknowledge(w) ==
    /\ worker[w].left = {}
    /\ Moves(w, "working", "removing")
    /\ UNCHANGED <<hash, setVars, stored>>

(* Mutant: a third retry.                                                  *)
OnceMore(w) == worker[w].attempts < 3

MayRetry(w) == worker[w].attempts < 2

(* After an exception the job is given up, or its payload is read again.   *)
GiveUp(w) ==
    /\ ~MayRetry(w)
    /\ Moves(w, "raised", "removing")
    /\ UNCHANGED <<hash, setVars, stored>>

ReadAgain(w) ==
    /\ worker[w].at = "raised" /\ MayRetry(w)
    /\ worker' = [worker EXCEPT ![w].at = "rewriting", ![w].attempts = hash[worker[w].job].attempts]
    /\ UNCHANGED <<producer, hash, setVars, errors, stopped, stored, historyVars>>

(* retry(), command by command.                                            *)
Rewrite(w) ==
    /\ Moves(w, "rewriting", "releasing")
    /\ hash' = [hash EXCEPT ![worker[w].job] = [status |-> "pending", attempts |-> worker[w].attempts + 1]]
    /\ UNCHANGED <<setVars, stored>>

Release(w) ==
    /\ Moves(w, "releasing", "rescheduling")
    /\ processing' = [processing EXCEPT ![worker[w].job] = "out"]
    /\ UNCHANGED <<hash, pending, stored>>

(* Mutant: the job is not listed again.                                    *)
Forget(w) ==
    /\ worker[w].at = "rescheduling"
    /\ worker' = [worker EXCEPT ![w] = Resting]
    /\ UNCHANGED <<producer, hash, setVars, errors, stopped, stored, historyVars>>

Reschedule(w) ==
    /\ worker[w].at = "rescheduling"
    /\ pending' = [pending EXCEPT ![worker[w].job] = "waiting"]
    /\ worker' = [worker EXCEPT ![w] = Resting]
    /\ UNCHANGED <<producer, hash, processing, errors, stopped, stored, historyVars>>

(* Mutant: the lease is not given up.                                      *)
KeepLease(w) ==
    /\ Moves(w, "removing", "unlisting")
    /\ UNCHANGED <<hash, setVars, stored>>

(* ack() and fail(), command by command: ack() when nothing is left.       *)
Revoke(w) ==
    /\ Moves(w, "removing", "unlisting")
    /\ processing' = [processing EXCEPT ![worker[w].job] = "out"]
    /\ UNCHANGED <<hash, pending, stored>>

Unlist(w) ==
    /\ Moves(w, "unlisting", "closing")
    /\ pending' = [pending EXCEPT ![worker[w].job] = "out"]
    /\ UNCHANGED <<hash, processing, stored>>

Close(w) ==
    /\ worker[w].at = "closing"
    /\ hash' = [hash EXCEPT ![worker[w].job].status = IF worker[w].left = {} THEN "completed" ELSE "failed"]
    /\ worker' = [worker EXCEPT ![w] = Resting]
    /\ UNCHANGED <<producer, setVars, errors, stopped, stored, historyVars>>

(* The process of w dies and another takes its place, or a command cannot  *)
(* reach Redis and the worker notes the error and goes on.                 *)
Interrupt(w) ==
    /\ worker[w] # Resting /\ Troubled(worker[w].job)
    /\ worker' = [worker EXCEPT ![w] = Resting]
    /\ \E raised \in {TRUE, FALSE} :
         /\ raised => worker[w].at # "working" /\ stopped[w] = "no"
         /\ errors' = [errors EXCEPT ![w] = raised]
    /\ torn' = IF worker[w].at \in {"rescheduling", "unlisting", "closing"} THEN torn \cup {worker[w].job} ELSE torn
    /\ UNCHANGED <<producer, hash, setVars, stopped, stored, late>>

(* Mutant: only what waits is in flight.                                   *)
WaitingInFlight == \E j \in Job : pending[j] # "out"

HasInflight == \E j \in Job : pending[j] # "out" \/ processing[j] # "out"

(* stop(): the thread ends after the job in hand, for which stop() may not *)
(* have waited long enough.                                                *)
Stop(w) ==
    /\ stopped[w] = "no"
    /\ stopped' = [stopped EXCEPT ![w] =
           IF worker[w] = Resting /\ ~HasInflight /\ ~errors[w] THEN "drained" ELSE "undrained"]
    /\ errors' = [errors EXCEPT ![w] = FALSE]   \* read for the last time
    /\ UNCHANGED <<producer, hash, setVars, worker, stored, historyVars>>

-----------------------------------------------------------------------------
(* Time.                                                                   *)

ComesDue(j) ==
    /\ pending[j] = "waiting"
    /\ pending' = [pending EXCEPT ![j] = "due"]
    /\ UNCHANGED <<producer, hash, processing, worker, errors, stopped, stored, historyVars>>

(* The lease of a job nobody works on lapses; that of a job in work may.   *)
Lapses(j) ==
    /\ processing[j] = "live"
    /\ processing' = [processing EXCEPT ![j] = "lapsed"]
    /\ \/ Holders(j) = {} /\ UNCHANGED <<late, trouble>>
       \/ Holders(j) # {} /\ Troubled(j) /\ late' = late \cup {j}
    /\ UNCHANGED <<producer, hash, pending, worker, errors, stopped, stored, torn>>

Enqueue(j) == Write(j) \/ List(j)

Work(w) ==
    \/ Claim(w) \/ Begin(w) \/ WriteCandidate(w) \/ StoreRefuses(w) \/ Acknowledge(w)
    \/ GiveUp(w) \/ ReadAgain(w) \/ Rewrite(w) \/ Release(w) \/ Reschedule(w)
    \/ Revoke(w) \/ Unlist(w) \/ Close(w)

Next ==
    \/ \E j \in Job : Enqueue(j) \/ Abandon(j) \/ ComesDue(j) \/ Lapses(j)
    \/ \E w \in Worker : Work(w) \/ Interrupt(w) \/ Stop(w)

Spec == Init /\ [][Next]_jobVars

(* A worker that is not stopped goes on, and time passes.                  *)
FairSpec ==
    /\ Spec
    /\ \A w \in Worker : WF_jobVars(Work(w))
    /\ \A j \in Job : WF_jobVars(ComesDue(j)) /\ WF_jobVars(Lapses(j))

-----------------------------------------------------------------------------
(* A job that nobody will touch again is over, or it was left by a process *)
(* that died or lost Redis between two commands of the enqueue, the retry  *)
(* or the end of it, or its lease had lapsed under a worker.               *)
NoJobIsForgotten == \A j \in Job :
    \/ producer[j] \in {"new", "written", "dead"}
    \/ pending[j] # "out" \/ processing[j] # "out" \/ Holders(j) # {}
    \/ hash[j].status \in Final
    \/ j \in torn \cup late

(* Two workers are at the same job only after a lease has lapsed.          *)
OneHolder == \A j \in Job : Cardinality(Holders(j)) > 1 => j \in late

(* A worker that acknowledges has everything it chose to keep in the       *)
(* store: no candidate is dropped by a retry.                              *)
AcknowledgedIsStored == \A w \in Worker :
    worker[w].at \in {"removing", "unlisting", "closing"} /\ worker[w].left = {}
        => worker[w].kept \subseteq stored[worker[w].job]

(* A job is tried three times.  Once a lease has lapsed under its holder   *)
(* this is no longer so: a worker that read the attempts long ago puts     *)
(* them back, and one that read them since adds to them.                   *)
AttemptsAreBounded == \A j \in Job : j \notin late => hash[j].attempts <= 2

(* stop() says that the queue is drained: no job waits or is in work,      *)
(* except where another worker is between two commands, or a job was torn. *)
DrainedIsDrained == [][\A w \in Worker : stopped'[w] = "drained" /\ stopped[w] = "no" =>
    \A j \in Job : \/ producer[j] # "queued" \/ hash[j].status \in Final
                   \/ j \in torn \cup late
                   \/ \E v \in Holders(j) : worker[v].at \in {"rescheduling", "unlisting", "closing"}]_jobVars

(* Together: what a job's hash, its place in the two sets, the workers and *)
(* the store say of it fits, whatever is interrupted.                      *)
JobsAreSound == TypeOK /\ NoJobIsForgotten /\ OneHolder /\ AcknowledgedIsStored /\ AttemptsAreBounded

(* A job that is over stays over, unless its lease had lapsed under one of *)
(* its workers: that one may still put it back or declare it failed.       *)
OverIsOver == [][\A j \in Job : hash[j].status \in Final /\ j \notin late => hash'[j] = hash[j]]_jobVars

(* What is over stays over: a drained queue was drained, and a job that    *)
(* ended is not opened again (ack, fail, has_inflight).                    *)
OverStaysOver == DrainedIsDrained /\ OverIsOver

(* While a worker runs, every job ends: retries, lapsed leases and jobs    *)
(* put back by late workers do not go on for ever.                         *)
JobsSettle == []<>(\/ \A w \in Worker : stopped[w] # "no"
                   \/ \A j \in Job : pending[j] = "out" /\ processing[j] = "out")
=============================================================================
