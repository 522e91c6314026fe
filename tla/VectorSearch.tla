----------------------------- MODULE VectorSearch -----------------------------
(***************************************************************************)
(* The vector channel as a search meets it: the run of EmbeddingProjection *)
(* from the moment before it is enqueued, a publisher that writes the same *)
(* projection without leases (EmbeddingTaskStore, the diagnostics), and a  *)
(* search, which reads the status, asks the index and verifies the rows    *)
(* against the tables, each at a time of its own.                          *)
(*                                                                         *)
(* The index is another program: beside the rows it was given it may       *)
(* answer with a row that was not written for this projection.  A vector   *)
(* of the publisher's is named 0.                                          *)
(***************************************************************************)
EXTENDS EmbeddingProjection

VARIABLES
    mode,       \* code_embedding_projection_runs.mode: "none" before there is a run
    created,    \* tasks of the publisher's: they have no run_id
    channel,    \* code_embedding_channels.status
    publisher,  \* where the publisher is, and the tasks it has left
    collection, \* whether the collection has the schema of the projection
    search      \* where the search is, and the rows it has been answered

searchVars == <<mode, created, channel, publisher, collection, search>>

NoSearch == [pc |-> "idle", rows |-> {}, strange |-> FALSE]
Ended == [pc |-> "idle", left |-> {}]

(* The rows of the tasks are there from the enqueue, or created, on.       *)
SearchInit ==
    /\ Init /\ mode = "none" /\ created = {} /\ channel = "none" /\ publisher = Ended
    /\ collection \in {"fits", "differs"} /\ search = NoSearch

(* enqueue(): a task that is there already, or a run of the publisher's,   *)
(* is an error.                                                            *)
Enqueue ==
    /\ mode = "none" /\ active /\ created = {}
    /\ mode' = "worker"
    /\ UNCHANGED <<vars, created, channel, publisher, collection, search>>

(* _validate_collection() refuses a collection of another schema: nothing  *)
(* is written to it and it answers nothing.                                *)
IndexRefuses ==
    collection = "differs" =>
        point' = point /\ \A w \in Worker : worker'[w].pc \in {"written", "publish"} => worker'[w].pc = worker[w].pc

Project ==
    /\ \/ mode = "worker" /\ \E w \in Worker : (Work(w) /\ IndexRefuses) \/ Crash(w)
       \/ mode = "worker" /\ \E t \in Task : LeaseLapses(t) \/ BecomesDue(t)
       \/ mode = "worker" /\ Unblock
       \/ Supersede
       \/ \E t \in Task : Lose(t)
    /\ UNCHANGED searchVars

-----------------------------------------------------------------------------
(* The publisher.                                                          *)

Publishing(pc) == publisher.pc = pc /\ UNCHANGED <<active, lost, worker, collection, search>>

(* It takes up its work from the beginning, whatever was done already.     *)
Begin ==
    /\ Publishing("idle")
    /\ publisher' = [pc |-> "creating", left |-> Task] /\ channel' = "building"
    /\ UNCHANGED <<status, task, point, mode, created>>

(* create_task(): a task that is there already stays as it is.             *)
CreateTask(t) ==
    /\ Publishing("creating") /\ t \in publisher.left
    /\ created' = IF mode = "worker" THEN created ELSE created \cup {t}
    /\ publisher' = [publisher EXCEPT !.left = @ \ {t}, !.pc = IF publisher.left = {t} THEN "writing" ELSE @]
    /\ UNCHANGED <<status, task, point, mode, channel>>

(* upsert() of all points at once.                                         *)
WritePoints ==
    /\ publisher.pc = "writing" /\ collection = "fits"
    /\ point' = [t \in Task |-> 0] /\ lost' = {} /\ publisher' = [publisher EXCEPT !.pc = "reporting"]
    /\ UNCHANGED <<active, status, task, worker, mode, created, channel, collection, search>>

(* reconcile(): the publisher goes on if the index has every point.        *)
Report ==
    /\ Publishing("reporting") /\ \A t \in Task : point[t] # None
    /\ publisher' = [pc |-> "setting", left |-> Task]
    /\ UNCHANGED <<status, task, point, mode, created, channel>>

(* Mutant: whoever knows the task may set its status.                      *)
AnyTask(t) == TRUE

(* A task that has a run is moved under its lease only.                    *)
Unmanaged(t) == t \in created

(* set_task_status(t, "ready")                                             *)
SetTaskStatus(t) ==
    /\ Publishing("setting") /\ t \in publisher.left
    /\ IF Unmanaged(t)
       THEN /\ task' = [task EXCEPT ![t].status = "ready"]
            /\ publisher' = [publisher EXCEPT !.left = @ \ {t}, !.pc = IF publisher.left = {t} THEN "marking" ELSE @]
       ELSE task' = task /\ publisher' = Ended
    /\ UNCHANGED <<status, point, mode, created, channel>>

(* mark_channel_ready(): the run is ready if the projection is active, it  *)
(* is no worker's and every task is ready.  The old channel follows in a   *)
(* transaction of its own.                                                 *)
MayMark == active /\ mode # "worker" /\ \A t \in Task : Unmanaged(t) /\ task[t].status = "ready"

(* Mutant: the channel is set before the run.                              *)
MarkChannelFirst ==
    /\ Publishing("marking")
    /\ channel' = "ready" /\ publisher' = Ended
    /\ UNCHANGED <<status, task, point, mode, created>>

MarkChannelReady ==
    /\ Publishing("marking")
    /\ IF MayMark
       THEN mode' = "diagnostic" /\ status' = "ready" /\ publisher' = [publisher EXCEPT !.pc = "channel"]
       ELSE UNCHANGED <<mode, status>> /\ publisher' = Ended
    /\ UNCHANGED <<task, point, created, channel>>

SetChannelStatus ==
    /\ Publishing("channel")
    /\ channel' = "ready" /\ publisher' = Ended
    /\ UNCHANGED <<status, task, point, mode, created>>

(* An error or the end of its process.                                     *)
PublisherEnds ==
    /\ publisher.pc # "idle" /\ publisher' = Ended
    /\ UNCHANGED <<vars, mode, created, channel, collection, search>>

Publisher ==
    \/ Begin \/ WritePoints \/ Report \/ MarkChannelReady \/ SetChannelStatus \/ PublisherEnds
    \/ \E t \in Task : CreateTask(t) \/ SetTaskStatus(t)

-----------------------------------------------------------------------------
(* MilvusAdapter.search().                                                 *)

Searching(pc) == search.pc = pc /\ UNCHANGED <<vars, mode, created, channel, publisher, collection>>

(* get_channel_status() of the projection.                                 *)
RunStatus == IF mode = "none" THEN "absent" ELSE status

Ask ==
    /\ search.pc \in {"idle", "verified"} /\ Searching(search.pc) /\ RunStatus = "ready"
    /\ search' = [search EXCEPT !.pc = "asked"]

Answered ==
    /\ Searching("asked")
    /\ \/ collection = "fits"
          /\ \E rows \in SUBSET {[task |-> t, vector |-> point[t]] : t \in {u \in Task : point[u] # None}}, strange \in BOOLEAN :
                search' = [pc |-> "found", rows |-> rows, strange |-> strange]
       \/ search' = NoSearch

(* Mutants: what was read before the index was asked still counts; the     *)
(* rows are believed; the tasks are not looked at.                         *)
StatusWasRead == ~search.strange /\ \A row \in search.rows : task[row.task].status = "ready"
RowsBelieved == RunStatus = "ready" /\ active /\ \A row \in search.rows : task[row.task].status = "ready"
TasksUnseen == RunStatus = "ready" /\ ~search.strange

(* verify_vector_rows(): one snapshot of the tables says that the run is   *)
(* ready and the projection active, and knows every row as the point of a  *)
(* document whose one task is ready.                                       *)
Verified ==
    /\ RunStatus = "ready" /\ active
    /\ ~search.strange /\ \A row \in search.rows : task[row.task].status = "ready"

Verify ==
    /\ Searching("found")
    /\ search' = IF Verified THEN [NoSearch EXCEPT !.pc = "verified"] ELSE NoSearch

Search == Ask \/ Answered \/ Verify

SearchNext ==
    \/ Project
    \/ Enqueue
    \/ Publisher
    \/ Search

-----------------------------------------------------------------------------
(* A run that is ready, whoever made it so, has every task ready and every *)
(* point was in the index; the old channel says ready only of a run that   *)
(* the publisher made ready, and a collection of another schema is never   *)
(* searched (publish, mark_channel_ready, set_channel_status).             *)
ReadyIsReady ==
    /\ ReadyRunIsComplete
    /\ RunStatus = "ready" => mode = "worker" \/ created = Task
    /\ channel = "ready" => mode = "diagnostic" /\ status = "ready"
    /\ collection = "differs" => RunStatus # "ready" /\ search = NoSearch

(* What a search returns is of the projection that is active when it is    *)
(* verified, and each of its rows was found by the vector that the tables  *)
(* hold for it then or that the publisher wrote; and the publisher never   *)
(* moves a task or the run of a worker (verify_vector_rows,                *)
(* set_task_status, mark_channel_ready).                                   *)
OthersAreLeftAlone ==
    /\ search.pc = "found" /\ search'.pc = "verified" =>
          /\ active /\ RunStatus = "ready" /\ ~search.strange
          /\ \A row \in search.rows : row.vector \in {0, task[row.task].vector} /\ task[row.task].status = "ready"
    /\ mode = "worker" /\ publisher' # publisher => UNCHANGED <<status, task, mode>>
    /\ mode = "worker" => mode' = "worker"
=============================================================================
