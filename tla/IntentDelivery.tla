--------------------------- MODULE IntentDelivery ---------------------------
(***************************************************************************)
(* From an operator's message to its effect: LiveIntentRuntime.submit with *)
(* IntentApplication and IntentService (which revision a message makes),   *)
(* SQLiteIntentStore (heads, messages, outbox, receipts),                  *)
(* IntentDispatcher (fresh checks, lookup, submit, receipt) and            *)
(* LiveIntentRoutes (deliveries, plans, executions and their control).     *)
(*                                                                         *)
(* Requests run in concurrent threads; each SQLite transaction is one      *)
(* step, and between two of them other requests, a fault or a restart may  *)
(* come.  The intent store and the routes are two databases.  A message's  *)
(* words are abstracted to the route its candidate resolves to.            *)
(***************************************************************************)
EXTENDS Naturals, FiniteSets

CONSTANTS Caller,       \* the threads that serve requests
          Message,      \* message ids of the operator
          Intent,       \* intent ids
          Run,          \* the session's own runtime, a task like a plan
          MaxRevisions, \* bound: revisions of an intent
          MaxFaults,    \* bound: failed requests and restarts
          None

Key == Intent \X (1..MaxRevisions)

(* A plan has a fresh id; deliveries make one per revision, whose key      *)
(* names it here.                                                          *)
Plan == Key
Task == Plan \cup {Run}

(* What a revision asks for, and what a message is resolved in.            *)
Request == [route : {"plan", "clarify", "direct_answer", "cancel"}, task : Task \cup {None},
            bound : Nat \cup {None}, inherited : BOOLEAN]
Context == [intent : Intent, expected : 0..MaxRevisions, tasks : [Task -> Nat \cup {None}], version : 1..2]

ASSUME DeliveryAssumption ==
    /\ {MaxRevisions, MaxFaults} \subseteq Nat
    /\ Run \notin Plan /\ None \notin Task \cup Request \cup Context

VARIABLES
    head,     \* heads: the latest revision of each intent
    request,  \* revisions: the route of each, and its task binding
    message,  \* messages: the revision each message resolved to, per context
    context,  \* input_contexts: the context prepared for each message
    outbox, receipt,            \* by revision, in the intent store
    delivery, plan, execution,  \* in the routes' store; and the runs of plans
    run,      \* the session's runtime as its control status shows it
    effects,  \* history: acceptances of each revision
    caller,   \* what each thread is doing
    faults

intents == <<head, request, message, outbox, receipt>>
routes == <<delivery, plan, execution, effects>>
vars == <<intents, context, routes, run, caller, faults>>

Idle == [pc |-> "idle", msg |-> None, key |-> None, saved |-> "none", got |-> "none"]

RunVersion == [running |-> 1, cancel_requested |-> 2, ended |-> 3, lost |-> 4]

Version(t) == IF t = Run THEN RunVersion[run] ELSE plan[t].version
Listed(t) == IF t = Run THEN run # "lost" ELSE plan[t].version > 0

(* tasks(): what the context shows, with the versions it shows.            *)
Tasks == [t \in Task |-> IF Listed(t) THEN Version(t) ELSE None]

Init ==
    /\ head = [i \in Intent |-> 0]
    /\ request = [k \in Key |-> None]
    /\ message = [m \in Message |-> [v \in 1..2 |-> None]]
    /\ context = [m \in Message |-> None]
    /\ outbox = [k \in Key |-> "none"] /\ receipt = [k \in Key |-> "none"]
    /\ delivery = [k \in Key |-> "none"] /\ effects = [k \in Key |-> 0]
    /\ plan = [p \in Plan |-> [status |-> "absent", version |-> 0]]
    /\ execution = [p \in Plan |-> "none"]
    /\ run = "running"
    /\ caller = [c \in Caller |-> Idle]
    /\ faults = 0

At(c, pc) == caller[c].pc = pc
Step(c, pc) == caller' = [caller EXCEPT ![c].pc = pc]

(* The request ends: with a result, or refused with a conflict.            *)
Return(c) == caller' = [caller EXCEPT ![c] = Idle]
-----------------------------------------------------------------------------
(* Messages and revisions                                                  *)

Named(i) == \E m \in Message : context[m] # None /\ context[m].intent = i

(* prepare: the context of a message is read once and kept for retries.    *)
Prepare(c, m) ==
    /\ At(c, "idle")
    /\ \/ /\ context[m] # None
          /\ UNCHANGED context
       \/ /\ context[m] = None
          /\ \E i \in Intent :
                /\ head[i] < MaxRevisions /\ (head[i] = 0 => ~Named(i))
                /\ context' = [context EXCEPT ![m] =
                       [intent |-> i, expected |-> head[i], tasks |-> Tasks, version |-> 1]]
    /\ caller' = [caller EXCEPT ![c] = [Idle EXCEPT !.pc = "resolve", !.msg = m]]
    /\ UNCHANGED <<intents, routes, run, faults>>

(* The requests a candidate can resolve to in context x: a question is not *)
(* answered again once it needs evidence, a control names a listed task,   *)
(* and a continuation inherits its objective from the revision before.     *)
(* "clarify" stands for "unsupported" too: neither is delivered.           *)
Resolutions(x) ==
    {[route |-> r, task |-> None, bound |-> None, inherited |-> FALSE] : r \in {"plan", "clarify"}}
    \cup {[route |-> "direct_answer", task |-> None, bound |-> None, inherited |-> n] :
              n \in {b \in BOOLEAN : x.version = 1 /\ (b => x.expected > 0)}}
    \cup {[route |-> "cancel", task |-> t, bound |-> x.tasks[t], inherited |-> FALSE] :
              t \in {u \in Task : x.tasks[u] # None}}

(* Mutant of Commit: the entry of the previous revision stays pending.     *)
CommitLeavesPending(m, v, i, q) ==
    LET k == <<i, head[i] + 1>>
    IN  /\ head[i] < MaxRevisions
        /\ head' = [head EXCEPT ![i] = @ + 1]
        /\ request' = [request EXCEPT ![k] = q]
        /\ message' = [message EXCEPT ![m][v] = k]
        /\ outbox' = [outbox EXCEPT ![k] = IF q.route = "clarify" THEN "none" ELSE "pending"]
        /\ UNCHANGED receipt

(* commit: the head moves by one, and the new revision's outbox entry      *)
(* replaces every pending one.                                             *)
Commit(m, v, i, q) ==
    LET k == <<i, head[i] + 1>>
    IN  /\ head[i] < MaxRevisions
        /\ head' = [head EXCEPT ![i] = @ + 1]
        /\ request' = [request EXCEPT ![k] = q]
        /\ message' = [message EXCEPT ![m][v] = k]
        /\ outbox' = [n \in Key |->
               CASE n = k -> IF q.route = "clarify" THEN "none" ELSE "pending"
                 [] n # k /\ n[1] = i /\ outbox[n] = "pending" -> "superseded"
                 [] OTHER -> outbox[n]]
        /\ UNCHANGED receipt

(* replay: the revision that a message has made in its context.            *)
Replayed(m, x) == message[m][x.version]

(* IntentApplication.submit up to the dispatch: a replayed message has its *)
(* revision, a new one is resolved and committed if nothing came between.  *)
Resolve(c) ==
    /\ At(c, "resolve")
    /\ LET m == caller[c].msg
           x == context[m]
           known == Replayed(m, x)
       IN  \/ /\ known # None
              /\ caller' = [caller EXCEPT ![c].pc = "dispatch", ![c].key = known]
              /\ UNCHANGED intents
           \/ /\ known = None /\ head[x.intent] = x.expected
              /\ \E q \in Resolutions(x) : Commit(m, x.version, x.intent, q)
              /\ caller' = [caller EXCEPT ![c].pc = "dispatch",
                                          ![c].key = <<x.intent, head[x.intent] + 1>>]
           \/ /\ known = None /\ head[x.intent] # x.expected
              /\ Return(c)
              /\ UNCHANGED intents
    /\ UNCHANGED <<context, routes, run, faults>>
-----------------------------------------------------------------------------
(* Dispatch                                                                *)

IsHead(k) == head[k[1]] = k[2]

(* _authorize: the task of a control is as it was bound, unless a receipt  *)
(* has been saved.                                                         *)
Authorized(k, saved) ==
    request[k].route = "cancel" =>
        /\ Listed(request[k].task)
        /\ saved # "none" \/ Version(request[k].task) = request[k].bound

(* dispatch, and _deliver up to its first validation.                      *)
Dispatch(c) ==
    /\ At(c, "dispatch")
    /\ LET k == caller[c].key
       IN  IF IsHead(k) /\ request[k].route # "clarify" /\ Authorized(k, receipt[k])
           THEN caller' = [caller EXCEPT ![c].pc = "lookup", ![c].saved = receipt[k]]
           ELSE Return(c)
    /\ UNCHANGED <<intents, context, routes, run, faults>>

(* Mutant of LookedUp: a cancel that was taken counts as done.             *)
LookedUpEarly(k) ==
    IF request[k].task = Run /\ delivery[k] = "accepted" THEN "completed" ELSE delivery[k]

(* lookup: an accepted cancel is completed once the runtime has ended.     *)
LookedUp(k) ==
    IF request[k].task = Run /\ delivery[k] = "accepted" /\ run = "ended"
    THEN "completed" ELSE delivery[k]

(* A completed receipt is final; otherwise the receiver is asked first.    *)
Lookup(c) ==
    /\ At(c, "lookup")
    /\ LET k == caller[c].key
       IN  \/ /\ caller[c].saved = "completed"
              /\ caller' = [caller EXCEPT ![c].pc = "save", ![c].got = "completed"]
              /\ UNCHANGED delivery
           \/ /\ caller[c].saved # "completed" /\ delivery[k] # "none"
              /\ delivery' = [delivery EXCEPT ![k] = LookedUp(k)]
              /\ caller' = [caller EXCEPT ![c].pc = "save", ![c].got = LookedUp(k)]
           \/ /\ caller[c].saved # "completed" /\ delivery[k] = "none"
              /\ Step(c, "submit")
              /\ UNCHANGED delivery
    /\ UNCHANGED <<intents, context, plan, execution, effects, run, faults>>

(* What an acceptance does to its plan or its target.                      *)
Effect(k) ==
    LET q == request[k]
    IN  /\ plan' =
             IF q.route = "plan"
             THEN [plan EXCEPT ![k] = [status |-> "draft", version |-> 1]]
             ELSE IF q.task \in Plan /\ plan[q.task].status # "cancelled"
             THEN [plan EXCEPT ![q.task] = [status |-> "cancelled", version |-> @.version + 1]]
             ELSE plan
        /\ run' = IF q.task = Run /\ run = "running" THEN "cancel_requested" ELSE run
        /\ delivery' = [delivery EXCEPT ![k] =
                            IF q.task = Run /\ run # "ended" THEN "accepted" ELSE "completed"]
        /\ effects' = [effects EXCEPT ![k] = @ + 1]

(* Mutants of Accept: without the revision guard; without the second look  *)
(* at the deliveries.                                                      *)
AcceptUnguarded(c) ==
    /\ At(c, "submit")
    /\ LET k == caller[c].key
       IN  IF Authorized(k, "none") /\ delivery[k] = "none"
           THEN Effect(k) /\ caller' = [caller EXCEPT ![c].pc = "save", ![c].got = delivery'[k]]
           ELSE Return(c) /\ UNCHANGED <<plan, run, delivery, effects>>
    /\ UNCHANGED <<intents, context, execution, faults>>
AcceptUnlooked(c) ==
    /\ At(c, "submit")
    /\ LET k == caller[c].key
       IN  IF IsHead(k) /\ Authorized(k, "none")
           THEN Effect(k) /\ caller' = [caller EXCEPT ![c].pc = "save", ![c].got = delivery'[k]]
           ELSE Return(c) /\ UNCHANGED <<plan, run, delivery, effects>>
    /\ UNCHANGED <<intents, context, execution, faults>>

(* revision_guard: under the intent store's write lock, so that no         *)
(* revision can be published meanwhile.                                    *)
Guarded(k) == IsHead(k)

(* submit, its transaction under that guard, unless a concurrent request   *)
(* of the same key has been accepted.                                      *)
Accept(c) ==
    /\ At(c, "submit")
    /\ LET k == caller[c].key
       IN  \/ /\ Guarded(k) /\ Authorized(k, "none") /\ delivery[k] = "none"
              /\ Effect(k)
              /\ caller' = [caller EXCEPT ![c].pc = "save", ![c].got = delivery'[k]]
           \/ /\ Guarded(k) /\ Authorized(k, "none") /\ delivery[k] # "none"
              /\ caller' = [caller EXCEPT ![c].pc = "save", ![c].got = delivery[k]]
              /\ UNCHANGED <<plan, run, delivery, effects>>
           \/ /\ ~Guarded(k) \/ ~Authorized(k, "none")
              /\ Return(c)
              /\ UNCHANGED <<plan, run, delivery, effects>>
    /\ UNCHANGED <<intents, context, execution, faults>>

(* Mutant of SaveReceipt: any receipt replaces the saved one.              *)
SaveReceiptAlways(c) ==
    /\ At(c, "save")
    /\ LET k == caller[c].key
       IN  /\ receipt' = [receipt EXCEPT ![k] = caller[c].got]
           /\ outbox' = IF outbox[k] = "superseded" THEN outbox
                        ELSE [outbox EXCEPT ![k] = caller[c].got]
    /\ Return(c)
    /\ UNCHANGED <<head, request, message, context, routes, run, faults>>

(* save_receipt: the only transition is from accepted to completed.  The   *)
(* validation that follows decides what the operator is told and writes    *)
(* nothing.                                                                *)
SaveReceipt(c) ==
    /\ At(c, "save")
    /\ LET k == caller[c].key
       IN  IF receipt[k] \in {"none", "accepted"}
           THEN /\ receipt' = [receipt EXCEPT ![k] = caller[c].got]
                /\ outbox' = IF outbox[k] = "superseded" THEN outbox
                             ELSE [outbox EXCEPT ![k] = caller[c].got]
           ELSE UNCHANGED <<receipt, outbox>>
    /\ Return(c)
    /\ UNCHANGED <<head, request, message, context, routes, run, faults>>
-----------------------------------------------------------------------------
(* A question that turns out to need evidence                              *)

(* submit raises NewEvidenceRequired before any guard is taken.            *)
NeedEvidence(c) ==
    /\ At(c, "submit")
    /\ request[caller[c].key].route = "direct_answer"
    /\ caller[c].key[2] < MaxRevisions
    /\ Step(c, "evidence")
    /\ UNCHANGED <<intents, context, routes, run, faults>>

(* The except branch of LiveIntentRuntime.submit: the latest revision is   *)
(* read again and committed once more as a plan, in a new version of the   *)
(* message's context.  validate_sources refuses every source that names    *)
(* another message or another context version: a revision that came in     *)
(* between, and all that the question had inherited.                       *)
Reroute(c) ==
    /\ At(c, "evidence")
    /\ LET m == caller[c].msg
           k == caller[c].key
       IN  \/ /\ message[m][2] = None
              /\ IsHead(k) /\ ~request[k].inherited
              /\ Commit(m, 2, k[1], [request[k] EXCEPT !.route = "plan"])
              /\ caller' = [caller EXCEPT ![c].pc = "keep", ![c].key = <<k[1], k[2] + 1>>]
           \/ /\ message[m][2] # None
              /\ caller' = [caller EXCEPT ![c].pc = "keep", ![c].key = message[m][2]]
              /\ UNCHANGED intents
           \/ /\ message[m][2] = None
              /\ ~IsHead(k) \/ request[k].inherited
              /\ Return(c)
              /\ UNCHANGED intents
    /\ UNCHANGED <<context, routes, run, faults>>

(* Mutant of KeepContext: the new context is not stored.                   *)
KeepContextInMemory(c) ==
    /\ At(c, "keep")
    /\ Step(c, "dispatch")
    /\ UNCHANGED <<intents, context, routes, run, faults>>

(* The new context version is stored for the retries of the message.       *)
KeepContext(c) ==
    /\ At(c, "keep")
    /\ context' = [context EXCEPT ![caller[c].msg].version = 2]
    /\ Step(c, "dispatch")
    /\ UNCHANGED <<intents, routes, run, faults>>
-----------------------------------------------------------------------------
(* Execution of plans                                                      *)

(* Mutant of ClaimExecution: the state of the plan is not looked at.       *)
ClaimExecutionAnyState(c, p) ==
    /\ At(c, "idle")
    /\ plan[p].status # "absent"
    /\ execution' = [execution EXCEPT ![p] = IF @ = "none" THEN "open" ELSE @]
    /\ plan' = IF execution[p] # "none" THEN plan
               ELSE [plan EXCEPT ![p].status = "executing", ![p].version = @ + 1]
    /\ caller' = [caller EXCEPT ![c] = [Idle EXCEPT !.pc = "execute", !.key = p]]
    /\ UNCHANGED <<intents, context, delivery, effects, run, faults>>

(* execute_plan, its transaction: a draft is claimed, or a run that was    *)
(* claimed before is taken up again.                                       *)
ClaimExecution(c, p) ==
    /\ At(c, "idle")
    /\ plan[p].status # "absent"
    /\ \/ /\ execution[p] = "none" /\ plan[p].status = "draft"
          /\ execution' = [execution EXCEPT ![p] = "open"]
          /\ plan' = [plan EXCEPT ![p].status = "executing", ![p].version = @ + 1]
       \/ /\ execution[p] # "none"
          /\ UNCHANGED <<execution, plan>>
    /\ caller' = [caller EXCEPT ![c] = [Idle EXCEPT !.pc = "execute", !.key = p]]
    /\ UNCHANGED <<intents, context, delivery, effects, run, faults>>

(* PlanRuntime.run, module PlanExecution: it ends once, and a plan that    *)
(* was cancelled may have been seen so.                                    *)
ExecutePlan(c) ==
    /\ At(c, "execute")
    /\ LET p == caller[c].key
       IN  IF execution[p] # "open" THEN UNCHANGED execution
           ELSE \E s \in {"completed"} \cup IF plan[p].status = "cancelled"
                                            THEN {"cancelled"} ELSE {} :
                    execution' = [execution EXCEPT ![p] = s]
    /\ Step(c, "report")
    /\ UNCHANGED <<intents, context, delivery, plan, effects, run, faults>>

(* Mutant of Report: the cancelled plan gets the report's status.          *)
ReportAlways(c) ==
    /\ At(c, "report")
    /\ LET p == caller[c].key
       IN  plan' = IF plan[p].status = execution[p] THEN plan
                   ELSE [plan EXCEPT ![p].status = execution[p], ![p].version = @ + 1]
    /\ Return(c)
    /\ UNCHANGED <<intents, context, delivery, execution, effects, run, faults>>

(* execute_plan, its last statement.                                       *)
Report(c) ==
    /\ At(c, "report")
    /\ LET p == caller[c].key
       IN  plan' = IF plan[p].status \in {execution[p], "cancelled"} THEN plan
                   ELSE [plan EXCEPT ![p].status = execution[p], ![p].version = @ + 1]
    /\ Return(c)
    /\ UNCHANGED <<intents, context, delivery, execution, effects, run, faults>>
-----------------------------------------------------------------------------
(* The runtime and failures                                                *)

RunEnds ==
    /\ run \in {"running", "cancel_requested"}
    /\ run' = "ended"
    /\ UNCHANGED <<intents, context, routes, caller, faults>>

Fault == faults < MaxFaults /\ faults' = faults + 1

(* A request ends in an error between two of its transactions: a model or  *)
(* network failure, a locked database.                                     *)
FailRequest(c) ==
    /\ ~At(c, "idle")
    /\ Fault
    /\ Return(c)
    /\ UNCHANGED <<intents, context, routes, run>>

(* The process is restarted: the databases stay, a live runtime is lost.   *)
Restart ==
    /\ Fault
    /\ caller' = [c \in Caller |-> Idle]
    /\ run' = IF run = "ended" THEN run ELSE "lost"
    /\ UNCHANGED <<intents, context, routes>>

Handle(c) ==
    \/ Resolve(c) \/ Dispatch(c) \/ Lookup(c) \/ Accept(c) \/ SaveReceipt(c)
    \/ NeedEvidence(c) \/ Reroute(c) \/ KeepContext(c)
    \/ ExecutePlan(c) \/ Report(c)

Next ==
    \/ \E c \in Caller : \/ \E m \in Message : Prepare(c, m)
                         \/ Handle(c)
                         \/ \E p \in Plan : ClaimExecution(c, p)
                         \/ FailRequest(c)
    \/ RunEnds
    \/ Restart

Spec == Init /\ [][Next]_vars
-----------------------------------------------------------------------------
(* Properties                                                              *)

TypeOK ==
    /\ head \in [Intent -> 0..MaxRevisions]
    /\ \A k \in Key : request[k] # None <=> k[2] <= head[k[1]]
    /\ \A m \in Message, v \in 1..2 : message[m][v] \in Key \cup {None}
    /\ outbox \in [Key -> {"none", "pending", "superseded", "accepted", "completed"}]
    /\ {receipt, delivery} \subseteq [Key -> {"none", "accepted", "completed"}]
    /\ plan \in [Plan -> [status : {"absent", "draft", "executing", "completed", "cancelled"},
                         version : 0..4]]
    /\ execution \in [Plan -> {"none", "open", "completed", "cancelled"}]
    /\ run \in {"running", "cancel_requested", "ended", "lost"}
    /\ effects \in [Key -> Nat]
    /\ \A c \in Caller : caller[c].pc \in {"idle", "resolve", "dispatch", "lookup", "submit",
                                          "save", "evidence", "keep", "execute", "report"}

(* Only the latest revision takes effect, and once, however often its      *)
(* message is sent again and whichever request of it comes first.          *)
Handoff == INSTANCE IntentHandoff WITH latest <- head

HandoffSpec == Handoff!Spec

(* What waits to be delivered is the latest revision: a corrected request  *)
(* is never picked up again.                                               *)
PendingIsLatest == \A k \in Key : outbox[k] = "pending" => IsHead(k)

(* A cancel of the runtime is reported completed only when the runtime has *)
(* ended (docs/guides/intent-live-integration.md:35-36).                   *)
CompletedMeansEnded ==
    \A k \in Key : receipt[k] = "completed" /\ request[k].task = Run => run = "ended"

(* A request that waits to be delivered is the one its message, sent       *)
(* again, will deliver.  Only a rerouted one can be out of reach, when a   *)
(* fault came between its commit and the saving of its context.            *)
PendingIsRetried ==
    \A k \in Key : outbox[k] = "pending" =>
        \/ \E m \in Message : context[m] # None /\ Replayed(m, context[m]) = k
        \/ \E m \in Message : message[m][2] = k /\ faults > 0
        \/ \E c \in Caller : At(c, "keep") /\ caller[c].key = k

(* Outbox, receipts and runs agree between any two steps of the callers.   *)
DeliveriesAgree == TypeOK /\ PendingIsLatest /\ PendingIsRetried /\ CompletedMeansEnded

(* Two threads that carry the receipts of one delivery never undo its      *)
(* completion, in the receipts or in the outbox.                           *)
ReceiptsAdvance ==
    [][\A k \in Key : /\ receipt[k] = "completed" => receipt'[k] = "completed"
                      /\ outbox[k] = "completed" => outbox'[k] = "completed"]_vars

(* A cancelled plan stays cancelled, whatever a run of it reports, and no  *)
(* run of it is opened any more.                                           *)
CancelIsFinal ==
    [][\A p \in Plan : plan[p].status = "cancelled" =>
          plan'[p].status = "cancelled" /\ (execution'[p] = "open" => execution[p] = "open")]_vars

(* The design (docs/superpowers/specs/2026-09-14-prd006a-intent-           *)
(* recognition-design.md:97): sent again after a crash that followed the   *)
(* handover, a request still gets the original receipt.                    *)
ReplayReturnsReceipt ==
    [][\A c \in Caller :
          LET k == caller[c].key
          IN  /\ At(c, "dispatch") /\ delivery[k] # "none" /\ IsHead(k)
              /\ faults' = faults /\ \A d \in Caller \ {c} : At(d, "idle")
              => caller'[c].pc # "idle"]_vars

(* The guide (docs/guides/intent-live-integration.md:32): a question found *)
(* to need evidence becomes a new revision that is routed to a plan.       *)
EvidenceRevisesItsQuestion ==
    [][\A c \in Caller : At(c, "evidence") /\ IsHead(caller[c].key) /\ faults' = faults
                             => caller'[c].pc # "idle"]_vars
=============================================================================
