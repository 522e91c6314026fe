------------------------- MODULE DiagnosisSessions -------------------------
(***************************************************************************)
(* DiagnosisApplicationService, RuntimeEventBus and the store behind them: *)
(* a request starts a session, a thread runs it and announces how it       *)
(* ended, and clients follow it over event streams, may ask for its        *)
(* status, and may ask for it to be cancelled.                             *)
(*                                                                         *)
(* The service keeps everything in memory; the store has what was saved,   *)
(* one row at a time.  The process may die between any two steps and is    *)
(* then started again from the store.                                      *)
(*                                                                         *)
(* The bus numbers its events as it appends them, so a buffer, or a batch  *)
(* that is taken from one, is a set here: its order is that of the ids.    *)
(***************************************************************************)
EXTENDS Naturals, FiniteSets

CONSTANTS
    Incident, Session,
    IncidentOf,    \* the incident each session is started for
    Reader,        \* the clients that follow a session, each with its stream
    MaxEvents,     \* max_events_per_session
    MaxProgress,   \* bound: events of each run between its start and its end
    Watched,       \* bound: the sessions that clients ask the status of
    MaxRestarts    \* bound: deaths of the process

ASSUME SessionAssumption ==
    /\ IncidentOf \in [Session -> Incident] /\ "none" \notin Session
    /\ MaxEvents \in Nat \ {0} /\ MaxProgress \in [Session -> Nat] /\ MaxRestarts \in Nat

VARIABLES
    starter,   \* where the request that starts a session is
    starting,  \* _running_incidents
    sessions,  \* sessions: the status of the session in memory
    worker,    \* where the thread of a session is
    outcome,   \* RuntimeResult.status, a local of the thread
    results,   \* results; "null" is the None the exception handler leaves
    asked,     \* _cancel_requests
    finished,  \* _finished_runs
    storedSession, storedResult, \* the sessions table
    sequence,  \* the bus: _sequence
    events,    \* the bus: _events
    terminal,  \* the bus: _terminal
    holders,   \* streams suspended while they hold the lock of the bus
    lost,      \* the lock was never given back
    stream,    \* a client's stream: place, session, batch in hand
    cursor,    \* the last event a client received, its Last-Event-ID
    inquiry,   \* a client's request for a status: place, session, what was read
    restarts

serviceVars == <<starter, starting, sessions, worker, outcome, results, asked, finished>>
storeVars == <<storedSession, storedResult>>
busVars == <<sequence, events, terminal>>
lockVars == <<holders, lost>>
streamVars == <<stream, cursor>>
vars == <<serviceVars, storeVars, busVars, lockVars, streamVars, inquiry, restarts>>

Open == {"active", "waiting"}
Ended == {"completed", "failed", "cancelled"}
NoStream == [at |-> "closed", of |-> "none", batch |-> {}]
NoInquiry ==
    [at |-> "none", of |-> "none", event |-> "none", result |-> "none", answer |-> "none", overtaken |-> FALSE]

TypeOK ==
    /\ starter \in [Session -> {"none", "building", "launching", "over"}]
    /\ starting \subseteq Incident
    /\ sessions \in [Session -> {"absent"} \cup Open \cup Ended]
    /\ worker \in [Session -> {"none", "running", "recording", "result", "announcing", "marking",
                               "announcing_failure", "done"}]
    /\ outcome \in [Session -> {"none", "waiting_approval"} \cup Ended]
    /\ results \in [Session -> {"none", "null", "waiting_approval"} \cup Ended]
    /\ asked \in [Session -> {"none", "clear", "set"}]
    /\ finished \subseteq Session /\ terminal \subseteq Session
    /\ storedSession \in [Session -> {"absent"} \cup Open \cup Ended]
    /\ storedResult \in [Session -> {"none", "waiting_approval"} \cup Ended]
    /\ sequence \in Nat
    /\ \A s \in Session : Cardinality(events[s]) <= MaxEvents
    /\ holders \subseteq Reader /\ lost \in BOOLEAN
    /\ cursor \in [Reader -> Nat]
    /\ \A r \in Reader : inquiry[r].at \in {"none", "asked", "read", "told"}
    /\ restarts \in 0..MaxRestarts

Init ==
    /\ starter = [s \in Session |-> "none"] /\ starting = {}
    /\ sessions = [s \in Session |-> "absent"] /\ worker = [s \in Session |-> "none"]
    /\ outcome = [s \in Session |-> "none"] /\ results = [s \in Session |-> "none"]
    /\ asked = [s \in Session |-> "none"] /\ finished = {}
    /\ storedSession = [s \in Session |-> "absent"] /\ storedResult = [s \in Session |-> "none"]
    /\ sequence = 0 /\ events = [s \in Session |-> {}] /\ terminal = {}
    /\ holders = {} /\ lost = FALSE
    /\ stream = [r \in Reader |-> NoStream] /\ cursor = [r \in Reader |-> 0]
    /\ inquiry = [r \in Reader |-> NoInquiry]
    /\ restarts = 0

-----------------------------------------------------------------------------
(* The bus.                                                                *)

(* The event types that make a session terminal for publish().             *)
TerminalTypes == {"diagnosis.completed", "runtime.failed"}

(* del events[:-max_events_per_session]                                    *)
KeepLast(queue) == {e \in queue : Cardinality({newer \in queue : newer.id > e.id}) < MaxEvents}

(* publish(): a caller waits as long as a stream sits on the lock.         *)
Publish(s, type) ==
    /\ holders = {} /\ ~lost
    /\ sequence' = sequence + 1
    /\ events' = [events EXCEPT ![s] = KeepLast(@ \cup {[id |-> sequence + 1, type |-> type]})]
    /\ terminal' = IF type \in TerminalTypes THEN terminal \cup {s} ELSE terminal
    /\ UNCHANGED <<lockVars, streamVars>>

-----------------------------------------------------------------------------
(* The status of a session, as the service tells it.                       *)

(* Session._transition() to an end, from the statuses that allow it.       *)
Settle(s, status) == IF sessions[s] \in Open THEN status ELSE sessions[s]

(* Mutant: the session in memory is believed before its run is finished.   *)
StatusFromMemory(s) ==
    IF sessions[s] \in Ended THEN sessions[s] ELSE IF asked[s] = "none" THEN "unavailable" ELSE "running"

(* What session_control_status() makes of the event of a cancellation and  *)
(* of the result that it read, one after the other, before it looks at     *)
(* _finished_runs.  An event it holds may have been set in the meantime.   *)
StatusFrom(s, event, result) ==
    CASE s \in finished -> IF result \in {"none", "null"} THEN "failed" ELSE result
      [] s \notin finished /\ event # "none" -> IF asked[s] = "set" THEN "cancel_requested" ELSE "running"
      [] OTHER -> IF sessions[s] \in Ended THEN sessions[s] ELSE "unavailable"

(* The status of a session: what is told when nothing moves meanwhile.     *)
ControlStatus(s) == StatusFrom(s, asked[s], results[s])

(* get_session()                                                           *)
SessionView(s) ==
    CASE results[s] \notin {"none", "null"} -> results[s]
      [] results[s] \in {"none", "null"} /\ storedResult[s] # "none" -> storedResult[s]
      [] OTHER -> "running"

-----------------------------------------------------------------------------
(* start_session()                                                         *)

(* Mutant: only the sessions are looked at, not the starts under way.      *)
NoOpenSession(i) == \A s \in Session : IncidentOf[s] = i => sessions[s] \notin Open

(* What start_session() asks for under its lock.                           *)
Startable(i) == i \notin starting /\ \A s \in Session : IncidentOf[s] = i => sessions[s] \notin Open

Admit(s) ==
    /\ starter[s] = "none" /\ sessions[s] = "absent"
    /\ Startable(IncidentOf[s])
    /\ starting' = starting \cup {IncidentOf[s]}
    /\ starter' = [starter EXCEPT ![s] = "building"]
    /\ UNCHANGED <<sessions, worker, outcome, results, asked, finished, storeVars, busVars, lockVars, streamVars, inquiry, restarts>>

(* A model, a registry or a skill that cannot be had: nothing is           *)
(* registered.                                                             *)
BuildFails(s) ==
    /\ starter[s] = "building"
    /\ starter' = [starter EXCEPT ![s] = "over"]
    /\ starting' = starting \ {IncidentOf[s]}
    /\ UNCHANGED <<sessions, worker, outcome, results, asked, finished, storeVars, busVars, lockVars, streamVars, inquiry, restarts>>

(* The session is registered, and the incident and the session are saved.  *)
(* The store may refuse: the session is then registered without anything   *)
(* that will run it.                                                       *)
Register(s) ==
    /\ starter[s] = "building"
    /\ sessions' = [sessions EXCEPT ![s] = "active"]
    /\ \/ /\ storedSession' = [storedSession EXCEPT ![s] = "active"]
          /\ starter' = [starter EXCEPT ![s] = "launching"]
          /\ UNCHANGED starting
       \/ /\ starter' = [starter EXCEPT ![s] = "over"]
          /\ starting' = starting \ {IncidentOf[s]}
          /\ UNCHANGED storedSession
    /\ UNCHANGED <<worker, outcome, results, asked, finished, storedResult, busVars, lockVars, streamVars, inquiry, restarts>>

(* A status request whose client has read what now changes.                *)
Overtake(s, places) == inquiry' =
    [r \in Reader |-> IF inquiry[r].of = s /\ inquiry[r].at \in places
                       THEN [inquiry[r] EXCEPT !.overtaken = TRUE] ELSE inquiry[r]]

Launch(s) ==
    /\ starter[s] = "launching"
    /\ Publish(s, "session.started")
    /\ starter' = [starter EXCEPT ![s] = "over"]
    /\ starting' = starting \ {IncidentOf[s]}
    /\ asked' = [asked EXCEPT ![s] = "clear"]
    /\ worker' = [worker EXCEPT ![s] = "running"]
    /\ Overtake(s, {"asked", "read"})
    /\ UNCHANGED <<sessions, outcome, results, finished, storeVars, restarts>>

-----------------------------------------------------------------------------
(* _run_session(), the thread of a session.                                *)

(* The thread of s goes from one place to another and touches nothing      *)
(* else of the service.                                                    *)
Step(s, from, to) ==
    /\ worker[s] = from
    /\ worker' = [worker EXCEPT ![s] = to]
    /\ UNCHANGED <<starter, starting, asked, restarts>>

(* An event of the run itself, through the event sink.                     *)
Progress(s) ==
    /\ Cardinality({e \in events[s] : e.type = "turn.started"}) < MaxProgress[s]
    /\ Step(s, "running", "running")
    /\ Publish(s, "turn.started")
    /\ UNCHANGED <<sessions, outcome, results, finished, storeVars, inquiry>>

(* engine.run() returns: the session is in the status of the result, and   *)
(* a run that waits for an approval leaves it waiting.                     *)
EngineReturns(s) ==
    /\ Step(s, "running", "recording")
    /\ \E status \in Ended \cup {"waiting_approval"} :
         /\ status = "cancelled" => asked[s] = "set"
         /\ outcome' = [outcome EXCEPT ![s] = status]
         /\ sessions' = [sessions EXCEPT ![s] = IF status = "waiting_approval" THEN "waiting" ELSE Settle(s, status)]
    /\ UNCHANGED <<results, finished, storeVars, busVars, lockVars, streamVars, inquiry>>

(* The exception handler, for whatever was raised on the way: what failed  *)
(* may already be in the store, and the session is not added to            *)
(* _finished_runs.                                                         *)
Fail(s) ==
    /\ \E place \in {"running", "recording", "result"} : Step(s, place, "announcing_failure")
    /\ results' = [results EXCEPT ![s] = "null"]
    /\ sessions' = [sessions EXCEPT ![s] = Settle(s, "failed")]
    /\ UNCHANGED <<outcome, finished, storeVars, busVars, lockVars, streamVars, inquiry>>

(* The recorder writes the memory of the run, and the session is saved.    *)
SaveSession(s) ==
    /\ Step(s, "recording", "result")
    /\ storedSession' = [storedSession EXCEPT ![s] = sessions[s]]
    /\ UNCHANGED <<sessions, outcome, results, finished, storedResult, busVars, lockVars, streamVars, inquiry>>

(* The result is stored, and then kept in memory for those who ask.        *)
SaveResult(s) ==
    /\ Step(s, "result", "announcing")
    /\ storedResult' = [storedResult EXCEPT ![s] = outcome[s]]
    /\ results' = [results EXCEPT ![s] = outcome[s]]
    /\ Overtake(s, {"read"})
    /\ UNCHANGED <<sessions, outcome, finished, storedSession, busVars, lockVars, streamVars>>

TerminalType(status) ==
    CASE status = "cancelled" -> "runtime.cancelled"
      [] status = "completed" -> "diagnosis.completed"
      [] OTHER -> "runtime.failed"

Announce(s) ==
    /\ Step(s, "announcing", "marking")
    /\ Publish(s, TerminalType(outcome[s]))
    /\ UNCHANGED <<sessions, outcome, results, finished, storeVars, inquiry>>

Mark(s) ==
    /\ Step(s, "marking", "done")
    /\ finished' = finished \cup {s}
    /\ UNCHANGED <<sessions, outcome, results, storeVars, busVars, lockVars, streamVars, inquiry>>

AnnounceFailure(s) ==
    /\ Step(s, "announcing_failure", "done")
    /\ Publish(s, "runtime.failed")
    /\ UNCHANGED <<sessions, outcome, results, finished, storeVars, inquiry>>

(* request_session_cancel(): a run is asked to stop; one that has no       *)
(* thread cannot be.  The status was looked at before: the run, which was  *)
(* not over then, may be by now.                                           *)
RequestCancel(s) ==
    /\ sessions[s] # "absent"
    /\ asked[s] # "none"
    /\ asked' = [asked EXCEPT ![s] = "set"]
    /\ UNCHANGED <<starter, starting, sessions, worker, outcome, results, finished, storeVars, busVars, lockVars, streamVars, inquiry, restarts>>

-----------------------------------------------------------------------------
(* session_control_status(), for a client: the event, the result and then  *)
(* _finished_runs are read one after the other, and no lock is held.       *)

InquiryUnchanged == UNCHANGED <<serviceVars, storeVars, busVars, lockVars, streamVars, restarts>>

(* Bound: a client follows sessions or asks for one.                       *)
Ask(r, s) ==
    /\ stream[r].of = "none" /\ inquiry[r].at \in {"none", "told"}
    /\ s \in Watched /\ sessions[s] # "absent"
    /\ inquiry' = [inquiry EXCEPT ![r] = [NoInquiry EXCEPT !.at = "asked", !.of = s,
                                             !.event = IF asked[s] = "none" THEN "none" ELSE "held"]]
    /\ InquiryUnchanged

ReadResult(r) ==
    /\ inquiry[r].at = "asked"
    /\ inquiry' = [inquiry EXCEPT ![r].at = "read", ![r].result = results[inquiry[r].of]]
    /\ InquiryUnchanged

(* Mutant: a result that is there is told before its run is finished.      *)
AnswerResult(r) ==
    LET q == inquiry[r] IN
    /\ q.at = "read"
    /\ LET status == IF q.result \in Ended THEN q.result ELSE StatusFrom(q.of, q.event, q.result) IN
       inquiry' = [inquiry EXCEPT ![r] =
           IF status \in Ended THEN [q EXCEPT !.at = "told", !.answer = status, !.result = "none"] ELSE NoInquiry]
    /\ InquiryUnchanged

(* What is told is kept when it is final.                                  *)
Answer(r) ==
    LET q == inquiry[r] IN
    /\ q.at = "read"
    /\ LET status == StatusFrom(q.of, q.event, q.result) IN
       inquiry' = [inquiry EXCEPT ![r] =
           IF status \in Ended THEN [q EXCEPT !.at = "told", !.answer = status, !.result = "none"] ELSE NoInquiry]
    /\ InquiryUnchanged

-----------------------------------------------------------------------------
(* stream(), one generator per client.  A step of it runs in a thread of   *)
(* the server's pool, which may be the one that holds the lock: the lock   *)
(* is reentrant, so nothing here waits for it.                             *)

StreamUnchanged == UNCHANGED <<serviceVars, storeVars, busVars, inquiry, restarts>>

(* A client connects, or connects again with the last id it saw.           *)
Connect(r, s) ==
    /\ stream[r].at = "closed" /\ stream[r].of \in {"none", s}
    /\ inquiry[r].at \notin {"asked", "read"}
    /\ sessions[s] # "absent"
    /\ stream' = [stream EXCEPT ![r] = [at |-> "waiting", of |-> s, batch |-> {}]]
    /\ inquiry' = [inquiry EXCEPT ![r] = NoInquiry]
    /\ UNCHANGED <<cursor, lockVars, serviceVars, storeVars, busVars, restarts>>

(* Mutant: only the latest event is looked at.                             *)
Newest(r) == {e \in events[stream[r].of] : e.id = sequence /\ e.id > cursor[r]}

Available(r) == {e \in events[stream[r].of] : e.id > cursor[r]}

(* Mutant: the stream does not notice that its session is terminal.        *)
TakeNew(r) ==
    /\ stream[r].at = "waiting" /\ Available(r) # {}
    /\ stream' = [stream EXCEPT ![r].at = "delivering", ![r].batch = Available(r)]
    /\ UNCHANGED <<cursor, lockVars>> /\ StreamUnchanged

(* The stream takes all that is new, or ends when there is nothing more to *)
(* come.                                                                   *)
Take(r) ==
    /\ stream[r].at = "waiting"
    /\ \/ /\ Available(r) # {}
          /\ stream' = [stream EXCEPT ![r].at = "delivering", ![r].batch = Available(r)]
       \/ /\ Available(r) = {} /\ stream[r].of \in terminal
          /\ stream' = [stream EXCEPT ![r].at = "ended"]
    /\ UNCHANGED <<cursor, lockVars>> /\ StreamUnchanged

Deliver(r) ==
    /\ stream[r].at = "delivering"
    /\ \E next \in stream[r].batch :
          LET rest == stream[r].batch \ {next} IN
          /\ \A e \in rest : next.id < e.id
          /\ cursor' = [cursor EXCEPT ![r] = next.id]
          /\ stream' = [stream EXCEPT ![r].batch = rest, ![r].at = IF rest = {} THEN "waiting" ELSE "delivering"]
    /\ UNCHANGED lockVars /\ StreamUnchanged

(* Nothing came in time: the keep-alive is handed over inside the lock.    *)
KeepAlive(r) ==
    /\ stream[r].at = "waiting"
    /\ Available(r) = {} /\ stream[r].of \notin terminal
    /\ stream' = [stream EXCEPT ![r].at = "keepalive"]
    /\ holders' = holders \cup {r}
    /\ UNCHANGED <<cursor, lost>> /\ StreamUnchanged

(* The client reads on: in the thread that took the lock the stream gives  *)
(* it back, in another one it dies of a lock that is not its own.          *)
ReadOn(r) ==
    /\ stream[r].at = "keepalive"
    /\ holders' = holders \ {r}
    /\ \/ stream' = [stream EXCEPT ![r].at = "waiting"] /\ UNCHANGED lost
       \/ stream' = [stream EXCEPT ![r].at = "closed"] /\ lost' = TRUE
    /\ UNCHANGED cursor /\ StreamUnchanged

(* The client goes away.  A stream it leaves inside the lock is closed by  *)
(* whichever thread collects it.                                           *)
Disconnect(r) ==
    /\ stream[r].at \in {"waiting", "delivering", "keepalive"}
    /\ stream' = [stream EXCEPT ![r].at = "closed", ![r].batch = {}]
    /\ holders' = holders \ {r}
    /\ lost' \in IF r \in holders THEN BOOLEAN ELSE {lost}
    /\ (lost => lost')
    /\ UNCHANGED cursor /\ StreamUnchanged

-----------------------------------------------------------------------------
(* The process dies; _restore_application_state() has what was saved.  The *)
(* bus is empty and numbers from one again, and a client whose session was *)
(* restored will receive nothing more of it, whatever id it comes with.    *)

Restored(s) == storedSession[s]

Restart ==
    /\ restarts < MaxRestarts
    /\ restarts' = restarts + 1
    /\ sessions' = [s \in Session |-> Restored(s)]
    /\ starter' = [s \in Session |-> IF starter[s] = "none" THEN "none" ELSE "over"]
    /\ starting' = {} /\ worker' = [s \in Session |-> "none"]
    /\ outcome' = [s \in Session |-> "none"] /\ results' = [s \in Session |-> "none"]
    /\ asked' = [s \in Session |-> "none"] /\ finished' = {}
    /\ sequence' = 0 /\ events' = [s \in Session |-> {}] /\ terminal' = {}
    /\ holders' = {} /\ lost' = FALSE
    /\ stream' = [r \in Reader |-> NoStream] /\ cursor' = [r \in Reader |-> 0]
    /\ inquiry' = [r \in Reader |-> IF inquiry[r].at = "told" THEN inquiry[r] ELSE NoInquiry]
    /\ UNCHANGED storeVars

Request(s) == Admit(s) \/ BuildFails(s) \/ Register(s) \/ Launch(s)

Thread(s) ==
    \/ EngineReturns(s) \/ SaveSession(s) \/ SaveResult(s) \/ Announce(s) \/ Mark(s)
    \/ Fail(s) \/ AnnounceFailure(s)

Follow(r) == Take(r) \/ Deliver(r)

Next ==
    \/ \E s \in Session : Request(s) \/ Thread(s) \/ Progress(s) \/ RequestCancel(s)
    \/ \E r \in Reader : Follow(r) \/ KeepAlive(r) \/ ReadOn(r) \/ Disconnect(r) \/ ReadResult(r) \/ Answer(r)
    \/ \E r \in Reader, s \in Session : Connect(r, s) \/ Ask(r, s)
    \/ Restart

Spec == Init /\ [][Next]_vars

(* A thread runs on, and a client that stays reads what is there.          *)
FairSpec == Spec /\ \A s \in Session : WF_vars(Thread(s))
                 /\ \A r \in Reader : WF_vars(Follow(r))

-----------------------------------------------------------------------------
(* Properties.                                                             *)

(* start_session() keeps its promise to run one session per incident: no   *)
(* two of them are being started or run by the engine.                     *)
OneRunPerIncident == \A i \in Incident :
    Cardinality({s \in Session : IncidentOf[s] = i /\ (worker[s] = "running" \/ starter[s] \notin {"none", "over"})}) <= 1

(* A run in _finished_runs is told, kept and stored as one and the same,   *)
(* and its streams were told to end, unless it was cancelled.              *)
FinishedIsStored == \A s \in finished :
    /\ results[s] = outcome[s] /\ storedResult[s] = outcome[s] /\ storedSession[s] = sessions[s]
    /\ outcome[s] # "cancelled" => s \in terminal

(* An open session that nothing will ever settle, which keeps its incident *)
(* from being diagnosed again, is one whose first save was refused, one    *)
(* that waits for an approval, or one whose process died.                  *)
OpenSessionIsRun == \A s \in Session :
    sessions[s] \in Open /\ starter[s] = "over" /\ worker[s] \in {"none", "done"}
        => \/ storedSession[s] = "absent"
           \/ outcome[s] = "waiting_approval"
           \/ restarts > 0 /\ storedSession[s] = sessions[s]

(* Once the control status of a session is final, get_session() says the   *)
(* same, or still "running" when the process died before the result was    *)
(* stored.                                                                 *)
ViewsAgree == \A s \in Session :
    ControlStatus(s) \in Ended
        => SessionView(s) = ControlStatus(s) \/ (SessionView(s) = "running" /\ storedResult[s] = "none")

(* A stream that ended on its own has delivered the event that closed its  *)
(* session, and nothing came after it.                                     *)
EndedStreamSawTheEnd == \A r \in Reader : stream[r].at = "ended" =>
    \E last \in events[stream[r].of] :
        /\ \A e \in events[stream[r].of] : e.id <= last.id
        /\ cursor[r] = last.id /\ last.type \in TerminalTypes

(* What the service, its store and its streams say of a session agrees, at *)
(* every step of the requests, the threads and the streams.                *)
SessionsAgree ==
    /\ TypeOK /\ OneRunPerIncident /\ FinishedIsStored /\ OpenSessionIsRun /\ ViewsAgree
    /\ EndedStreamSawTheEnd

(* A final control status never changes again, whatever fails or dies      *)
(* afterwards: session_control_status() tells what is durable, if nothing  *)
(* moves while it reads.                                                   *)
FinalStatusStays == [][\A s \in Session : ControlStatus(s) \in Ended => ControlStatus(s)' = ControlStatus(s)]_vars

(* A client is handed its events in order and skips none that the bus      *)
(* still holds, however often it comes back with Last-Event-ID.            *)
NoGapInAStream == [][\A r \in Reader : cursor'[r] # cursor[r] /\ restarts' = restarts =>
    /\ cursor'[r] > cursor[r]
    /\ \A e \in events[stream[r].of] : ~(cursor[r] < e.id /\ e.id < cursor'[r])]_vars

(* What session_control_status() told as final is the status from then on, *)
(* whatever moves, fails or dies while it reads and afterwards, but for    *)
(* two races: a run whose result was kept after the client had looked for  *)
(* it may be told as "failed" instead, and one that was launched after the *)
(* client had looked for it may be told before it is stored.               *)
AnswersAreTrue == \A r \in Reader :
    LET q == inquiry[r] IN
    q.at = "told" => \/ q.answer = ControlStatus(q.of)
                     \/ q.overtaken /\ (q.answer = "failed" \/ q.event = "none")

(* What a client was told is never taken back or left out, but for the     *)
(* races of a status request that are named above.                         *)
ClientsAreNotMisled == FinalStatusStays /\ NoGapInAStream /\ [][AnswersAreTrue']_vars

(* A thread that cannot announce the end of its run waits for a stream     *)
(* that sits on the lock of the bus.                                       *)
Stalled(s) == worker[s] \in {"announcing", "announcing_failure"} /\ (holders # {} \/ lost)

(* Every run is announced, again and again until none is left, unless its  *)
(* process dies or a client's keep-alive holds the bus; and the stream of  *)
(* an announced run ends for every client that reads on, unless the run    *)
(* was cancelled.                                                          *)
RunsAndStreamsEnd ==
    /\ []<>(\A s \in Session : worker[s] \in {"none", "done"} \/ Stalled(s))
    /\ []<>(\A r \in Reader : stream[r].at \in {"waiting", "delivering"} => stream[r].of \notin terminal)

=============================================================================
