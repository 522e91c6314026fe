---------------------- MODULE DiagnosisSessions_proofs ----------------------
(***************************************************************************)
(* Proofs about the session service, its store, its bus and its streams:   *)
(* one run per incident, what is told of a run is what is stored of it, a  *)
(* final status stays, and no stream leaves an event out, for any number   *)
(* of incidents, sessions, clients and deaths and any size of the buffer.  *)
(***************************************************************************)
EXTENDS DiagnosisSessions, FiniteSetTheorems, TLAPS

Place == {"none", "running", "recording", "result", "announcing", "marking", "announcing_failure", "done"}
EventType == {"session.started", "turn.started", "runtime.cancelled"} \cup TerminalTypes
Event == [id : Nat \ {0}, type : EventType]
Stream ==
    [at : {"closed", "waiting", "delivering", "keepalive", "ended"}, of : Session \cup {"none"}, batch : SUBSET Event]

ServiceType ==
    /\ starter \in [Session -> {"none", "building", "launching", "over"}] /\ starting \subseteq Incident
    /\ sessions \in [Session -> {"absent"} \cup Open \cup Ended]
    /\ worker \in [Session -> Place]
    /\ outcome \in [Session -> {"none", "waiting_approval"} \cup Ended]
    /\ results \in [Session -> {"none", "null", "waiting_approval"} \cup Ended]
    /\ asked \in [Session -> {"none", "clear", "set"}]
    /\ finished \subseteq Session
    /\ storedSession \in [Session -> {"absent"} \cup Open \cup Ended]
    /\ storedResult \in [Session -> {"none", "waiting_approval"} \cup Ended]
    /\ restarts \in 0..MaxRestarts

BusType ==
    /\ sequence \in Nat /\ terminal \subseteq Session
    /\ events \in [Session -> SUBSET Event]
    /\ \A s \in Session : IsFiniteSet(events[s]) /\ Cardinality(events[s]) <= MaxEvents

StreamType ==
    /\ holders \subseteq Reader /\ lost \in BOOLEAN
    /\ stream \in [Reader -> Stream] /\ cursor \in [Reader -> Nat]

(* How the status of a session says what the result of its run is.         *)
Agrees(status, result) ==
    \/ result \in Ended /\ status = result
    \/ result = "waiting_approval" /\ status = "waiting"

(* A request that starts a session, and what is left of one whose request  *)
(* is over and that has no thread: nothing, what was saved before the      *)
(* process died, or a session whose first save was refused.                *)
RequestInv(s) ==
    /\ starter[s] \in {"none", "building"} => sessions[s] = "absent" /\ storedSession[s] = "absent"
    /\ starter[s] = "launching" => sessions[s] = "active" /\ storedSession[s] = "active"
    /\ starter[s] # "over" => worker[s] = "none" /\ storedResult[s] = "none"
    /\ starter[s] = "over" /\ worker[s] = "none" =>
          \/ sessions[s] = storedSession[s] /\ (restarts > 0 \/ sessions[s] = "absent")
          \/ sessions[s] = "active" /\ storedSession[s] = "absent"

(* Requests and runs exclude each other, incident by incident.             *)
Busy(s) == worker[s] = "running" \/ starter[s] \in {"building", "launching"}

BusyInv ==
    /\ \A s \in Session : starter[s] \in {"building", "launching"} => IncidentOf[s] \in starting
    /\ \A s, t \in Session : Busy(s) /\ Busy(t) /\ IncidentOf[s] = IncidentOf[t] => s = t

(* What is known of a run at each place of its thread.                     *)
Unheard(s) == s \notin finished /\ s \notin terminal
RunOver(s) == outcome[s] # "none" /\ Agrees(sessions[s], outcome[s])
RunSaved(s) == RunOver(s) /\ storedSession[s] = sessions[s] /\ storedResult[s] = outcome[s] /\ results[s] = outcome[s]
RunTold(s) == RunSaved(s) /\ (outcome[s] # "cancelled" => s \in terminal)
RunFailed(s) == results[s] = "null" /\ sessions[s] \in Ended /\ s \notin finished

ThreadInv(s) ==
    /\ asked[s] = "none" <=> worker[s] = "none"
    /\ worker[s] = "none" => Unheard(s) /\ outcome[s] = "none" /\ results[s] = "none"
    /\ worker[s] = "running" =>
          Unheard(s) /\ sessions[s] = "active" /\ storedResult[s] = "none" /\ results[s] = "none"
    /\ worker[s] \in {"recording", "result"} =>
          Unheard(s) /\ RunOver(s) /\ storedResult[s] = "none" /\ results[s] = "none"
    /\ worker[s] = "result" => storedSession[s] = sessions[s]
    /\ worker[s] = "announcing" => Unheard(s) /\ RunSaved(s)
    /\ worker[s] = "marking" => s \notin finished /\ RunTold(s)
    /\ worker[s] = "announcing_failure" => s \notin terminal /\ RunFailed(s)
    /\ worker[s] = "done" => (s \in finished /\ RunTold(s)) \/ (s \in terminal /\ RunFailed(s))

(* A stored result is one of the stored session.                           *)
StoreInv(s) == storedResult[s] # "none" => Agrees(storedSession[s], storedResult[s])

(* The bus: ids are distinct and were given out, and nothing follows the   *)
(* event that makes a session terminal.                                    *)
BusInv == \A s \in Session :
    /\ \A e \in events[s] : e.id <= sequence
    /\ \A e, f \in events[s] : e.id = f.id => e = f
    /\ s \in terminal =>
          \E last \in events[s] : last.type \in TerminalTypes /\ \A e \in events[s] : e.id <= last.id

(* A stream: its client is not ahead of the bus, and what the stream has   *)
(* in hand is all that is between its client and newer events.             *)
Behind(r, id) == \E e \in events[stream[r].of] : id <= e.id

FollowInv(r) ==
    /\ stream[r].at # "closed" => stream[r].of \in Session
    /\ cursor[r] # 0 => stream[r].of \in Session /\ Behind(r, cursor[r])
    /\ stream[r].batch # {} <=> stream[r].at = "delivering"
    /\ \A b \in stream[r].batch :
          /\ cursor[r] < b.id /\ Behind(r, b.id)
          /\ \A e \in events[stream[r].of] : cursor[r] < e.id => e \in stream[r].batch \/ b.id < e.id
    /\ stream[r].at = "ended" => stream[r].of \in terminal /\ \A e \in events[stream[r].of] : e.id <= cursor[r]

StreamInv == \A r \in Reader : FollowInv(r)

RunInv == BusyInv /\ \A s \in Session : RequestInv(s) /\ ThreadInv(s) /\ StoreInv(s)

IInv == ServiceType /\ BusType /\ StreamType /\ RunInv /\ BusInv /\ StreamInv

(* A status request: what it has read is what there is, unless its session *)
(* was launched or had its result kept since; and what it told is true, or *)
(* one of the races has been lost.                                         *)
Inquiry ==
    [at : {"none", "asked", "read", "told"}, of : Session \cup {"none"}, event : {"none", "held"},
     result : {"none", "null", "waiting_approval"} \cup Ended, answer : {"none"} \cup Ended, overtaken : BOOLEAN]

Kept(q) == q.answer = ControlStatus(q.of) \/ (q.overtaken /\ (q.answer = "failed" \/ q.event = "none"))

InquiryInv(r) ==
    LET q == inquiry[r] IN
    /\ q.at # "none" => q.of \in Session
    /\ q.at \in {"asked", "read"} /\ ~q.overtaken => (q.event = "none" <=> asked[q.of] = "none")
    /\ q.at = "read" =>
          /\ q.result \in {"none", "null", results[q.of]}
          /\ ~q.overtaken => q.result = results[q.of] \/ results[q.of] = "null"
    /\ q.at = "told" => q.answer \in Ended /\ Kept(q)

AskInv == inquiry \in [Reader -> Inquiry] /\ \A r \in Reader : InquiryInv(r)
-----------------------------------------------------------------------------
(* The buffer of the bus.                                                  *)

LEMMA Finiteness == MaxEvents \in Nat \ {0} /\ "none" \notin Session /\ MaxRestarts \in Nat
BY SessionAssumption

LEMMA LeastExists ==
    ASSUME NEW S \in SUBSET Nat, S # {}
    PROVE  \E n \in S : \A m \in S : n <= m
<1> DEFINE Less == OpToRel(<, Nat)
<1>1. Less = {p \in Nat \X Nat : p[1] < p[2]}
    BY DEF OpToRel
<1>2. IsWellFoundedOn(Less, Nat)
    BY NatLessThanWellFounded
<1> HIDE DEF Less
<1>3. PICK n \in S : \A m \in S : ~ (<<m, n>> \in Less)
    BY <1>2, WFMin
<1>4. ASSUME NEW m \in S, m < n PROVE FALSE
    <2>1. <<m, n>> \in Nat \X Nat /\ <<m, n>>[1] = m /\ <<m, n>>[2] = n
        OBVIOUS
    <2>2. <<m, n>> \in Less
        BY <1>1, <1>4, <2>1
    <2> QED BY <1>3, <2>2
<1> QED BY <1>4

(* A buffer that had at most MaxEvents events, and one more with the       *)
(* highest id: what is kept has the new one and at most MaxEvents.         *)
LEMMA KeepLastKeeps ==
    ASSUME NEW queue \in SUBSET Event, IsFiniteSet(queue), Cardinality(queue) <= MaxEvents,
           \A e, f \in queue : e.id = f.id => e = f,
           NEW new \in Event, \A e \in queue : e.id < new.id
    PROVE  /\ new \in KeepLast(queue \cup {new}) /\ KeepLast(queue \cup {new}) \subseteq queue \cup {new}
           /\ IsFiniteSet(KeepLast(queue \cup {new})) /\ Cardinality(KeepLast(queue \cup {new})) <= MaxEvents
<1> DEFINE all == queue \cup {new}
           Newer(e) == {newer \in all : newer.id > e.id}
<1>1. \A e \in all : e.id \in Nat
    BY DEF Event
<1>2. IsFiniteSet(all) /\ new \notin queue
    BY <1>1, FS_AddElement
<1>3. Cardinality(all) = Cardinality(queue) + 1 /\ Cardinality(queue) \in Nat /\ Cardinality(all) \in Nat
    BY <1>2, FS_AddElement, FS_CardinalityType
<1>4. KeepLast(all) = {e \in all : Cardinality(Newer(e)) < MaxEvents}
    BY DEF KeepLast
<1>5. new \in KeepLast(all)
    <2>1. Newer(new) = {}
        BY <1>1
    <2>2. Cardinality(Newer(new)) = 0 /\ new \in all
        BY <2>1, FS_EmptySet
    <2>3. 0 < MaxEvents
        BY Finiteness
    <2> HIDE DEF Newer, all
    <2> QED BY <1>4, <2>2, <2>3
<1>6. KeepLast(all) \subseteq all /\ IsFiniteSet(KeepLast(all)) /\ Cardinality(KeepLast(all)) <= Cardinality(all)
    BY <1>2, <1>4, FS_Subset
<1>7. Cardinality(KeepLast(all)) <= MaxEvents
    <2>1. CASE Cardinality(all) <= MaxEvents
        BY <1>3, <1>6, <2>1, FS_CardinalityType, Finiteness
    <2>2. CASE Cardinality(all) > MaxEvents
        <3>1. Cardinality(all) = MaxEvents + 1
            BY <1>3, <2>2, Finiteness
        <3>2. PICK oldest \in all : \A e \in all : oldest.id <= e.id
            <4> DEFINE Ids == {e.id : e \in all}
            <4>1. Ids \in SUBSET Nat /\ Ids # {}
                BY <1>1
            <4>2. PICK n \in Ids : \A m \in Ids : n <= m
                BY <4>1, LeastExists
            <4> QED BY <4>2
        <3>3. Newer(oldest) = all \ {oldest}
            <4>1. \A e \in all : e.id = oldest.id => e = oldest
                BY <1>1
            <4> QED BY <1>1, <3>2, <4>1
        <3>4. Cardinality(all \ {oldest}) = MaxEvents /\ IsFiniteSet(all \ {oldest})
            <4>1. IsFiniteSet(all \ {oldest}) /\ Cardinality(all \ {oldest}) = Cardinality(all) - 1
                BY <1>2, FS_RemoveElement
            <4> HIDE DEF all
            <4> QED BY <3>1, <4>1, Finiteness
        <3>5. oldest \notin KeepLast(all)
            <4>1. ~(Cardinality(Newer(oldest)) < MaxEvents)
                BY <3>3, <3>4, Finiteness
            <4> HIDE DEF Newer
            <4> QED BY <1>4, <4>1
        <3>6. KeepLast(all) \subseteq all \ {oldest}
            BY <1>6, <3>5
        <3>7. Cardinality(KeepLast(all)) <= Cardinality(all \ {oldest})
            BY <3>4, <3>6, FS_Subset
        <3> QED BY <3>4, <3>7
    <2> QED BY <1>3, <2>1, <2>2, Finiteness
<1> QED BY <1>5, <1>6, <1>7
-----------------------------------------------------------------------------
(* The bus and its streams, step by step.                                  *)

LEMMA PublishStep ==
    ASSUME BusType, StreamType, BusInv, StreamInv,
           NEW s \in Session, NEW type \in EventType, s \notin terminal, Publish(s, type)
    PROVE  BusType' /\ StreamType' /\ BusInv' /\ StreamInv'
<1> DEFINE new == [id |-> sequence + 1, type |-> type]
<1>1. new \in Event /\ new.id = sequence + 1 /\ new.type = type /\ sequence \in Nat
    BY DEF BusType, Event
<1>2. \A t \in Session : \A e \in events[t] : e \in Event /\ e.id \in Nat /\ e.id <= sequence /\ e.id < sequence + 1
    BY DEF BusType, BusInv, Event
<1>3. /\ sequence' = sequence + 1 /\ events' = [events EXCEPT ![s] = KeepLast(events[s] \cup {new})]
      /\ terminal' = (IF type \in TerminalTypes THEN terminal \cup {s} ELSE terminal)
      /\ UNCHANGED <<holders, lost, stream, cursor>>
    BY DEF Publish, lockVars, streamVars
<1>4. /\ events[s] \in SUBSET Event /\ IsFiniteSet(events[s]) /\ Cardinality(events[s]) <= MaxEvents
      /\ \A e, f \in events[s] : e.id = f.id => e = f
    BY DEF BusType, BusInv
<1>5. \A e \in events[s] : e.id < new.id
    BY <1>1, <1>2
<1> HIDE DEF new
<1>6. /\ new \in KeepLast(events[s] \cup {new}) /\ KeepLast(events[s] \cup {new}) \subseteq events[s] \cup {new}
      /\ IsFiniteSet(KeepLast(events[s] \cup {new})) /\ Cardinality(KeepLast(events[s] \cup {new})) <= MaxEvents
    BY <1>1, <1>4, <1>5, KeepLastKeeps
<1>7. /\ new \in events'[s] /\ events'[s] \subseteq events[s] \cup {new}
      /\ IsFiniteSet(events'[s]) /\ Cardinality(events'[s]) <= MaxEvents
      /\ \A t \in Session : t # s => events'[t] = events[t]
      /\ DOMAIN events' = Session /\ events' = [t \in Session |-> events'[t]]
    BY <1>3, <1>6 DEF BusType
<1>8. BusType'
    <2>1. \A t \in Session : events'[t] \in SUBSET Event
        BY <1>1, <1>4, <1>7 DEF BusType
    <2>2. events' \in [Session -> SUBSET Event]
        BY <1>7, <2>1
    <2>3. \A t \in Session : IsFiniteSet(events'[t]) /\ Cardinality(events'[t]) <= MaxEvents
        BY <1>7 DEF BusType
    <2>4. sequence' \in Nat /\ terminal' \subseteq Session
        BY <1>1, <1>3 DEF BusType
    <2> QED BY <2>2, <2>3, <2>4 DEF BusType
<1>9. StreamType'
    BY <1>3 DEF StreamType
<1>10. BusInv'
    <2> SUFFICES ASSUME NEW t \in Session
                 PROVE  /\ \A e \in events'[t] : e.id <= sequence'
                        /\ \A e, f \in events'[t] : e.id = f.id => e = f
                        /\ t \in terminal' => \E last \in events'[t] :
                              last.type \in TerminalTypes /\ \A e \in events'[t] : e.id <= last.id
        BY DEF BusInv
    <2>1. CASE t # s
        BY <1>1, <1>2, <1>3, <1>7, <2>1 DEF BusInv
    <2>2. CASE t = s
        <3>1. \A e \in events'[s] : e.id <= sequence + 1
            <4>1. \A e \in events[s] : e.id <= sequence + 1
                BY <1>1, <1>2
            <4>2. new.id <= sequence + 1
                BY <1>1
            <4> QED BY <1>7, <4>1, <4>2
        <3>2. \A e, f \in events'[s] : e.id = f.id => e = f
            BY <1>1, <1>2, <1>4, <1>5, <1>7
        <3>3. s \in terminal' => new.type \in TerminalTypes
            BY <1>1, <1>3
        <3>4. new.id = sequence' /\ \A e \in events'[s] : e.id <= sequence'
            BY <1>1, <1>3, <3>1
        <3>5. s \in terminal' => \E last \in events'[s] :
                 last.type \in TerminalTypes /\ \A e \in events'[s] : e.id <= last.id
            <4> SUFFICES ASSUME s \in terminal' PROVE new.type \in TerminalTypes /\ \A e \in events'[s] : e.id <= new.id
                BY <1>7
            <4> QED BY <3>3, <3>4
        <3> QED BY <2>2, <3>2, <3>4, <3>5
    <2> QED BY <2>1, <2>2
<1>11. StreamInv'
    <2> SUFFICES ASSUME NEW r \in Reader
                 PROVE  /\ stream[r].at # "closed" => stream[r].of \in Session
                        /\ cursor[r] # 0 => stream[r].of \in Session /\ \E e \in events'[stream[r].of] : cursor[r] <= e.id
                        /\ stream[r].batch # {} <=> stream[r].at = "delivering"
                        /\ \A b \in stream[r].batch :
                              /\ cursor[r] < b.id /\ \E e \in events'[stream[r].of] : b.id <= e.id
                              /\ \A e \in events'[stream[r].of] :
                                    cursor[r] < e.id => e \in stream[r].batch \/ b.id < e.id
                        /\ stream[r].at = "ended" =>
                              stream[r].of \in terminal' /\ \A e \in events'[stream[r].of] : e.id <= cursor[r]
        BY <1>3 DEF StreamInv, FollowInv, Behind
    <2>1. CASE stream[r].of # s
        <3>1. stream[r].of \in Session => events'[stream[r].of] = events[stream[r].of]
            BY <1>7, <2>1
        <3>2. stream[r].of \in terminal => stream[r].of \in terminal'
            BY <1>3
        <3> QED BY <3>1, <3>2 DEF StreamInv, FollowInv, Behind
    <2>2. CASE stream[r].of = s
        <3>1. stream[r].at # "ended"
            BY <2>2 DEF StreamInv, FollowInv
        <3>2. cursor[r] \in Nat /\ \A b \in stream[r].batch : b.id \in Nat
            BY DEF StreamType, Stream, Event
        <3>3. cursor[r] # 0 => cursor[r] <= new.id
            BY <1>1, <1>2, <2>2, <3>2 DEF StreamInv, FollowInv, Behind
        <3>4. \A b \in stream[r].batch : b.id < new.id
            BY <1>1, <1>2, <2>2, <3>2 DEF StreamInv, FollowInv, Behind
        <3> QED BY <1>1, <1>7, <2>2, <3>1, <3>2, <3>3, <3>4 DEF StreamInv, FollowInv
    <2> QED BY <2>1, <2>2
<1> QED BY <1>8, <1>9, <1>10, <1>11

LEMMA QuietBus ==
    ASSUME BusType, StreamType, BusInv, StreamInv,
           UNCHANGED <<sequence, events, terminal, holders, lost, stream, cursor>>
    PROVE  BusType' /\ StreamType' /\ BusInv' /\ StreamInv'
BY DEF BusType, StreamType, BusInv, StreamInv, FollowInv, Behind

(* A stream that is left alone on a bus that is left alone.                *)
LEMMA OtherStream ==
    ASSUME NEW r \in Reader, FollowInv(r), UNCHANGED <<events, terminal>>,
           stream'[r] = stream[r], cursor'[r] = cursor[r]
    PROVE  FollowInv(r)'
BY DEF FollowInv, Behind

LEMMA StreamStep ==
    ASSUME BusType, StreamType, BusInv, StreamInv, NEW r \in Reader,
           \/ Follow(r) \/ KeepAlive(r) \/ ReadOn(r) \/ Disconnect(r)
           \/ \E s \in Session : Connect(r, s)
    PROVE  BusType' /\ StreamType' /\ BusInv' /\ StreamInv'
<1> DEFINE Alone(at, of, batch, id) ==
               /\ stream' \in [Reader -> Stream] /\ cursor' \in [Reader -> Nat]
               /\ holders' \subseteq Reader /\ lost' \in BOOLEAN
               /\ \A q \in Reader : q # r => stream'[q] = stream[q] /\ cursor'[q] = cursor[q]
               /\ stream'[r].at = at /\ stream'[r].of = of /\ stream'[r].batch = batch /\ cursor'[r] = id
           Known(of, batch, id) ==
               /\ id # 0 => of \in Session /\ \E e \in events[of] : id <= e.id
               /\ \A b \in batch :
                     /\ id < b.id /\ \E e \in events[of] : b.id <= e.id
                     /\ \A e \in events[of] : id < e.id => e \in batch \/ b.id < e.id
           Goal == BusType' /\ StreamType' /\ BusInv' /\ StreamInv'
           at == stream[r].at
           of == stream[r].of
           batch == stream[r].batch
<1>1. UNCHANGED <<sequence, events, terminal>>
    BY DEF Follow, Take, Deliver, KeepAlive, ReadOn, Disconnect, Connect, StreamUnchanged, busVars
<1>2. BusType' /\ BusInv'
    BY <1>1 DEF BusType, BusInv
<1>3. /\ stream[r] \in Stream /\ cursor[r] \in Nat /\ FollowInv(r) /\ Known(of, batch, cursor[r])
      /\ stream \in [Reader -> Stream] /\ cursor \in [Reader -> Nat]
    BY DEF StreamType, StreamInv, FollowInv, Behind
<1>4. ASSUME NEW place, NEW whose, NEW got, NEW id, Alone(place, whose, got, id), Known(whose, got, id),
             place # "closed" => whose \in Session,
             got # {} <=> place = "delivering",
             place = "ended" => whose \in terminal /\ \A e \in events[whose] : e.id <= id
      PROVE  Goal
    <2>1. FollowInv(r)'
        BY <1>1, <1>4 DEF FollowInv, Behind
    <2>2. \A q \in Reader : q # r => FollowInv(q)'
        BY <1>1, <1>4, OtherStream DEF StreamInv
    <2>3. StreamType'
        BY <1>4 DEF StreamType
    <2> QED BY <1>2, <2>1, <2>2, <2>3 DEF StreamInv
<1>6. CASE \E s \in Session : Connect(r, s)
    <2>1. PICK s \in Session : Connect(r, s)
        BY <1>6
    <2>2. Alone("waiting", s, {}, cursor[r])
        BY <1>3, <2>1 DEF Connect, lockVars, StreamType, Stream
    <2>3. cursor[r] # 0 => of = s
        BY <1>3, <2>1, Finiteness DEF Connect
    <2>4. Known(s, {}, cursor[r])
        BY <1>3, <2>3
    <2> HIDE DEF Alone, Known
    <2> QED BY <1>4, <2>2, <2>4
<1>7. CASE Take(r)
    <2>1. at = "waiting" /\ of \in Session /\ batch = {} /\ holders' \subseteq Reader /\ lost' \in BOOLEAN /\ cursor' = cursor
        BY <1>3, <1>7 DEF Take, lockVars, StreamType, FollowInv
    <2>2. /\ \A e \in events[of] : e \in Event /\ e.id \in Nat
          /\ Available(r) \in SUBSET Event
          /\ Available(r) = {e \in events[of] : e.id > cursor[r]}
        BY <2>1 DEF BusType, Event, Available
    <2>3. CASE Available(r) # {} /\ stream' = [stream EXCEPT ![r].at = "delivering", ![r].batch = Available(r)]
        <3>1. Alone("delivering", of, Available(r), cursor[r])
            BY <1>3, <2>1, <2>2, <2>3 DEF Stream
        <3>2. Known(of, Available(r), cursor[r])
            BY <1>3, <2>2
        <3> HIDE DEF Alone, Known
        <3> QED BY <1>4, <2>1, <2>3, <3>1, <3>2
    <2>4. CASE Available(r) = {} /\ stream[r].of \in terminal /\ stream' = [stream EXCEPT ![r].at = "ended"]
        <3>1. Alone("ended", of, {}, cursor[r])
            BY <1>3, <2>1, <2>4 DEF Stream
        <3>2. Known(of, {}, cursor[r])
            BY <1>3
        <3>3. \A e \in events[of] : e.id <= cursor[r]
            BY <1>3, <2>2, <2>4
        <3> HIDE DEF Alone, Known
        <3> QED BY <1>4, <2>1, <2>4, <3>1, <3>2, <3>3
    <2> QED BY <1>7, <2>3, <2>4 DEF Take
<1>8. CASE Deliver(r)
    <2>1. PICK next \in batch :
            /\ \A e \in batch \ {next} : next.id < e.id
            /\ cursor' = [cursor EXCEPT ![r] = next.id]
            /\ stream' = [stream EXCEPT ![r].batch = batch \ {next},
                                        ![r].at = IF batch \ {next} = {} THEN "waiting" ELSE "delivering"]
        BY <1>8 DEF Deliver
    <2> DEFINE rest == batch \ {next}
               place == IF rest = {} THEN "waiting" ELSE "delivering"
    <2>2. /\ holders' \subseteq Reader /\ lost' \in BOOLEAN
          /\ at = "delivering" /\ of \in Session
        BY <1>3, <1>8 DEF Deliver, lockVars, StreamType, FollowInv
    <2>3. /\ batch \in SUBSET Event /\ next.id \in Nat
          /\ \A b \in batch : b.id \in Nat
          /\ \A e \in events[of] : e.id \in Nat
        BY <1>3, <2>2 DEF Stream, Event, BusType
    <2>4. Alone(place, of, rest, next.id)
        BY <1>3, <2>1, <2>2, <2>3 DEF Stream
    <2>5. cursor[r] < next.id /\ \E e \in events[of] : next.id <= e.id
        BY <1>3
    <2>6. ASSUME NEW b \in rest
          PROVE  /\ next.id < b.id /\ \E e \in events[of] : b.id <= e.id
                 /\ \A e \in events[of] : next.id < e.id => e \in rest \/ b.id < e.id
        <3>1. next.id < b.id /\ b \in batch
            BY <2>1
        <3>2. /\ \E e \in events[of] : b.id <= e.id
              /\ \A e \in events[of] : cursor[r] < e.id => e \in batch \/ b.id < e.id
            BY <1>3, <3>1
        <3>3. ASSUME NEW e \in events[of], next.id < e.id PROVE e \in rest \/ b.id < e.id
            <4>1. cursor[r] < e.id /\ e # next
                BY <1>3, <2>3, <2>5, <3>3
            <4> QED BY <3>2, <4>1
        <3> QED BY <3>1, <3>2, <3>3
    <2> HIDE DEF rest
    <2>7. Known(of, rest, next.id)
        BY <2>2, <2>5, <2>6
    <2>8. (rest # {} <=> place = "delivering") /\ place # "ended"
        OBVIOUS
    <2> HIDE DEF place, Alone, Known
    <2> QED BY <1>4, <2>2, <2>4, <2>7, <2>8
<1>9. Known(of, {}, cursor[r])
    BY <1>3
<1>10. CASE KeepAlive(r)
    <2>1. of \in Session /\ batch = {} /\ cursor' = cursor /\ holders' \subseteq Reader /\ lost' \in BOOLEAN
        BY <1>3, <1>10 DEF KeepAlive, StreamType, FollowInv
    <2>2. Alone("keepalive", of, {}, cursor[r])
        BY <1>3, <1>10, <2>1 DEF KeepAlive, Stream
    <2> HIDE DEF Alone, Known
    <2> QED BY <1>4, <1>9, <2>1, <2>2
<1>11. CASE ReadOn(r)
    <2>1. of \in Session /\ batch = {} /\ cursor' = cursor /\ holders' \subseteq Reader /\ lost' \in BOOLEAN
        BY <1>3, <1>11 DEF ReadOn, StreamType, FollowInv
    <2>2. Alone("waiting", of, {}, cursor[r]) \/ Alone("closed", of, {}, cursor[r])
        BY <1>3, <1>11, <2>1 DEF ReadOn, Stream
    <2> HIDE DEF Alone, Known
    <2> QED BY <1>4, <1>9, <2>1, <2>2
<1>12. CASE Disconnect(r)
    <2>1. cursor' = cursor /\ holders' \subseteq Reader /\ lost' \in BOOLEAN
        BY <1>3, <1>12 DEF Disconnect, StreamType
    <2>2. Alone("closed", of, {}, cursor[r])
        BY <1>3, <1>12, <2>1 DEF Disconnect, Stream
    <2> HIDE DEF Alone, Known
    <2> QED BY <1>4, <1>9, <2>1, <2>2
<1> QED BY <1>2, <1>6, <1>7, <1>8, <1>10, <1>11, <1>12 DEF Follow
-----------------------------------------------------------------------------
(* The requests and the threads, step by step.                             *)

(* A session that a step leaves alone.                                     *)
Same(t) ==
    /\ starter'[t] = starter[t] /\ sessions'[t] = sessions[t] /\ worker'[t] = worker[t]
    /\ outcome'[t] = outcome[t] /\ results'[t] = results[t] /\ asked'[t] = asked[t]
    /\ storedSession'[t] = storedSession[t] /\ storedResult'[t] = storedResult[t]
    /\ (t \in finished' <=> t \in finished) /\ (t \in terminal' <=> t \in terminal)

SessionInv(t) == RequestInv(t) /\ ThreadInv(t) /\ StoreInv(t)

LEMMA SameSession ==
    ASSUME NEW t \in Session, SessionInv(t), Same(t), restarts' = restarts
    PROVE  SessionInv(t)'
<1>1. RequestInv(t)'
    BY DEF SessionInv, RequestInv, Same
<1>2. ThreadInv(t)'
    BY DEF SessionInv, ThreadInv, Same, Unheard, RunOver, RunSaved, RunTold, RunFailed
<1>3. StoreInv(t)'
    BY DEF SessionInv, StoreInv, Same
<1> QED BY <1>1, <1>2, <1>3 DEF SessionInv

(* A step that makes no session busy and releases only the incident of a   *)
(* request that is over.                                                   *)
LEMMA NoneMoreBusy ==
    ASSUME BusyInv, NEW s \in Session,
           \A t \in Session : Busy(t)' => Busy(t),
           \A t \in Session : starter'[t] \in {"building", "launching"} => starter[t] \in {"building", "launching"},
           starting' = starting \/ (starting' = starting \ {IncidentOf[s]} /\ Busy(s) /\ starter'[s] = "over")
    PROVE  BusyInv'
<1>1. \A t \in Session : t # s /\ Busy(s) /\ starter[t] \in {"building", "launching"} => IncidentOf[t] # IncidentOf[s]
    BY DEF BusyInv, Busy
<1>2. \A t \in Session : starter'[t] \in {"building", "launching"} => IncidentOf[t] \in starting'
    BY <1>1 DEF BusyInv
<1>3. \A t, u \in Session : (Busy(t)' /\ Busy(u)' /\ IncidentOf[t] = IncidentOf[u]) => t = u
    BY DEF BusyInv
<1> QED BY <1>2, <1>3 DEF BusyInv

(* What each step of the service does to its own session, and that it      *)
(* leaves the others alone.                                                *)
LEMMA RequestStep ==
    ASSUME ServiceType, RunInv, NEW s \in Session, Request(s)
    PROVE  /\ ServiceType' /\ RunInv' /\ \A t \in Session : t # s => Same(t)
           /\ UNCHANGED <<sequence, events, terminal, holders, lost, stream, cursor>>
              \/ (Launch(s) /\ s \notin terminal)
<1>1. SessionInv(s) /\ BusyInv /\ \A t \in Session : SessionInv(t)
    BY DEF RunInv, SessionInv
<1>2. ASSUME SessionInv(s)', BusyInv', \A t \in Session : t # s => Same(t), restarts' = restarts
      PROVE  RunInv'
    <2>1. \A t \in Session : SessionInv(t)'
        BY <1>1, <1>2, SameSession
    <2> QED BY <1>2, <2>1 DEF RunInv, SessionInv
<1>3. CASE Admit(s)
    <2>1. UNCHANGED <<sessions, worker, outcome, results, asked, finished, storedSession, storedResult, restarts,
                      sequence, events, terminal, holders, lost, stream, cursor>>
        BY <1>3 DEF Admit, storeVars, busVars, lockVars, streamVars
    <2>2. /\ starter[s] = "none" /\ sessions[s] = "absent" /\ Startable(IncidentOf[s])
          /\ starting' = starting \cup {IncidentOf[s]} /\ starter' = [starter EXCEPT ![s] = "building"]
        BY <1>3 DEF Admit
    <2>3. ServiceType'
        BY ZenonT(60), <2>1, <2>2, SessionAssumption DEF ServiceType
    <2>4. \A t \in Session : t # s => Same(t)
        BY <2>1, <2>2 DEF Same, ServiceType
    <2>5. starter'[s] = "building"
        BY <2>2 DEF ServiceType
    <2>6. SessionInv(s)'
        BY <1>1, <2>1, <2>2, <2>5
        DEF SessionInv, RequestInv, ThreadInv, StoreInv, Unheard, RunOver, RunSaved, RunTold, RunFailed
    <2>7. \A t \in Session : IncidentOf[t] = IncidentOf[s] => ~Busy(t)
        BY <1>1, <2>2 DEF Startable, BusyInv, Busy, SessionInv, ThreadInv, Open
    <2>8. \A t \in Session : t # s => starter'[t] = starter[t] /\ (Busy(t)' <=> Busy(t))
        BY <2>4 DEF Same, Busy
    <2>9. BusyInv'
        <3>1. \A t \in Session : starter'[t] \in {"building", "launching"} => IncidentOf[t] \in starting'
            BY <1>1, <2>2, <2>8 DEF BusyInv
        <3>2. \A t, u \in Session : (Busy(t)' /\ Busy(u)' /\ IncidentOf[t] = IncidentOf[u]) => t = u
            BY <1>1, <2>7, <2>8 DEF BusyInv
        <3> QED BY <3>1, <3>2 DEF BusyInv
    <2> QED BY <1>2, <2>1, <2>3, <2>4, <2>6, <2>9
<1>4. CASE BuildFails(s)
    <2>1. UNCHANGED <<sessions, worker, outcome, results, asked, finished, storedSession, storedResult, restarts,
                      sequence, events, terminal, holders, lost, stream, cursor>>
        BY <1>4 DEF BuildFails, storeVars, busVars, lockVars, streamVars
    <2>2. /\ starter[s] = "building" /\ starting' = starting \ {IncidentOf[s]}
          /\ starter' = [starter EXCEPT ![s] = "over"] /\ starter'[s] = "over"
        BY <1>4 DEF BuildFails, ServiceType
    <2>3. ServiceType'
        BY <2>1, <2>2 DEF ServiceType
    <2>4. \A t \in Session : t # s => Same(t)
        BY <2>1, <2>2 DEF Same, ServiceType
    <2>5. SessionInv(s)'
        BY <1>1, <2>1, <2>2
        DEF SessionInv, RequestInv, ThreadInv, StoreInv, Unheard, RunOver, RunSaved, RunTold, RunFailed
    <2>6. /\ \A t \in Session : Busy(t)' => Busy(t)
          /\ \A t \in Session : starter'[t] \in {"building", "launching"} => starter[t] \in {"building", "launching"}
        BY <2>1, <2>2, <2>4 DEF Same, Busy
    <2>7. BusyInv'
        BY <1>1, <2>2, <2>6, NoneMoreBusy DEF Busy
    <2> QED BY <1>2, <2>1, <2>3, <2>4, <2>5, <2>7
<1>5. CASE Register(s)
    <2>1. UNCHANGED <<worker, outcome, results, asked, finished, storedResult, restarts,
                      sequence, events, terminal, holders, lost, stream, cursor>>
        BY <1>5 DEF Register, busVars, lockVars, streamVars
    <2>2. /\ starter[s] = "building" /\ sessions' = [sessions EXCEPT ![s] = "active"] /\ sessions'[s] = "active"
          /\ \/ /\ storedSession' = [storedSession EXCEPT ![s] = "active"] /\ storedSession'[s] = "active"
                /\ starter' = [starter EXCEPT ![s] = "launching"] /\ starter'[s] = "launching"
                /\ starting' = starting
             \/ /\ starter' = [starter EXCEPT ![s] = "over"] /\ starter'[s] = "over"
                /\ starting' = starting \ {IncidentOf[s]} /\ storedSession' = storedSession
        BY <1>5 DEF Register, ServiceType
    <2>3. ServiceType'
        BY <2>1, <2>2 DEF ServiceType, Open
    <2>4. \A t \in Session : t # s => Same(t)
        BY <2>1, <2>2 DEF Same, ServiceType
    <2>5. SessionInv(s)'
        BY <1>1, <2>1, <2>2
        DEF SessionInv, RequestInv, ThreadInv, StoreInv, Unheard, RunOver, RunSaved, RunTold, RunFailed
    <2>6. /\ \A t \in Session : Busy(t)' => Busy(t)
          /\ \A t \in Session : starter'[t] \in {"building", "launching"} => starter[t] \in {"building", "launching"}
        BY <2>1, <2>2, <2>4 DEF Same, Busy
    <2>7. BusyInv'
        BY <1>1, <2>2, <2>6, NoneMoreBusy DEF Busy
    <2> QED BY <1>2, <2>1, <2>3, <2>4, <2>5, <2>7
<1>6. CASE Launch(s)
    <2>1. UNCHANGED <<sessions, outcome, results, finished, storedSession, storedResult, restarts, terminal>>
        BY <1>6 DEF Launch, storeVars, Publish, TerminalTypes
    <2>2. /\ starter[s] = "launching" /\ starting' = starting \ {IncidentOf[s]}
          /\ starter' = [starter EXCEPT ![s] = "over"] /\ starter'[s] = "over"
          /\ asked' = [asked EXCEPT ![s] = "clear"] /\ asked'[s] = "clear"
          /\ worker' = [worker EXCEPT ![s] = "running"] /\ worker'[s] = "running"
        BY <1>6 DEF Launch, ServiceType
    <2>3. ServiceType'
        BY <2>1, <2>2 DEF ServiceType, Place
    <2>4. \A t \in Session : t # s => Same(t)
        BY <2>1, <2>2 DEF Same, ServiceType
    <2>5. SessionInv(s)' /\ s \notin terminal
        BY <1>1, <2>1, <2>2
        DEF SessionInv, RequestInv, ThreadInv, StoreInv, Unheard, RunOver, RunSaved, RunTold, RunFailed
    <2>6. /\ \A t \in Session : Busy(t)' => Busy(t)
          /\ \A t \in Session : starter'[t] \in {"building", "launching"} => starter[t] \in {"building", "launching"}
        BY <2>1, <2>2, <2>4 DEF Same, Busy
    <2>7. BusyInv'
        BY <1>1, <2>2, <2>6, NoneMoreBusy DEF Busy
    <2> QED BY <1>2, <1>6, <2>1, <2>3, <2>4, <2>5, <2>7
<1> QED BY <1>3, <1>4, <1>5, <1>6 DEF Request

LEMMA ThreadStep ==
    ASSUME ServiceType, RunInv, NEW s \in Session, Thread(s) \/ Progress(s) \/ RequestCancel(s)
    PROVE  /\ ServiceType' /\ RunInv' /\ \A t \in Session : t # s => Same(t)
           /\ UNCHANGED <<sequence, events, terminal, holders, lost, stream, cursor>>
              \/ (s \notin terminal /\ \E type \in EventType : Publish(s, type))
<1>1. SessionInv(s) /\ BusyInv /\ \A t \in Session : SessionInv(t)
    BY DEF RunInv, SessionInv
<1>2. ASSUME SessionInv(s)', \A t \in Session : t # s => Same(t),
             worker'[s] = "running" => worker[s] = "running", UNCHANGED <<starter, starting, restarts>>
      PROVE  RunInv'
    <2>1. \A t \in Session : SessionInv(t)'
        BY <1>1, <1>2, SameSession
    <2>2. \A t \in Session : Busy(t)' => Busy(t)
        BY <1>2 DEF Same, Busy
    <2>3. BusyInv'
        BY <1>1, <1>2, <2>2, NoneMoreBusy
    <2> QED BY <2>1, <2>3 DEF RunInv, SessionInv
<1>3. CASE EngineReturns(s)
    <2>1. UNCHANGED <<starter, starting, asked, restarts, results, finished, storedSession, storedResult,
                      sequence, events, terminal, holders, lost, stream, cursor>>
        BY <1>3 DEF EngineReturns, Step, storeVars, busVars, lockVars, streamVars
    <2>2. /\ worker[s] = "running" /\ worker' = [worker EXCEPT ![s] = "recording"] /\ worker'[s] = "recording"
          /\ \E status \in Ended \cup {"waiting_approval"} :
                LET now == IF status = "waiting_approval" THEN "waiting" ELSE Settle(s, status) IN
                /\ outcome' = [outcome EXCEPT ![s] = status] /\ outcome'[s] = status
                /\ sessions' = [sessions EXCEPT ![s] = now] /\ sessions'[s] = now
        BY <1>3 DEF EngineReturns, Step, ServiceType
    <2>3. ServiceType'
        BY <2>1, <2>2 DEF ServiceType, Place, Open, Ended, Settle
    <2>4. \A t \in Session : t # s => Same(t)
        BY <2>1, <2>2 DEF Same, ServiceType
    <2>5. SessionInv(s)'
        BY <1>1, <2>1, <2>2
        DEF SessionInv, RequestInv, ThreadInv, StoreInv, Agrees, Unheard, RunOver, RunSaved, RunTold,
            RunFailed, Settle, Open, Ended, ServiceType
    <2> QED BY <1>2, <2>1, <2>2, <2>3, <2>4, <2>5
<1>4. CASE SaveSession(s)
    <2>1. UNCHANGED <<starter, starting, asked, restarts, sessions, outcome, results, finished, storedResult,
                      sequence, events, terminal, holders, lost, stream, cursor>>
        BY <1>4 DEF SaveSession, Step, storeVars, busVars, lockVars, streamVars
    <2>2. /\ worker[s] = "recording" /\ worker' = [worker EXCEPT ![s] = "result"] /\ worker'[s] = "result"
          /\ storedSession' = [storedSession EXCEPT ![s] = sessions[s]] /\ storedSession'[s] = sessions[s]
        BY <1>4 DEF SaveSession, Step, ServiceType
    <2>3. ServiceType'
        BY <2>1, <2>2 DEF ServiceType, Place
    <2>4. \A t \in Session : t # s => Same(t)
        BY <2>1, <2>2 DEF Same, ServiceType
    <2>5. SessionInv(s)'
        BY <1>1, <2>1, <2>2
        DEF SessionInv, RequestInv, ThreadInv, StoreInv, Agrees, Unheard, RunOver, RunSaved, RunTold,
            RunFailed, Open, Ended, ServiceType
    <2> QED BY <1>2, <2>1, <2>2, <2>3, <2>4, <2>5
<1>5. CASE SaveResult(s)
    <2>1. UNCHANGED <<starter, starting, asked, restarts, sessions, outcome, finished, storedSession,
                      sequence, events, terminal, holders, lost, stream, cursor>>
        BY <1>5 DEF SaveResult, Step, storeVars, busVars, lockVars, streamVars
    <2>2. /\ worker[s] = "result" /\ worker' = [worker EXCEPT ![s] = "announcing"] /\ worker'[s] = "announcing"
          /\ storedResult' = [storedResult EXCEPT ![s] = outcome[s]] /\ storedResult'[s] = outcome[s]
          /\ results' = [results EXCEPT ![s] = outcome[s]] /\ results'[s] = outcome[s]
        BY <1>5 DEF SaveResult, Step, ServiceType
    <2>3. ServiceType'
        BY <2>1, <2>2 DEF ServiceType, Place
    <2>4. \A t \in Session : t # s => Same(t)
        BY <2>1, <2>2 DEF Same, ServiceType
    <2>5. SessionInv(s)'
        BY <1>1, <2>1, <2>2
        DEF SessionInv, RequestInv, ThreadInv, StoreInv, Agrees, Unheard, RunOver, RunSaved, RunTold,
            RunFailed, Open, Ended, ServiceType
    <2> QED BY <1>2, <2>1, <2>2, <2>3, <2>4, <2>5
<1>6. CASE Announce(s)
    <2>1. UNCHANGED <<starter, starting, asked, restarts, sessions, outcome, results, finished,
                      storedSession, storedResult>>
        BY <1>6 DEF Announce, Step, storeVars, Publish
    <2>2. /\ worker[s] = "announcing" /\ worker' = [worker EXCEPT ![s] = "marking"] /\ worker'[s] = "marking"
          /\ terminal' = IF TerminalType(outcome[s]) \in TerminalTypes THEN terminal \cup {s} ELSE terminal
          /\ outcome[s] # "cancelled" => TerminalType(outcome[s]) \in TerminalTypes
        BY <1>6 DEF Announce, Step, ServiceType, Publish, TerminalType, TerminalTypes
    <2>3. ServiceType'
        BY <2>1, <2>2 DEF ServiceType, Place
    <2>4. \A t \in Session : t # s => Same(t)
        BY <2>1, <2>2 DEF Same, ServiceType
    <2>5. SessionInv(s)' /\ s \notin terminal
        BY <1>1, <2>1, <2>2
        DEF SessionInv, RequestInv, ThreadInv, StoreInv, Agrees, Unheard, RunOver, RunSaved, RunTold,
            RunFailed, TerminalTypes, ServiceType
    <2>6. \E type \in EventType : Publish(s, type)
        BY <1>6 DEF Announce, EventType, TerminalType, TerminalTypes
    <2> QED BY <1>2, <2>1, <2>2, <2>3, <2>4, <2>5, <2>6
<1>7. CASE Mark(s)
    <2>1. UNCHANGED <<starter, starting, asked, restarts, sessions, outcome, results, storedSession,
                      storedResult, sequence, events, terminal, holders, lost, stream, cursor>>
        BY <1>7 DEF Mark, Step, storeVars, busVars, lockVars, streamVars
    <2>2. /\ worker[s] = "marking" /\ worker' = [worker EXCEPT ![s] = "done"] /\ worker'[s] = "done"
          /\ finished' = finished \cup {s}
        BY <1>7 DEF Mark, Step, ServiceType
    <2>3. ServiceType'
        BY <2>1, <2>2 DEF ServiceType, Place
    <2>4. \A t \in Session : t # s => Same(t)
        BY <2>1, <2>2 DEF Same, ServiceType
    <2>5. SessionInv(s)'
        BY <1>1, <2>1, <2>2
        DEF SessionInv, RequestInv, ThreadInv, StoreInv, Agrees, Unheard, RunOver, RunSaved, RunTold,
            RunFailed, Open, Ended, ServiceType
    <2> QED BY <1>2, <2>1, <2>2, <2>3, <2>4, <2>5
<1>8. CASE Fail(s)
    <2>1. UNCHANGED <<starter, starting, asked, restarts, outcome, finished, storedSession, storedResult,
                      sequence, events, terminal, holders, lost, stream, cursor>>
        BY <1>8 DEF Fail, Step, storeVars, busVars, lockVars, streamVars
    <2>2. /\ worker[s] \in {"running", "recording", "result"}
          /\ worker' = [worker EXCEPT ![s] = "announcing_failure"] /\ worker'[s] = "announcing_failure"
          /\ results' = [results EXCEPT ![s] = "null"] /\ results'[s] = "null"
          /\ sessions' = [sessions EXCEPT ![s] = Settle(s, "failed")] /\ sessions'[s] = Settle(s, "failed")
        BY <1>8 DEF Fail, Step, ServiceType
    <2>3. ServiceType'
        BY <2>1, <2>2 DEF ServiceType, Place, Open, Ended, Settle
    <2>4. \A t \in Session : t # s => Same(t)
        BY <2>1, <2>2 DEF Same, ServiceType
    <2>5. SessionInv(s)'
        BY <1>1, <2>1, <2>2
        DEF SessionInv, RequestInv, ThreadInv, StoreInv, Agrees, Unheard, RunOver, RunSaved, RunTold,
            RunFailed, Settle, Open, Ended, ServiceType
    <2> QED BY <1>2, <2>1, <2>2, <2>3, <2>4, <2>5
<1>9. CASE AnnounceFailure(s)
    <2>1. UNCHANGED <<starter, starting, asked, restarts, sessions, outcome, results, finished,
                      storedSession, storedResult>>
        BY <1>9 DEF AnnounceFailure, Step, storeVars, Publish
    <2>2. /\ worker[s] = "announcing_failure" /\ worker' = [worker EXCEPT ![s] = "done"] /\ worker'[s] = "done"
          /\ terminal' = terminal \cup {s}
        BY <1>9 DEF AnnounceFailure, Step, ServiceType, Publish, TerminalTypes
    <2>3. ServiceType'
        BY <2>1, <2>2 DEF ServiceType, Place
    <2>4. \A t \in Session : t # s => Same(t)
        BY <2>1, <2>2 DEF Same, ServiceType
    <2>5. SessionInv(s)' /\ s \notin terminal
        BY <1>1, <2>1, <2>2
        DEF SessionInv, RequestInv, ThreadInv, StoreInv, Agrees, Unheard, RunOver, RunSaved, RunTold,
            RunFailed, TerminalTypes, ServiceType
    <2>6. \E type \in EventType : Publish(s, type)
        BY <1>9 DEF AnnounceFailure, EventType, TerminalType, TerminalTypes
    <2> QED BY <1>2, <2>1, <2>2, <2>3, <2>4, <2>5, <2>6
<1>10. CASE Progress(s)
    <2>1. UNCHANGED <<starter, starting, asked, restarts, sessions, outcome, results, finished,
                      storedSession, storedResult>>
        BY <1>10 DEF Progress, Step, storeVars, Publish
    <2>2. /\ worker[s] = "running" /\ worker' = [worker EXCEPT ![s] = "running"] /\ worker'[s] = "running"
          /\ terminal' = terminal
        BY <1>10 DEF Progress, Step, ServiceType, Publish, TerminalTypes
    <2>3. ServiceType'
        BY <2>1, <2>2 DEF ServiceType, Place
    <2>4. \A t \in Session : t # s => Same(t)
        BY <2>1, <2>2 DEF Same, ServiceType
    <2>5. SessionInv(s)' /\ s \notin terminal
        BY <1>1, <2>1, <2>2
        DEF SessionInv, RequestInv, ThreadInv, StoreInv, Agrees, Unheard, RunOver, RunSaved, RunTold,
            RunFailed, TerminalTypes, ServiceType
    <2>6. \E type \in EventType : Publish(s, type)
        BY <1>10 DEF Progress, EventType, TerminalType, TerminalTypes
    <2> QED BY <1>2, <2>1, <2>2, <2>3, <2>4, <2>5, <2>6
<1>11. CASE RequestCancel(s)
    <2>1. UNCHANGED <<starter, starting, restarts, sessions, worker, outcome, results, finished,
                      storedSession, storedResult, sequence, events, terminal, holders, lost, stream,
                      cursor>>
        BY <1>11 DEF RequestCancel, Step, storeVars, busVars, lockVars, streamVars
    <2>2. asked[s] # "none" /\ asked' = [asked EXCEPT ![s] = "set"] /\ asked'[s] = "set"
        BY <1>11 DEF RequestCancel, Step, ServiceType
    <2>3. ServiceType'
        BY <2>1, <2>2 DEF ServiceType
    <2>4. \A t \in Session : t # s => Same(t)
        BY <2>1, <2>2 DEF Same, ServiceType
    <2>5. SessionInv(s)'
        BY <1>1, <2>1, <2>2
        DEF SessionInv, RequestInv, ThreadInv, StoreInv, Agrees, Unheard, RunOver, RunSaved, RunTold,
            RunFailed, Open, Ended, ServiceType
    <2> QED BY <1>2, <2>1, <2>2, <2>3, <2>4, <2>5
<1> QED BY <1>3, <1>4, <1>5, <1>6, <1>7, <1>8, <1>9, <1>10, <1>11 DEF Thread

LEMMA RestartStep ==
    ASSUME IInv, Restart
    PROVE  IInv'
<1>1. \A s \in Session : SessionInv(s)
    BY DEF IInv, RunInv, SessionInv
<1>2. /\ restarts < MaxRestarts /\ restarts' = restarts + 1
      /\ sessions' = [s \in Session |-> storedSession[s]]
      /\ starter' = [s \in Session |-> IF starter[s] = "none" THEN "none" ELSE "over"]
      /\ starting' = {} /\ worker' = [s \in Session |-> "none"]
      /\ outcome' = [s \in Session |-> "none"] /\ results' = [s \in Session |-> "none"]
      /\ asked' = [s \in Session |-> "none"] /\ finished' = {}
      /\ sequence' = 0 /\ events' = [s \in Session |-> {}] /\ terminal' = {}
      /\ holders' = {} /\ lost' = FALSE
      /\ stream' = [r \in Reader |-> NoStream] /\ cursor' = [r \in Reader |-> 0]
      /\ storedSession' = storedSession /\ storedResult' = storedResult
    BY DEF Restart, Restored, storeVars
<1>3. restarts' \in 0..MaxRestarts /\ restarts' > 0
    BY <1>2, Finiteness DEF IInv, ServiceType
<1>4. ServiceType'
    BY <1>2, <1>3 DEF IInv, ServiceType, Place
<1>5. \A s \in Session : SessionInv(s)'
    <2> SUFFICES ASSUME NEW s \in Session PROVE SessionInv(s)'
        OBVIOUS
    <2>1. /\ sessions'[s] = storedSession[s] /\ worker'[s] = "none" /\ outcome'[s] = "none" /\ results'[s] = "none"
          /\ asked'[s] = "none" /\ s \notin finished' /\ s \notin terminal'
          /\ starter'[s] = IF starter[s] = "none" THEN "none" ELSE "over"
        BY <1>2
    <2>2. RequestInv(s)'
        BY <1>1, <1>2, <1>3, <2>1 DEF SessionInv, RequestInv
    <2>3. ThreadInv(s)'
        BY <2>1 DEF ThreadInv, Unheard
    <2>4. StoreInv(s)'
        BY <1>1, <1>2 DEF SessionInv, StoreInv
    <2> QED BY <2>2, <2>3, <2>4 DEF SessionInv
<1>6. BusyInv'
    <2>1. \A s \in Session : ~Busy(s)'
        BY <1>2 DEF Busy
    <2> QED BY <1>2, <2>1 DEF BusyInv, Busy
<1>7. RunInv'
    BY <1>5, <1>6 DEF RunInv, SessionInv
<1>8. BusType'
    BY <1>2, Finiteness, FS_EmptySet DEF BusType
<1>9. BusInv'
    BY <1>2 DEF BusInv
<1>10. StreamType'
    BY <1>2 DEF StreamType, Stream, NoStream
<1>11. StreamInv'
    BY <1>2 DEF StreamInv, FollowInv, NoStream
<1> QED BY <1>4, <1>7, <1>8, <1>9, <1>10, <1>11 DEF IInv

LEMMA InvariantInit == Init => IInv
<1> SUFFICES ASSUME Init PROVE IInv
    OBVIOUS
<1>1. ServiceType
    BY Finiteness DEF Init, ServiceType, Place
<1>2. BusType /\ BusInv
    BY Finiteness, FS_EmptySet DEF Init, BusType, BusInv
<1>3. StreamType /\ StreamInv
    BY DEF Init, StreamType, StreamInv, FollowInv, Stream, NoStream
<1>4. RunInv
    BY DEF Init, RunInv, BusyInv, Busy, RequestInv, ThreadInv, StoreInv, Unheard
<1> QED BY <1>1, <1>2, <1>3, <1>4 DEF IInv

(* The service and its store are left alone.                               *)
LEMMA QuietService ==
    ASSUME ServiceType, RunInv, UNCHANGED <<serviceVars, storeVars, terminal, restarts>>
    PROVE  ServiceType' /\ RunInv' /\ \A s \in Session : Same(s)
<1>1. UNCHANGED <<starter, starting, sessions, worker, outcome, results, asked, finished, storedSession,
                  storedResult,
                  terminal, restarts>>
    BY DEF serviceVars, storeVars
<1>2. ServiceType'
    BY <1>1 DEF ServiceType
<1>3. \A s \in Session : Same(s)
    BY <1>1 DEF Same
<1>4. \A s \in Session : SessionInv(s)'
    BY <1>1, <1>3, SameSession DEF RunInv, SessionInv
<1>5. BusyInv'
    BY <1>1 DEF RunInv, BusyInv, Busy
<1> QED BY <1>2, <1>3, <1>4, <1>5 DEF RunInv, SessionInv

LEMMA StreamIsQuiet ==
    ASSUME NEW r \in Reader,
           \/ Follow(r) \/ KeepAlive(r) \/ ReadOn(r) \/ Disconnect(r)
           \/ \E s \in Session : Connect(r, s)
    PROVE  UNCHANGED <<serviceVars, storeVars, terminal, restarts>>
BY DEF Follow, Take, Deliver, KeepAlive, ReadOn, Disconnect, Connect, StreamUnchanged, busVars

(* A client asks: nothing but its request moves.                           *)
Inquire(r) == ReadResult(r) \/ Answer(r) \/ \E s \in Session : Ask(r, s)

LEMMA InquiryIsQuiet ==
    ASSUME NEW r \in Reader, Inquire(r)
    PROVE  /\ UNCHANGED <<serviceVars, storeVars, terminal, restarts>>
           /\ UNCHANGED <<sequence, events, terminal, holders, lost, stream, cursor>>
BY DEF Inquire, ReadResult, Answer, Ask, InquiryUnchanged, busVars, lockVars, streamVars

LEMMA NextIs ==
    ASSUME Next
    PROVE  \/ \E s \in Session : Request(s) \/ Thread(s) \/ Progress(s) \/ RequestCancel(s)
           \/ \E r \in Reader : \/ Follow(r) \/ KeepAlive(r) \/ ReadOn(r) \/ Disconnect(r)
                              \/ \E s \in Session : Connect(r, s)
           \/ \E r \in Reader : Inquire(r)
           \/ Restart
BY DEF Next, Inquire

(* Every step keeps the invariant.                                         *)
LEMMA InvariantKept == IInv /\ [Next]_vars => IInv'
<1> SUFFICES ASSUME IInv, [Next]_vars PROVE IInv'
    OBVIOUS
<1>1. ServiceType /\ RunInv /\ BusType /\ StreamType /\ BusInv /\ StreamInv
    BY DEF IInv
<1>2. ASSUME NEW s \in Session, Request(s) PROVE IInv'
    <2>1. /\ ServiceType' /\ RunInv'
          /\ UNCHANGED <<sequence, events, terminal, holders, lost, stream, cursor>>
             \/ (Launch(s) /\ s \notin terminal)
        BY <1>1, <1>2, RequestStep
    <2>2. Launch(s) => Publish(s, "session.started") /\ "session.started" \in EventType
        BY DEF Launch, EventType
    <2>3. BusType' /\ StreamType' /\ BusInv' /\ StreamInv'
        BY <1>1, <2>1, <2>2, PublishStep, QuietBus
    <2> QED BY <2>1, <2>3 DEF IInv
<1>3. ASSUME NEW s \in Session, Thread(s) \/ Progress(s) \/ RequestCancel(s) PROVE IInv'
    <2>1. /\ ServiceType' /\ RunInv'
          /\ UNCHANGED <<sequence, events, terminal, holders, lost, stream, cursor>>
             \/ (s \notin terminal /\ \E type \in EventType : Publish(s, type))
        BY <1>1, <1>3, ThreadStep
    <2>2. BusType' /\ StreamType' /\ BusInv' /\ StreamInv'
        BY <1>1, <2>1, PublishStep, QuietBus
    <2> QED BY <2>1, <2>2 DEF IInv
<1>4. ASSUME NEW r \in Reader,
             Follow(r) \/ KeepAlive(r) \/ ReadOn(r) \/ Disconnect(r) \/ \E s \in Session : Connect(r, s)
      PROVE  IInv'
    <2>1. UNCHANGED <<serviceVars, storeVars, terminal, restarts>>
        BY <1>4, StreamIsQuiet
    <2>2. ServiceType' /\ RunInv'
        BY <1>1, <2>1, QuietService
    <2>3. BusType' /\ StreamType' /\ BusInv' /\ StreamInv'
        BY <1>1, <1>4, StreamStep
    <2> QED BY <2>2, <2>3 DEF IInv
<1>5. CASE UNCHANGED vars
    <2>1. UNCHANGED <<serviceVars, storeVars, terminal, restarts>>
          /\ UNCHANGED <<sequence, events, terminal, holders, lost, stream, cursor>>
        BY <1>5 DEF vars, busVars, lockVars, streamVars
    <2>2. ServiceType' /\ RunInv'
        BY <1>1, <2>1, QuietService
    <2>3. BusType' /\ StreamType' /\ BusInv' /\ StreamInv'
        BY <1>1, <2>1, QuietBus
    <2> QED BY <2>2, <2>3 DEF IInv
<1>6. Restart => IInv'
    BY RestartStep
<1>7. ASSUME NEW r \in Reader, Inquire(r) PROVE IInv'
    <2>1. /\ UNCHANGED <<serviceVars, storeVars, terminal, restarts>>
          /\ UNCHANGED <<sequence, events, terminal, holders, lost, stream, cursor>>
        BY <1>7, InquiryIsQuiet
    <2>2. ServiceType' /\ RunInv'
        BY <1>1, <2>1, QuietService
    <2>3. BusType' /\ StreamType' /\ BusInv' /\ StreamInv'
        BY <1>1, <2>1, QuietBus
    <2> QED BY <2>2, <2>3 DEF IInv
<1> QED BY <1>2, <1>3, <1>4, <1>5, <1>6, <1>7, NextIs

(* The service, its store, its bus and its streams hold together at every  *)
(* step, whatever fails, dies or is asked for.                             *)
THEOREM InvariantHolds == Spec => []IInv
BY InvariantInit, InvariantKept, PTL DEF Spec
-----------------------------------------------------------------------------
(* What the invariant is for.                                              *)

(* A status that is final is one of a run that was told, or one of a       *)
(* session that was found in the store with nothing left of its run.       *)
FinalOfRun(s) == s \in finished /\ worker[s] = "done" /\ RunTold(s) /\ outcome[s] \in Ended
FinalOfStore(s) ==
    /\ s \notin finished /\ worker[s] = "none" /\ asked[s] = "none" /\ results[s] = "none" /\ starter[s] = "over"
    /\ sessions[s] \in Ended /\ storedSession[s] = sessions[s]

LEMMA FinalStatusIs ==
    ASSUME IInv, NEW s \in Session, ControlStatus(s) \in Ended
    PROVE  \/ (FinalOfRun(s) /\ ControlStatus(s) = outcome[s])
           \/ FinalOfStore(s) /\ ControlStatus(s) = sessions[s]
<1>1. RequestInv(s) /\ ThreadInv(s) /\ StoreInv(s)
    BY DEF IInv, RunInv
<1>2. worker[s] \in Place /\ starter[s] \in {"none", "building", "launching", "over"} /\ asked[s] \in {"none", "clear", "set"}
    BY DEF IInv, ServiceType
<1>3. CASE s \in finished
    <2>1. worker[s] = "done" /\ RunTold(s)
        BY <1>1, <1>2, <1>3 DEF ThreadInv, Unheard, RunFailed, Place
    <2>2. results[s] = outcome[s] /\ outcome[s] \notin {"none", "null"}
        BY <2>1 DEF RunTold, RunSaved, RunOver, Agrees, Ended
    <2>3. ControlStatus(s) = outcome[s]
        BY <1>3, <2>2 DEF ControlStatus, StatusFrom
    <2> QED BY <1>3, <2>1, <2>3 DEF FinalOfRun
<1>4. CASE s \notin finished
    <2>1. asked[s] = "none" /\ sessions[s] \in Ended /\ ControlStatus(s) = sessions[s]
        BY <1>2, <1>4 DEF ControlStatus, StatusFrom, Ended
    <2>2. worker[s] = "none" /\ results[s] = "none"
        BY <1>1, <2>1 DEF ThreadInv
    <2>3. starter[s] = "over"
        BY <1>1, <1>2, <2>1 DEF RequestInv, Ended
    <2>4. storedSession[s] = sessions[s]
        BY <1>1, <2>1, <2>2, <2>3 DEF RequestInv, Ended
    <2> QED BY <1>4, <2>1, <2>2, <2>3, <2>4 DEF FinalOfStore
<1> QED BY <1>3, <1>4

LEMMA OneRun == IInv => OneRunPerIncident
<1> SUFFICES ASSUME IInv, NEW i \in Incident
             PROVE  Cardinality({s \in Session : IncidentOf[s] = i
                        /\ (worker[s] = "running" \/ starter[s] \notin {"none", "over"})}) <= 1
    BY DEF OneRunPerIncident
<1> DEFINE of == {s \in Session : IncidentOf[s] = i /\ (worker[s] = "running" \/ starter[s] \notin {"none", "over"})}
<1>1. \A s, t \in of : s = t
    <2>1. \A s \in of : s \in Session /\ Busy(s) /\ IncidentOf[s] = i
        BY DEF IInv, ServiceType, Busy
    <2> QED BY <2>1 DEF IInv, RunInv, BusyInv
<1>2. of = {} \/ \E s : of = {s}
    <2> HIDE DEF of
    <2> QED BY <1>1
<1> HIDE DEF of
<1>3. Cardinality(of) = 0 \/ Cardinality(of) = 1
    BY <1>2, FS_EmptySet, FS_Singleton
<1>4. Cardinality(of) <= 1
    BY <1>3
<1> QED BY <1>4 DEF of

LEMMA InvariantSuffices == IInv /\ AskInv => SessionsAgree
<1> SUFFICES ASSUME IInv, AskInv PROVE SessionsAgree
    OBVIOUS
<1>1. /\ \A s \in Session : RequestInv(s) /\ ThreadInv(s) /\ StoreInv(s)
      /\ \A s \in Session : worker[s] \in Place
    BY DEF IInv, RunInv, ServiceType
<1>2. TypeOK
    <2>1. \A r \in Reader : inquiry[r].at \in {"none", "asked", "read", "told"}
        BY DEF AskInv, Inquiry
    <2> QED BY <2>1 DEF IInv, ServiceType, BusType, StreamType, TypeOK, Place
<1>3. FinishedIsStored
    <2> SUFFICES ASSUME NEW s \in finished
                 PROVE  /\ results[s] = outcome[s] /\ storedResult[s] = outcome[s] /\ storedSession[s] = sessions[s]
                        /\ outcome[s] # "cancelled" => s \in terminal
        BY DEF FinishedIsStored
    <2>1. s \in Session
        BY DEF IInv, ServiceType
    <2>2. RunTold(s)
        BY <1>1, <2>1 DEF ThreadInv, Unheard, RunFailed, Place
    <2> QED BY <2>2 DEF RunTold, RunSaved
<1>4. OpenSessionIsRun
    <2> SUFFICES ASSUME NEW s \in Session, sessions[s] \in Open, starter[s] = "over", worker[s] \in {"none", "done"}
                 PROVE  \/ storedSession[s] = "absent" \/ outcome[s] = "waiting_approval"
                        \/ restarts > 0 /\ storedSession[s] = sessions[s]
        BY DEF OpenSessionIsRun
    <2>1. CASE worker[s] = "none"
        BY <1>1, <2>1 DEF RequestInv, Open
    <2>2. CASE worker[s] = "done"
        BY <1>1, <2>2 DEF ThreadInv, RunFailed, RunTold, RunSaved, RunOver, Agrees, Open, Ended
    <2> QED BY <2>1, <2>2
<1>5. ViewsAgree
    <2> SUFFICES ASSUME NEW s \in Session, ControlStatus(s) \in Ended
                 PROVE  SessionView(s) = ControlStatus(s) \/ (SessionView(s) = "running" /\ storedResult[s] = "none")
        BY DEF ViewsAgree
    <2>1. CASE FinalOfRun(s) /\ ControlStatus(s) = outcome[s]
        BY <2>1 DEF FinalOfRun, RunTold, RunSaved, SessionView, Ended
    <2>2. CASE FinalOfStore(s) /\ ControlStatus(s) = sessions[s]
        <3>1. CASE storedResult[s] = "none"
            BY <2>2, <3>1 DEF FinalOfStore, SessionView
        <3>2. CASE storedResult[s] # "none"
            <4>1. Agrees(sessions[s], storedResult[s])
                BY <1>1, <2>2, <3>2 DEF StoreInv, FinalOfStore
            <4>2. storedResult[s] = sessions[s]
                BY <2>2, <4>1 DEF Agrees, FinalOfStore, Ended
            <4>3. SessionView(s) = storedResult[s]
                BY <2>2, <3>2 DEF FinalOfStore, SessionView
            <4> QED BY <2>2, <4>2, <4>3
        <3> QED BY <3>1, <3>2
    <2> QED BY <2>1, <2>2, FinalStatusIs
<1>6. EndedStreamSawTheEnd
    <2> SUFFICES ASSUME NEW r \in Reader, stream[r].at = "ended"
                 PROVE  \E last \in events[stream[r].of] :
                            /\ \A e \in events[stream[r].of] : e.id <= last.id
                            /\ cursor[r] = last.id /\ last.type \in TerminalTypes
        BY DEF EndedStreamSawTheEnd
    <2>1. stream[r].of \in terminal /\ stream[r].of \in Session
          /\ \A e \in events[stream[r].of] : e.id <= cursor[r] /\ e.id \in Nat \ {0}
        BY DEF IInv, StreamInv, FollowInv, BusType, Event
    <2>2. PICK last \in events[stream[r].of] :
              last.type \in TerminalTypes /\ \A e \in events[stream[r].of] : e.id <= last.id
        BY <2>1 DEF IInv, BusInv
    <2>3. cursor[r] \in Nat /\ cursor[r] # 0
        BY <2>1, <2>2 DEF IInv, StreamType
    <2>4. \E e \in events[stream[r].of] : cursor[r] <= e.id
        BY <2>3 DEF IInv, StreamInv, FollowInv, Behind
    <2>5. cursor[r] <= last.id
        BY <2>1, <2>2, <2>3, <2>4
    <2>6. cursor[r] = last.id
        BY <2>1, <2>2, <2>3, <2>5
    <2> QED BY <2>2, <2>6
<1> QED BY <1>2, <1>3, <1>4, <1>5, <1>6, OneRun DEF SessionsAgree

LEMMA FinalStays ==
    ASSUME IInv, Next, NEW s \in Session, ControlStatus(s) \in Ended
    PROVE  ControlStatus(s)' = ControlStatus(s)
<1>0. (FinalOfRun(s) /\ ControlStatus(s) = outcome[s]) \/ (FinalOfStore(s) /\ ControlStatus(s) = sessions[s])
    BY FinalStatusIs
<1>1. /\ ServiceType /\ RunInv /\ RequestInv(s)
      /\ (FinalOfRun(s) /\ ControlStatus(s) = outcome[s]) \/ (FinalOfStore(s) /\ ControlStatus(s) = sessions[s])
    BY <1>0 DEF IInv, RunInv
<1>2. Same(s) => ControlStatus(s)' = ControlStatus(s)
    BY DEF Same, ControlStatus, StatusFrom
<1>3. starter[s] = "over"
    BY <1>1 DEF RequestInv, FinalOfRun, FinalOfStore, ServiceType
<1>4. ASSUME NEW t \in Session, Request(t) PROVE Same(s)
    <2>1. t # s
        BY <1>3, <1>4 DEF Request, Admit, BuildFails, Register, Launch
    <2> QED BY <1>1, <1>4, <2>1, RequestStep
<1>5. ASSUME NEW t \in Session, Thread(t) \/ Progress(t) \/ RequestCancel(t)
      PROVE  ControlStatus(s)' = ControlStatus(s)
    <2>1. worker[s] \in {"none", "done"}
        BY <1>1 DEF FinalOfRun, FinalOfStore
    <2>2. ~Thread(s) /\ ~Progress(s)
        BY <2>1 DEF Thread, Progress, Step, EngineReturns, SaveSession, SaveResult, Announce, Mark, Fail,
            AnnounceFailure
    <2>3. t # s => Same(s)
        BY <1>1, <1>5, ThreadStep
    <2>4. CASE t = s
        <3>1. asked[s] # "none" /\ UNCHANGED <<sessions, results, finished>>
            BY <1>5, <2>2, <2>4 DEF RequestCancel
        <3>2. s \in finished
            BY <1>1, <3>1 DEF FinalOfRun, FinalOfStore
        <3> QED BY <3>1, <3>2 DEF ControlStatus, StatusFrom
    <2> QED BY <1>2, <2>3, <2>4
<1>6. ASSUME NEW r \in Reader,
             Follow(r) \/ KeepAlive(r) \/ ReadOn(r) \/ Disconnect(r) \/ \E t \in Session : Connect(r, t)
      PROVE  Same(s)
    BY <1>1, <1>6, StreamIsQuiet, QuietService
<1>7. ASSUME Restart PROVE ControlStatus(s)' = ControlStatus(s)
    <2>1. /\ sessions'[s] = storedSession[s] /\ results'[s] = "none" /\ asked'[s] = "none" /\ s \notin finished'
        BY <1>7 DEF Restart, Restored
    <2>2. storedSession[s] = ControlStatus(s)
        BY <1>1 DEF FinalOfRun, FinalOfStore, RunTold, RunSaved, RunOver, Agrees, Ended
    <2>3. ControlStatus(s)' = (IF sessions'[s] \in Ended THEN sessions'[s] ELSE "unavailable")
        BY <2>1 DEF ControlStatus, StatusFrom
    <2> QED BY <2>1, <2>2, <2>3
<1>8. ASSUME NEW r \in Reader, Inquire(r) PROVE Same(s)
    BY <1>1, <1>8, InquiryIsQuiet, QuietService
<1> QED BY <1>2, <1>4, <1>5, <1>6, <1>7, <1>8, NextIs

(* How the requests of clients for a status stand with the steps of a run. *)
LEMMA AskBegins == Init => AskInv
BY DEF Init, AskInv, Inquiry, InquiryInv, NoInquiry

(* A request that a step does not move, or only overtakes.                 *)
LEMMA InquiryStays ==
    ASSUME IInv, AskInv, Next, NEW r \in Reader, NEW q, NEW new, q = inquiry[r], new = inquiry'[r],
           new \in {q, [q EXCEPT !.overtaken = TRUE]},
           \/ q.at \in {"none", "told"}
           \/ /\ ~new.overtaken => (asked'[q.of] = "none" <=> asked[q.of] = "none")
              /\ q.at = "read" =>
                    \/ results'[q.of] = results[q.of]
                    \/ /\ results[q.of] \in {"none", "null"}
                       /\ results'[q.of] = "null" \/ new.overtaken
    PROVE  new \in Inquiry /\ InquiryInv(r)'
<1>1. q \in Inquiry /\ InquiryInv(r)
    BY DEF AskInv
<1>2. /\ new \in Inquiry /\ new.at = q.at /\ new.of = q.of /\ new.event = q.event /\ new.result = q.result
      /\ new.answer = q.answer /\ (q.overtaken => new.overtaken)
    BY <1>1 DEF Inquiry
<1>3. /\ q.at # "none" => q.of \in Session
      /\ q.at = "told" => q.answer \in Ended /\ Kept(q)
      /\ q.at \in {"asked", "read"} /\ ~q.overtaken => (q.event = "none" <=> asked[q.of] = "none")
      /\ q.at = "read" => q.result \in {"none", "null", results[q.of]}
      /\ q.at = "read" /\ ~q.overtaken => q.result = results[q.of] \/ results[q.of] = "null"
    BY <1>1 DEF InquiryInv
<1>4. ASSUME q.at = "told" PROVE new.answer \in Ended /\ Kept(new)'
    <2>1. ASSUME q.answer = ControlStatus(q.of) PROVE ControlStatus(q.of)' = ControlStatus(q.of)
        <3>1. q.of \in Session /\ ControlStatus(q.of) \in Ended
            BY <1>3, <1>4, <2>1
        <3> QED BY <3>1, FinalStays
    <2>2. q.answer = ControlStatus(q.of) => new.answer = ControlStatus(new.of)'
        BY <1>2, <2>1
    <2> QED BY <1>2, <1>3, <1>4, <2>2 DEF Kept
<1>5. q.at \in {"asked", "read"} /\ ~new.overtaken => (new.event = "none" <=> asked'[new.of] = "none")
    BY <1>2, <1>3
<1>6. new.at = "read" =>
          /\ new.result \in {"none", "null", results'[new.of]}
          /\ ~new.overtaken => new.result = results'[new.of] \/ results'[new.of] = "null"
    BY <1>2, <1>3
<1> QED BY <1>2, <1>3, <1>4, <1>5, <1>6 DEF InquiryInv

(* A status request may hold anything of a session but its inquiry is over.*)
LEMMA NoInquiryHolds ==
    ASSUME NEW r \in Reader, inquiry'[r] = NoInquiry
    PROVE  inquiry'[r] \in Inquiry /\ InquiryInv(r)'
BY DEF Inquiry, InquiryInv, NoInquiry

LEMMA RequestOvertakes ==
    ASSUME IInv, AskInv, Next, NEW s \in Session, Request(s), NEW r \in Reader
    PROVE  inquiry'[r] \in Inquiry /\ InquiryInv(r)'
<1> DEFINE q == inquiry[r]
           new == inquiry'[r]
<1>1. q \in Inquiry /\ results' = results
    BY DEF AskInv, Request, Admit, BuildFails, Register, Launch
<1>2. CASE ~Launch(s)
    <2>1. inquiry' = inquiry /\ asked' = asked
        BY <1>2 DEF Request, Admit, BuildFails, Register
    <2>2. new = q
        BY <2>1
    <2> HIDE DEF q, new
    <2> QED BY <1>1, <2>1, <2>2, InquiryStays DEF q, new
<1>3. CASE Launch(s)
    <2>1. new = IF q.of = s /\ q.at \in {"asked", "read"} THEN [q EXCEPT !.overtaken = TRUE] ELSE q
        BY <1>3 DEF Launch, Overtake
    <2>2. \A t : t # s => asked'[t] = asked[t]
        BY <1>3 DEF Launch, IInv, ServiceType
    <2>3. q.of = s /\ q.at \in {"asked", "read"} => new.overtaken
        BY <1>1, <2>1 DEF Inquiry
    <2>4. new \in {q, [q EXCEPT !.overtaken = TRUE]}
        BY <2>1
    <2>5. \/ q.at \in {"none", "told"}
          \/ /\ ~new.overtaken => (asked'[q.of] = "none" <=> asked[q.of] = "none")
             /\ q.at = "read" => results'[q.of] = results[q.of]
        BY <1>1, <2>2, <2>3 DEF Inquiry
    <2> HIDE DEF q, new
    <2> QED BY <2>4, <2>5, InquiryStays DEF q, new
<1> QED BY <1>2, <1>3

LEMMA ThreadOvertakes ==
    ASSUME IInv, AskInv, Next, NEW s \in Session, Thread(s) \/ Progress(s) \/ RequestCancel(s), NEW r \in Reader
    PROVE  inquiry'[r] \in Inquiry /\ InquiryInv(r)'
<1> DEFINE q == inquiry[r]
           new == inquiry'[r]
<1>1. q \in Inquiry /\ (q.at \in {"none", "told"} \/ q.of \in Session) /\ ThreadInv(s) /\ asked \in [Session -> {"none", "clear", "set"}]
      /\ results \in [Session -> {"none", "null", "waiting_approval"} \cup Ended]
    BY DEF AskInv, IInv, RunInv, ServiceType, InquiryInv, Inquiry
<1>2. \A t \in Session : asked'[t] = "none" <=> asked[t] = "none"
    <2>1. asked' = asked \/ (asked[s] # "none" /\ asked' = [asked EXCEPT ![s] = "set"])
        BY DEF Thread, Progress, RequestCancel, Step, EngineReturns, SaveSession, SaveResult, Announce, Mark, Fail,
            AnnounceFailure
    <2> QED BY <1>1, <2>1
<1>3. CASE SaveResult(s)
    <2>1. new = IF q.of = s /\ q.at \in {"read"} THEN [q EXCEPT !.overtaken = TRUE] ELSE q
        BY <1>3 DEF SaveResult, Overtake
    <2>2. results[s] = "none" /\ \A t \in Session : t # s => results'[t] = results[t]
        BY <1>1, <1>3 DEF SaveResult, Step, ThreadInv
    <2>3. q.of = s /\ q.at = "read" => new.overtaken
        BY <1>1, <2>1 DEF Inquiry
    <2>4. new \in {q, [q EXCEPT !.overtaken = TRUE]}
        BY <2>1
    <2>5. ASSUME q.at = "read"
          PROVE  results'[q.of] = results[q.of] \/ (results[q.of] \in {"none", "null"} /\ new.overtaken)
        <3>1. q.of \in Session
            BY <1>1, <2>5
        <3>2. CASE q.of = s
            BY <2>2, <2>3, <2>5, <3>2
        <3>3. CASE q.of # s
            BY <2>2, <3>1, <3>3
        <3> QED BY <3>2, <3>3
    <2> HIDE DEF q, new
    <2> QED BY <1>1, <1>2, <2>4, <2>5, InquiryStays DEF q, new
<1>4. CASE Fail(s)
    <2>1. inquiry' = inquiry /\ results' = [results EXCEPT ![s] = "null"]
        BY <1>4 DEF Fail
    <2>2. worker[s] \in {"running", "recording", "result"}
        BY <1>4 DEF Fail, Step
    <2>3. results[s] = "none" /\ results'[s] = "null" /\ \A t \in Session : t # s => results'[t] = results[t]
        BY <1>1, <2>1, <2>2 DEF ThreadInv
    <2>4. /\ new = q
          /\ q.of \in Session =>
                results'[q.of] = results[q.of] \/ (results[q.of] = "none" /\ results'[q.of] = "null")
        BY <2>1, <2>3
    <2> HIDE DEF q, new
    <2> QED BY <1>1, <1>2, <2>4, InquiryStays DEF q, new
<1>5. CASE ~SaveResult(s) /\ ~Fail(s)
    <2>1. inquiry' = inquiry /\ results' = results
        BY <1>5 DEF Thread, Progress, RequestCancel, EngineReturns, SaveSession, Announce, Mark, AnnounceFailure
    <2>2. new = q
        BY <2>1
    <2> HIDE DEF q, new
    <2> QED BY <1>1, <1>2, <2>1, <2>2, InquiryStays DEF q, new
<1> QED BY <1>3, <1>4, <1>5

(* The client asks, reads and is told.                                     *)
LEMMA AnswerIsTrue ==
    ASSUME IInv, AskInv, NEW r \in Reader, Answer(r)
    PROVE  inquiry'[r] \in Inquiry /\ InquiryInv(r)'
<1> SUFFICES ASSUME NEW q, NEW s, q = inquiry[r], s = q.of PROVE inquiry'[r] \in Inquiry /\ InquiryInv(r)'
    OBVIOUS
<1> DEFINE status == StatusFrom(s, q.event, q.result)
           told == [q EXCEPT !.at = "told", !.answer = status, !.result = "none"]
<1>1. /\ inquiry \in [Reader -> Inquiry] /\ q \in Inquiry /\ q.at = "read" /\ s \in Session
      /\ q.result \in {"none", "null", results[s]}
      /\ ~q.overtaken => (q.event = "none" <=> asked[s] = "none") /\ (q.result = results[s] \/ results[s] = "null")
    BY DEF Answer, AskInv, InquiryInv
<1>2. inquiry'[r] = IF status \in Ended THEN told ELSE NoInquiry
    BY <1>1 DEF Answer
<1>3. UNCHANGED <<sessions, asked, results, finished>>
    BY DEF Answer, InquiryUnchanged, serviceVars
<1>4. ThreadInv(s) /\ worker[s] \in Place /\ asked[s] \in {"none", "clear", "set"}
    BY <1>1 DEF IInv, RunInv, ServiceType
<1>5. ASSUME status \in Ended
      PROVE  status = ControlStatus(s) \/ (q.overtaken /\ (status = "failed" \/ q.event = "none"))
    <2>1. CASE s \in finished
        <3>1. results[s] \notin {"none", "null"}
            BY <1>4, <2>1 DEF ThreadInv, Unheard, RunFailed, RunTold, RunSaved, RunOver, Agrees, Ended, Place
        <3>2. CASE q.result = results[s]
            BY <2>1, <3>2 DEF ControlStatus, StatusFrom
        <3>3. CASE q.result # results[s]
            BY <1>1, <2>1, <3>1, <3>3 DEF StatusFrom
        <3> QED BY <3>2, <3>3
    <2>2. CASE s \notin finished
        <3>1. q.event = "none"
            BY <1>5, <2>2 DEF StatusFrom, Ended
        <3>2. CASE ~q.overtaken
            <4>1. asked[s] = "none"
                BY <1>1, <3>1, <3>2
            <4> QED BY <2>2, <3>1, <4>1 DEF ControlStatus, StatusFrom
        <3> QED BY <3>1, <3>2
    <2> QED BY <2>1, <2>2
<1>6. ASSUME status \in Ended PROVE inquiry'[r] \in Inquiry /\ InquiryInv(r)'
    <2>1. /\ told \in Inquiry /\ told.at = "told" /\ told.of = s /\ told.answer = status /\ told.event = q.event
          /\ told.overtaken = q.overtaken /\ inquiry'[r] = told
        BY <1>1, <1>2, <1>6 DEF Inquiry
    <2>2. ControlStatus(s)' = ControlStatus(s)
        BY <1>3 DEF ControlStatus, StatusFrom
    <2> QED BY <1>1, <1>5, <1>6, <2>1, <2>2 DEF InquiryInv, Kept
<1>7. ASSUME status \notin Ended PROVE inquiry'[r] \in Inquiry /\ InquiryInv(r)'
    BY <1>2, <1>7, NoInquiryHolds
<1> QED BY <1>6, <1>7

LEMMA InquireStep ==
    ASSUME IInv, AskInv, NEW r \in Reader, Inquire(r)
    PROVE  /\ inquiry'[r] \in Inquiry /\ InquiryInv(r)'
           /\ \A c \in Reader : c # r => inquiry'[c] = inquiry[c]
<1>1. inquiry \in [Reader -> Inquiry] /\ inquiry[r] \in Inquiry /\ InquiryInv(r)
    BY DEF AskInv
<1>2. UNCHANGED <<sessions, asked, results, finished>>
    BY DEF Inquire, ReadResult, Answer, Ask, InquiryUnchanged, serviceVars
<1>3. CASE \E s \in Session : Ask(r, s)
    <2>1. PICK s \in Session : Ask(r, s)
        BY <1>3
    <2> DEFINE held == IF asked[s] = "none" THEN "none" ELSE "held"
               new == [NoInquiry EXCEPT !.at = "asked", !.of = s, !.event = held]
    <2>2. inquiry' = [inquiry EXCEPT ![r] = new]
        BY <2>1 DEF Ask
    <2>3. new \in Inquiry /\ new.at = "asked" /\ new.of = s /\ new.event = held
        BY DEF NoInquiry, Inquiry
    <2>4. inquiry'[r] = new /\ \A c \in Reader : c # r => inquiry'[c] = inquiry[c]
        BY <1>1, <2>2
    <2> QED BY <1>2, <2>3, <2>4 DEF InquiryInv
<1>4. CASE ReadResult(r)
    <2> DEFINE q == inquiry[r]
               new == [q EXCEPT !.at = "read", !.result = results[q.of]]
    <2>1. inquiry' = [inquiry EXCEPT ![r] = new] /\ q.at = "asked" /\ q.of \in Session
        BY <1>1, <1>4 DEF ReadResult, InquiryInv
    <2>2. results[q.of] \in {"none", "null", "waiting_approval"} \cup Ended
        BY <2>1 DEF IInv, ServiceType
    <2>3. /\ new \in Inquiry /\ new.at = "read" /\ new.of = q.of /\ new.event = q.event
          /\ new.result = results[q.of] /\ new.overtaken = q.overtaken
        BY <1>1, <2>2 DEF Inquiry
    <2>4. inquiry'[r] = new /\ \A c \in Reader : c # r => inquiry'[c] = inquiry[c]
        BY <1>1, <2>1
    <2> QED BY <1>1, <1>2, <2>1, <2>3, <2>4 DEF InquiryInv
<1>5. CASE Answer(r)
    <2>1. \A c \in Reader : c # r => inquiry'[c] = inquiry[c]
        BY <1>1, <1>5 DEF Answer
    <2> QED BY <1>5, <2>1, AnswerIsTrue
<1> QED BY <1>3, <1>4, <1>5 DEF Inquire

LEMMA AskKept == IInv /\ AskInv /\ [Next]_vars => AskInv'
<1> SUFFICES ASSUME IInv, AskInv, [Next]_vars PROVE AskInv'
    OBVIOUS
<1>1. ASSUME DOMAIN inquiry' = Reader /\ inquiry' = [r \in Reader |-> inquiry'[r]],
             \A r \in Reader : inquiry'[r] \in Inquiry /\ InquiryInv(r)'
      PROVE  AskInv'
    BY <1>1 DEF AskInv
<1>2. inquiry = [r \in Reader |-> inquiry[r]] /\ DOMAIN inquiry = Reader
    BY DEF AskInv
<1>3. CASE UNCHANGED vars
    <2>1. UNCHANGED <<inquiry, sessions, asked, results, finished>>
        BY <1>3 DEF vars, serviceVars
    <2> QED BY <2>1 DEF AskInv, InquiryInv, Kept, ControlStatus, StatusFrom
<1>4. ASSUME Next PROVE inquiry' = [r \in Reader |-> inquiry'[r]] /\ DOMAIN inquiry' = Reader
    <2> DEFINE Goal == inquiry' = [r \in Reader |-> inquiry'[r]] /\ DOMAIN inquiry' = Reader
    <2>1. ASSUME inquiry' = inquiry PROVE Goal
        BY <1>2, <2>1
    <2>2. ASSUME NEW c \in Reader, NEW v, inquiry' = [inquiry EXCEPT ![c] = v] PROVE Goal
        BY <1>2, <2>2
    <2>3. ASSUME NEW s, NEW places, Overtake(s, places) PROVE Goal
        BY <2>3 DEF Overtake
    <2>4. ASSUME Restart PROVE Goal
        BY <2>4 DEF Restart
    <2> HIDE DEF Goal
    <2>5. ASSUME NEW s \in Session, Request(s) PROVE Goal
        BY <2>1, <2>3, <2>5 DEF Request, Admit, BuildFails, Register, Launch
    <2>6. ASSUME NEW s \in Session, Thread(s) \/ Progress(s) \/ RequestCancel(s) PROVE Goal
        BY <2>1, <2>3, <2>6 DEF Thread, EngineReturns, SaveSession, SaveResult, Announce, Mark, Fail,
            AnnounceFailure, Progress, RequestCancel
    <2>7. ASSUME NEW c \in Reader,
                 \/ Follow(c) \/ KeepAlive(c) \/ ReadOn(c) \/ Disconnect(c) \/ \E s \in Session : Connect(c, s)
          PROVE  Goal
        BY <2>1, <2>2, <2>7 DEF Follow, Take, Deliver, KeepAlive, ReadOn, Disconnect, Connect, StreamUnchanged
    <2>8. ASSUME NEW c \in Reader, Inquire(c) PROVE Goal
        <3>1. CASE \E s \in Session : Ask(c, s)
            BY <2>2, <3>1 DEF Ask
        <3>2. CASE ReadResult(c)
            <4>1. inquiry' = [inquiry EXCEPT ![c] =
                      [inquiry[c] EXCEPT !.at = "read", !.result = results[inquiry[c].of]]]
                BY <3>2 DEF ReadResult
            <4> QED BY <2>2, <4>1
        <3>3. CASE Answer(c)
            BY <2>2, <3>3 DEF Answer
        <3> QED BY <2>8, <3>1, <3>2, <3>3 DEF Inquire
    <2> QED BY <1>4, <2>4, <2>5, <2>6, <2>7, <2>8, NextIs DEF Goal
<1>5. ASSUME Next, NEW r \in Reader PROVE inquiry'[r] \in Inquiry /\ InquiryInv(r)'
    <2>1. CASE \E s \in Session : Request(s)
        BY <1>5, <2>1, RequestOvertakes
    <2>2. CASE \E s \in Session : Thread(s) \/ Progress(s) \/ RequestCancel(s)
        BY <1>5, <2>2, ThreadOvertakes
    <2>3. CASE UNCHANGED <<asked, results>> /\ inquiry'[r] = inquiry[r]
        BY <1>5, <2>3, InquiryStays
    <2>4. ASSUME NEW c \in Reader,
                 \/ Follow(c) \/ KeepAlive(c) \/ ReadOn(c) \/ Disconnect(c) \/ \E s \in Session : Connect(c, s)
          PROVE  inquiry'[r] \in Inquiry /\ InquiryInv(r)'
        <3>1. UNCHANGED <<asked, results>>
            BY <2>4, StreamIsQuiet DEF serviceVars
        <3>2. inquiry' = inquiry \/ inquiry' = [inquiry EXCEPT ![c] = NoInquiry]
            BY <2>4 DEF Follow, Take, Deliver, KeepAlive, ReadOn, Disconnect, Connect, StreamUnchanged
        <3>3. inquiry'[r] = inquiry[r] \/ inquiry'[r] = NoInquiry
            BY <1>2, <3>2
        <3> QED BY <2>3, <3>1, <3>3, NoInquiryHolds
    <2>5. ASSUME NEW c \in Reader, Inquire(c) PROVE inquiry'[r] \in Inquiry /\ InquiryInv(r)'
        <3>1. UNCHANGED <<asked, results>>
            BY <2>5, InquiryIsQuiet DEF serviceVars
        <3> QED BY <2>3, <2>5, <3>1, InquireStep
    <2>6. CASE Restart
        <3>1. inquiry'[r] = IF inquiry[r].at = "told" THEN inquiry[r] ELSE NoInquiry
            BY <2>6 DEF Restart
        <3> QED BY <1>5, <3>1, InquiryStays, NoInquiryHolds
    <2> QED BY <1>5, <2>1, <2>2, <2>4, <2>5, <2>6, NextIs
<1> QED BY <1>1, <1>3, <1>4, <1>5

(* What a status request has read, and what it told, at every step.        *)
THEOREM AskHolds == Spec => []AskInv
BY AskBegins, AskKept, InvariantHolds, PTL DEF Spec

(* What the service, its store and its streams say of a session agrees,    *)
(* and no incident is diagnosed twice at a time.                           *)
THEOREM SessionsStayAgreed == Spec => []SessionsAgree
BY InvariantHolds, AskHolds, InvariantSuffices, PTL

LEMMA AnswersAre == AskInv => AnswersAreTrue
BY DEF AskInv, InquiryInv, Kept, AnswersAreTrue

LEMMA NoGap ==
    ASSUME IInv, Next, NEW r \in Reader, cursor'[r] # cursor[r], restarts' = restarts
    PROVE  cursor'[r] > cursor[r] /\ \A e \in events[stream[r].of] : ~(cursor[r] < e.id /\ e.id < cursor'[r])
<1>1. ServiceType /\ BusType /\ StreamType /\ FollowInv(r)
    BY DEF IInv, StreamInv
<1>2. ~Restart
    BY <1>1 DEF Restart, ServiceType
<1>3. ASSUME NEW s \in Session, Request(s) \/ Thread(s) \/ Progress(s) \/ RequestCancel(s) PROVE FALSE
    <2>1. cursor' = cursor
        BY <1>3 DEF Request, Admit, BuildFails, Register, Launch, Thread, EngineReturns, SaveSession, SaveResult,
            Announce, Mark, Fail, AnnounceFailure, Progress, RequestCancel, Publish, streamVars
    <2> QED BY <2>1
<1>4. PICK q \in Reader : Deliver(q)
    <2>0. \A q \in Reader : ~Inquire(q)
        BY InquiryIsQuiet
    <2>1. PICK q \in Reader :
              Follow(q) \/ KeepAlive(q) \/ ReadOn(q) \/ Disconnect(q) \/ \E s \in Session : Connect(q, s)
        BY <1>2, <1>3, <2>0, NextIs
    <2>2. Deliver(q) \/ cursor' = cursor
        BY <2>1 DEF Follow, Take, KeepAlive, ReadOn, Disconnect, Connect
    <2> QED BY <2>2
<1>5. PICK next \in stream[q].batch :
          /\ \A e \in stream[q].batch \ {next} : next.id < e.id
          /\ cursor' = [cursor EXCEPT ![q] = next.id] /\ stream[q].at = "delivering"
    BY <1>4 DEF Deliver
<1>6. q = r /\ cursor'[r] = next.id
    BY <1>1, <1>5 DEF StreamType
<1>7. stream[r].of \in Session /\ cursor[r] \in Nat /\ next.id \in Nat
    BY <1>1, <1>5, <1>6 DEF StreamType, Stream, FollowInv, Event
<1>8. \A e \in events[stream[r].of] : e.id \in Nat
    BY <1>1, <1>7 DEF BusType, Event
<1>9. cursor[r] < next.id
    BY <1>1, <1>5, <1>6 DEF FollowInv
<1>10. ASSUME NEW e \in events[stream[r].of], cursor[r] < e.id, e.id < next.id PROVE FALSE
    <2>1. e \in stream[r].batch
        BY <1>1, <1>5, <1>6, <1>7, <1>8, <1>10 DEF FollowInv
    <2>2. e = next \/ next.id < e.id
        BY <1>5, <1>6, <2>1
    <2> QED BY <1>7, <1>8, <1>10, <2>2
<1> QED BY <1>6, <1>7, <1>9, <1>10

(* A final control status never changes again, what a client was told as   *)
(* final is that status but for the two races of a status request, and no  *)
(* stream leaves out an event that the bus still holds.                    *)
THEOREM ClientsAreToldTheTruth == Spec => ClientsAreNotMisled
<1>1. IInv /\ [Next]_vars => [\A s \in Session : ControlStatus(s) \in Ended => ControlStatus(s)' = ControlStatus(s)]_vars
    BY FinalStays
<1>2. IInv /\ [Next]_vars =>
        [\A r \in Reader : cursor'[r] # cursor[r] /\ restarts' = restarts =>
            /\ cursor'[r] > cursor[r]
            /\ \A e \in events[stream[r].of] : ~(cursor[r] < e.id /\ e.id < cursor'[r])]_vars
    BY NoGap
<1> QED BY <1>1, <1>2, InvariantHolds, AskHolds, AnswersAre, PTL
        DEF Spec, ClientsAreNotMisled, FinalStatusStays, NoGapInAStream
=============================================================================
