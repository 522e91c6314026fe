--------------------------- MODULE DomainLifecycles ---------------------------
(***************************************************************************)
(* The entities of a diagnosis and the operations that move them.  Every   *)
(* move is first made and then recorded as an event, whose payload must be *)
(* JSON; some operations check what they are given before they move, some  *)
(* leave that to the event.  An entity is saved with its events, and read  *)
(* again as it was saved last.                                             *)
(***************************************************************************)
EXTENDS Sequences, FiniteSets, Naturals, SequencesExt

CONSTANTS Part,       \* the identifiers an entity collects
          MaxEvents   \* bound: events of one entity

VARIABLES entity,  \* [kind, status, events, parts, started, ended]
          raised,  \* its last move raised, and left its event out
          stored   \* what to_dict() last made of it, and whether it had raised

entityVars == <<entity, raised, stored>>

(* An operation; one that takes an error checks it itself or does not.     *)
Op(name, from, to) == [name |-> name, from |-> from, to |-> to, error |-> FALSE, checked |-> FALSE]
Failing(name, from, to, checked) == [name |-> name, from |-> from, to |-> to, error |-> TRUE, checked |-> checked]

(* Each class: the status it is created with, its operations, and whether  *)
(* it keeps when it started and ended.                                     *)
Incident == [first |-> "open", timed |-> FALSE,
             ops |-> {Op("resolve", {"open"}, "resolved"), Op("close", {"resolved"}, "closed")}]
Session == [first |-> "active", timed |-> FALSE,
            ops |-> {Op("wait", {"active"}, "waiting"), Op("complete", {"active", "waiting"}, "completed"),
                     Failing("fail", {"active", "waiting"}, "failed", FALSE), Op("cancel", {"active", "waiting"}, "cancelled")}]
Turn == [first |-> "pending", timed |-> TRUE,
         ops |-> {Op("start", {"pending"}, "running"), Op("wait_for_tool", {"running"}, "waiting_tool"),
                  Op("complete", {"running", "waiting_tool"}, "completed"), Failing("fail", {"running", "waiting_tool"}, "failed", FALSE)}]
Task == [first |-> "pending", timed |-> FALSE,
         ops |-> {Op("start", {"pending"}, "running"), Op("wait_for_tool", {"running"}, "waiting_tool"),
                  Op("wait_for_approval", {"running"}, "waiting_approval"), Op("resume", {"waiting_tool", "waiting_approval"}, "running"),
                  Op("succeed", {"running"}, "succeeded"),
                  Failing("fail", {"running", "waiting_tool", "waiting_approval"}, "failed", FALSE),
                  Op("cancel", {"pending", "running", "waiting_tool", "waiting_approval"}, "cancelled")}]
ToolCall == [first |-> "requested", timed |-> FALSE,
             ops |-> {Op("start", {"requested"}, "running"), Op("succeed", {"running"}, "succeeded"),
                      Failing("fail", {"running"}, "failed", FALSE), Op("deny", {"requested", "running"}, "denied"),
                      Op("time_out", {"running"}, "timed_out")}]
Attempt == [first |-> "created", timed |-> TRUE,
            ops |-> {Op("start", {"created"}, "running"), Op("succeed", {"running"}, "succeeded"),
                     Failing("fail", {"running"}, "failed", TRUE), Failing("time_out", {"running"}, "timed_out", TRUE)}]

Class == [incident |-> Incident, session |-> Session, turn |-> Turn, task |-> Task, tool_call |-> ToolCall, attempt |-> Attempt]
Ops(kind) == Class[kind].ops
Final(kind) == {op.to : op \in Ops(kind)} \ UNION {op.from : op \in Ops(kind)}

(* create(): the first event is recorded with the entity.                  *)
Created(kind) ==
    [kind |-> kind, status |-> Class[kind].first, events |-> <<Class[kind].first>>, parts |-> <<>>, started |-> FALSE, ended |-> FALSE]

EntityInit ==
    /\ entity \in {Created(kind) : kind \in DOMAIN Class}
    /\ raised = FALSE /\ stored = [entity |-> entity, raised |-> FALSE]

-----------------------------------------------------------------------------
Timed(e, to) ==
    IF Class[e.kind].timed
    THEN [e EXCEPT !.started = @ \/ to = "running", !.ended = @ \/ to \in Final(e.kind)] ELSE e

(* Mutant: any status may be left.                                         *)
AllowedAlways(op) == TRUE

Allowed(op) == entity.status \in op.from

Move(op) ==
    /\ Allowed(op)
    /\ entity' = [Timed(entity, op.to) EXCEPT !.status = op.to, !.events = Append(@, op.to)]
    /\ raised' = FALSE /\ UNCHANGED stored

(* An error that is no JSON object: it is refused before the move, or the  *)
(* move is made and its event is not.                                      *)
MoveUnrecorded(op) ==
    /\ Allowed(op) /\ op.error /\ ~op.checked
    /\ entity' = [Timed(entity, op.to) EXCEPT !.status = op.to]
    /\ raised' = TRUE /\ UNCHANGED stored

(* add_session, add_turn, add_task, add_tool_call, add_attempt, and        *)
(* add_evidence                                                            *)
AddPart(p) ==
    /\ entity' = IF Contains(entity.parts, p) THEN entity ELSE [entity EXCEPT !.parts = Append(@, p)]
    /\ UNCHANGED <<raised, stored>>

(* to_dict() has every field, and from_dict() takes every one back.        *)
Store == stored' = [entity |-> entity, raised |-> raised] /\ UNCHANGED <<entity, raised>>
Restore == entity' = stored.entity /\ raised' = stored.raised /\ UNCHANGED stored

EntityNext ==
    \/ \E op \in Ops(entity.kind) : Len(entity.events) < MaxEvents /\ (Move(op) \/ MoveUnrecorded(op))
    \/ \E p \in Part : AddPart(p)
    \/ Store \/ Restore

-----------------------------------------------------------------------------
(* The events of an entity are a walk through its lifecycle that ends at   *)
(* its status, unless the last move was not recorded; nothing is collected *)
(* twice; and what ended is at an end.  It is so again for what was saved  *)
(* at any time.                                                            *)
EventsTellTheStatus ==
    /\ \A k \in 1..(Len(entity.events) - 1) :
          \E op \in Ops(entity.kind) : entity.events[k] \in op.from /\ entity.events[k + 1] = op.to
    /\ raised \/ entity.status = Last(entity.events)
    /\ raised => entity.status \in Final(entity.kind) \ {Last(entity.events)}
    /\ IsInjective(entity.parts)
    /\ Class[entity.kind].timed => (entity.ended <=> entity.status \in Final(entity.kind)) /\ (entity.ended => entity.started)
=============================================================================
