--------------------------- MODULE IntentResolution ---------------------------
(***************************************************************************)
(* What an operator's message makes of an intent: IntentService.resolve    *)
(* merges the candidate a model extracted with the revision before it,     *)
(* validate_sources checks what the candidate claims, and resolve_candidate*)
(* decides whether the request is resolved, asked about or not supported.  *)
(*                                                                         *)
(* A state is the latest revision of one intent.  Objective, reason and    *)
(* confidence are left out: they decide nothing here.  A user's quote is   *)
(* in his message; a claim that is not is refused and changes nothing.     *)
(***************************************************************************)
EXTENDS Naturals, Sequences, FiniteSets

CONSTANTS IntentType,   \* the types of the candidates
          Limit,        \* the constraints they carry: [kind, value]
          MaxLimits,    \* bound: constraints of a candidate
          Service,      \* services a message may name
          Verified,     \* the bound service
          TaskId,       \* tasks a message may name
          Message,      \* messages: [tasks, words, stated, answers, evidence]
          Gap,          \* what a model finds missing: [required, ambiguous]
          KeepsQuestions,  \* whether the questions are kept track of
          None

Prohibition == {"read_only", "forbid_restart"}
Names == {"service", "task_target"}

(* Words name finitely many tasks, and None is no task and no question.    *)
ConstantsOK ==
    /\ None \notin TaskId \cup [rounds : Nat, overdue : BOOLEAN, state : {"open", "waiting_user", "superseded"}]
    /\ \A m \in Message : /\ m.words \subseteq TaskId /\ IsFiniteSet(m.words) /\ IsFiniteSet(m.tasks)
                          /\ m.stated \subseteq Prohibition
    /\ KeepsQuestions \in BOOLEAN

Actionable == {"diagnose", "execute", "task_control"}

VARIABLES
    latest,     \* the latest revision of the intent
    stated,     \* history: prohibitions in the words of its messages
    asked,      \* history: fields it was said to require
    named,      \* history: tasks in the words of the message of a control
    question,   \* questions: the last one of the intent
    requests    \* history: intent.clarification_requested events

vars == <<latest, stated, asked, named, question, requests>>

Kinds(limits) == {limits[k].kind : k \in DOMAIN limits}
(* What a list has at some places, in its order.                           *)
At(list, places) ==
    [n \in 1..Cardinality(places) |-> list[CHOOSE k \in places : Cardinality({j \in places : j <= k}) = n]]

Present(c) == {"objective"} \cup {n \in Names : c.entities[n] # None}
-----------------------------------------------------------------------------
(* Contexts and sources                                                    *)

(* prepare: known_fields of a message's context, given the revision its    *)
(* request names and the listed tasks.                                     *)
Known(old, tasks) ==
    LET only == IF Cardinality(tasks) = 1 THEN CHOOSE t \in tasks : TRUE ELSE None
    IN  [target |-> only,
         entities |-> [n \in Names |->
             CASE old # None /\ old.entities[n] # None -> old.entities[n]
               [] n = "task_target" -> only
               [] OTHER -> Verified],
         limits |-> IF old = None THEN <<>> ELSE old.limits]

(* Mutant of ExplicitTask: the task a message names is not compared.       *)
ExplicitUnread(c, m) == TRUE

(* A control of a task that the message names must target it.              *)
ExplicitTask(c, m) ==
    LET targets == {c.target, c.entities["task_target"]} \ {None}
    IN  c.type = "task_control" /\ m.words # {} =>
            /\ targets # {} /\ targets \subseteq m.words
            /\ Cardinality(m.words) = 1 \/ c.ambiguous

(* Mutant of RetainsLimits: prohibitions of any message may be dropped.    *)
LimitsUnread(c, m) == TRUE

(* Prohibitions in the words of an actionable message must be extracted.   *)
RetainsLimits(c, m) == c.type \in Actionable => m.stated \subseteq Kinds(c.limits)

(* Every field has one source, and one from the context is what is known.  *)
Sourced(c, known) ==
    /\ c.type # "task_control" => c.targetFrom = "none"
    /\ c.target # None => c.targetFrom # "none"
    /\ c.targetFrom = "context" => c.target = known.target /\ c.target # None
    /\ \A n \in Names : c.entities[n] # None /\ c.from[n] = "context" => c.entities[n] = known.entities[n]
    /\ \A k \in DOMAIN c.limits :
          c.limits[k].from = "context" =>
              /\ k \in DOMAIN known.limits
              /\ known.limits[k] = [kind |-> c.limits[k].kind, value |-> c.limits[k].value]

(* validate_sources                                                        *)
Validated(c, known, m) == RetainsLimits(c, m) /\ ExplicitTask(c, m) /\ Sourced(c, known)
-----------------------------------------------------------------------------
(* Merging                                                                 *)

(* Mutant of CarriedLimits: any new constraint replaces all the old ones.  *)
CarriedUnlessAny(old, c) == IF c.limits = <<>> THEN old.limits ELSE <<>>

(* Constraints of kinds the candidate has none of are carried over.        *)
CarriedLimits(old, c) == At(old.limits, {k \in DOMAIN old.limits : old.limits[k].kind \notin Kinds(c.limits)})

(* _merge: a continuation keeps type and control, and a correction too     *)
(* carries over entities and constraints it does not replace.              *)
Merge(old, c) ==
    LET continues == c.relation = "continuation"
        carried == CarriedLimits(old, c)
    IN  [c EXCEPT
            !.type = IF continues THEN old.type ELSE @,
            !.target = IF continues THEN old.target ELSE @,
            !.targetFrom = IF continues /\ old.target # None THEN "context" ELSE @,
            !.entities = [n \in Names |-> IF @[n] = None THEN old.entities[n] ELSE @[n]],
            !.from = [n \in Names |-> IF c.entities[n] = None THEN "context" ELSE @[n]],
            !.limits = [k \in DOMAIN carried |->
                           [kind |-> carried[k].kind, value |-> carried[k].value, from |-> "context"]] \o @]

(* _merge: known_fields with what was inherited.                           *)
Inherit(known, old, c) ==
    LET carried == CarriedLimits(old, c)
    IN  [known EXCEPT
            !.target = IF c.relation = "continuation" /\ old.target # None THEN old.target ELSE @,
            !.entities = [n \in Names |-> IF c.entities[n] = None /\ old.entities[n] # None
                                          THEN old.entities[n] ELSE @[n]],
            !.limits = [k \in DOMAIN @ |-> IF k \in DOMAIN carried THEN carried[k] ELSE @[k]]]

IsAlias(l) == l.kind = "other" /\ l.value = "alias"

(* _normalize_constraints: "do not change the configuration" says no more  *)
(* than read_only; it goes unless what comes from the context would move.  *)
Normalized(limits) ==
    LET moves == \E k \in DOMAIN limits : /\ limits[k].from = "context" /\ ~IsAlias(limits[k])
                                          /\ \E j \in 1..(k - 1) : IsAlias(limits[j])
    IN  IF "read_only" \in Kinds(limits) /\ ~moves
        THEN At(limits, {k \in DOMAIN limits : ~IsAlias(limits[k])}) ELSE limits
-----------------------------------------------------------------------------
(* Resolution                                                              *)

Matching(c, tasks) ==
    LET target == IF c.target # None THEN c.target ELSE c.entities["task_target"]
    IN  {t \in tasks : target \in {None, t}}

(* Mutant of Unbound: a service that was carried over is still bound.      *)
ServiceBelieved(c, tasks) ==
    c.type # "task_control" /\ c.entities["task_target"] # None /\ c.entities["task_target"] \notin tasks

(* Entities that are not bound to what may be accessed.                    *)
Unbound(c, tasks) ==
    \/ c.entities["service"] \notin {None, Verified}
    \/ c.type # "task_control" /\ c.entities["task_target"] # None /\ c.entities["task_target"] \notin tasks

Unclear(c, m) ==
    /\ c.type = "task_control"
    /\ \/ Cardinality(Matching(c, m.tasks)) # 1
       \/ None \notin {c.target, c.entities["task_target"]} /\ c.target # c.entities["task_target"]

Route(c, m) ==
    CASE c.type = "unknown" -> "unsupported"
      [] c.type = "task_control" -> "task_control"
      [] c.type = "question" /\ ~m.evidence -> "direct_answer"
      [] OTHER -> "plan"

(* Mutant of Required: what was required is not asked for again.           *)
RequiredForgotten(c, before) == c.required

(* The fields that are still required.                                     *)
Required(c, before) == c.required \cup (before \ Present(c))

(* _resolve_verified: any gap and any ambiguity is asked about.            *)
Resolved(c, m, before, unanswerable) ==
    LET required == Required(c, before)
        limits == Normalized(c.limits)
        open == \/ required # {} \/ c.ambiguous \/ unanswerable
                \/ Unbound(c, m.tasks) \/ Unclear(c, m) \/ "other" \in Kinds(limits)
        route == IF open THEN "clarify" ELSE Route(c, m)
    IN  [type |-> c.type, entities |-> c.entities, target |-> c.target, required |-> required,
         limits |-> [k \in DOMAIN limits |-> [kind |-> limits[k].kind, value |-> limits[k].value]],
         route |-> route,
         task |-> IF route = "task_control" THEN CHOOSE t \in Matching(c, m.tasks) : TRUE ELSE None]

-----------------------------------------------------------------------------
(* Questions                                                               *)

MAX_ROUNDS == 3

(* question: one that waits when its time is over has expired.             *)
Lapsed == question.state \in {"open", "waiting_user"} /\ question.overdue

(* A message answers no question, the last one, or one it may not.         *)
Stale(m) ==
    \/ question # None /\ Lapsed
    \/ m.answers = "other"
    \/ m.answers = "last" /\ (question = None \/ Lapsed \/ question.state = "superseded")

(* Mutant of Asked: a request that was resolved begins to count anew.      *)
AskedAnew(route) ==
    LET rounds == IF question = None \/ question.state = "superseded" THEN 0 ELSE question.rounds
        paused == rounds = MAX_ROUNDS
    IN  IF route = "clarify"
        THEN [rounds |-> IF paused THEN rounds ELSE rounds + 1, overdue |-> paused /\ question.overdue,
              state |-> IF paused THEN "waiting_user" ELSE "open"]
        ELSE IF question = None THEN None ELSE [question EXCEPT !.state = "superseded"]

(* commit: a new question replaces the last one; after three rounds it     *)
(* waits for the user, and no longer than the one before it.               *)
Asked(route) ==
    LET rounds == IF question = None THEN 0 ELSE question.rounds
        paused == rounds = MAX_ROUNDS
    IN  IF route = "clarify"
        THEN [rounds |-> IF paused THEN rounds ELSE rounds + 1, overdue |-> paused /\ question.overdue,
              state |-> IF paused THEN "waiting_user" ELSE "open"]
        ELSE IF question = None THEN None ELSE [question EXCEPT !.state = "superseded"]

(* The day that a question is open for is over.                            *)
Elapse ==
    /\ question # None /\ ~question.overdue
    /\ question' = [question EXCEPT !.overdue = TRUE]
    /\ UNCHANGED <<latest, stated, asked, named, requests>>

(* commit: the revision, its question and the event that asks it.          *)
Keep(v, c, m) ==
    /\ latest' = v
    /\ named' = IF v.route = "task_control" THEN m.words ELSE {}
    /\ IF KeepsQuestions
       THEN /\ question' = Asked(v.route)
            /\ requests' = IF v.route = "clarify" /\ question'.state = "open" THEN requests + 1 ELSE requests
       ELSE UNCHANGED <<question, requests>>

Stated(c, m) == IF c.type \in Actionable THEN m.stated ELSE {}

(* resolve without an intent: a new one, in place of the one that is kept. *)
Begin(c, m) ==
    /\ latest = None
    /\ Validated(c, Known(None, m.tasks), m)
    /\ \E v \in {Resolved(c, m, {}, c.relation # "new_request" \/ m.answers # "none")} :
          Keep(v, c, m) /\ asked' = v.required
    /\ stated' = Stated(c, m)

(* Mutant of Checked: what is merged is not validated again.               *)
CheckedOnce(c, merged, known, inherited, m) == Validated(c, known, m)

(* The candidate is validated as it came and again as it was merged.       *)
Checked(c, merged, known, inherited, m) == Validated(c, known, m) /\ Validated(merged, inherited, m)

(* resolve of a message that names its intent.                             *)
Follow(c, m) ==
    /\ latest # None /\ c.relation # "new_request"
    /\ \E merged \in {Merge(latest, c)}, known \in {Known(latest, m.tasks)} :
          /\ Checked(c, merged, known, Inherit(known, latest, c), m)
          /\ \E v \in {Resolved(merged, m, latest.required, Stale(m))} :
                Keep(v, merged, m) /\ asked' = asked \cup v.required
          /\ stated' = stated \cup Stated(merged, m)

(* What a model may extract, and the messages it is extracted from.        *)
Sources == {"user", "context"}
LimitLists ==
    {s \in UNION {[1..n -> {[kind |-> l.kind, value |-> l.value, from |-> f] : l \in Limit, f \in Sources}] : n \in 0..MaxLimits} :
        \A j, k \in DOMAIN s : j # k /\ s[j].kind = s[k].kind => s[j].kind = "other"}
Targets == {<<None, "none">>} \cup (TaskId \X Sources)
Extracted(type, relation, service, of, target, limits, gap) ==
    [type |-> type, relation |-> relation, required |-> gap.required, ambiguous |-> gap.ambiguous, limits |-> limits,
     entities |-> [n \in Names |-> IF n = "service" THEN service[1] ELSE of[1]],
     from |-> [n \in Names |-> IF n = "service" THEN service[2] ELSE of[2]],
     target |-> target[1], targetFrom |-> target[2]]

Init ==
    /\ latest = None /\ stated = {} /\ asked = {} /\ named = {}
    /\ question = None /\ requests = 0

Submit ==
    \E type \in IntentType, relation \in {"new_request", "continuation", "correction"} :
    \E service \in {<<None, "none">>} \cup (Service \X Sources), of \in Targets :
    \E target \in IF type = "task_control" THEN Targets ELSE {<<None, "none">>} :
    \E limits \in LimitLists, gap \in Gap, m \in Message :
    \E c \in {Extracted(type, relation, service, of, target, limits, gap)} :
        Begin(c, m) \/ Follow(c, m)

Next == Submit \/ Elapse
-----------------------------------------------------------------------------
(* Properties                                                              *)

(* A prohibition in the words of a message that was accepted stays with    *)
(* its request through any chain of continuations and corrections.         *)
ProhibitionsStay == latest # None => stated \subseteq Kinds(latest.limits)

(* A request is dispatched only when every field that was ever required is *)
(* there, its service is the bound one and every constraint can be checked.*)
DispatchedIsComplete ==
    latest # None /\ latest.route \notin {"clarify", "unsupported"} =>
        /\ asked \subseteq Present(latest)
        /\ latest.entities["service"] \in {None, Verified}
        /\ "other" \notin Kinds(latest.limits)

(* A control acts on the task its message names, whatever it inherits.     *)
ControlsTheNamedTask ==
    latest # None /\ latest.route = "task_control" => named \subseteq {latest.task}

(* An operator is asked three times at most about one intent, and what is  *)
(* dispatched leaves no question open.                                     *)
QuestionsEnd ==
    /\ requests <= MAX_ROUNDS
    /\ question # None /\ latest.route # "clarify" => question.state = "superseded"
    /\ latest # None /\ latest.route = "clarify" /\ KeepsQuestions => question.state # "superseded"
=============================================================================
