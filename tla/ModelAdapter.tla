----------------------------- MODULE ModelAdapter -----------------------------
(***************************************************************************)
(* One call of the model over HTTP: what is posted, what of the provider's *)
(* reply is accepted, when the reply is sent back once to be repaired, and *)
(* which error the rest becomes.                                           *)
(*                                                                         *)
(* A name is a sequence of characters, of which only the dot is none that  *)
(* a provider takes.  An answer is [final, tasks], each a sequence of at   *)
(* most one value: whether the field is there, and what it holds; one that *)
(* has neither has others.                                                 *)
(***************************************************************************)
EXTENDS Integers, Sequences, FiniteSets, Folds, SequencesExt

CONSTANTS MAX_TASKS, MAX_TOOL_CALLS

-----------------------------------------------------------------------------
(* What is posted.                                                         *)
Prefix == <<"antisentinel", "_">>

(* Mutant: a name that is changed is not marked.                           *)
ProviderToolNameUnmarked(name) == [k \in DOMAIN name |-> IF name[k] = "." THEN "_" ELSE name[k]]

ProviderToolName(name) ==
    IF ~Contains(name, ".") THEN name
    ELSE Prefix \o [k \in DOMAIN name |-> IF name[k] = "." THEN "_" ELSE name[k]]

(* Of two tools with one provider name the later is meant.                 *)
MeantBy(tools, provided) ==
    LET named == {k \in DOMAIN tools : ProviderToolName(tools[k]) = provided}
    IN IF named = {} THEN provided ELSE tools[CHOOSE k \in named : \A j \in named : j <= k]

(* messages: [role, text, duplicate]                                       *)
PostedRole(message) ==
    IF message.text \/ message.role \in {"system", "assistant", "user"} THEN message.role ELSE "user"
HasToolResults(messages) == \E k \in DOMAIN messages : messages[k].role = "tool"
DuplicateFeedback(messages) == \E k \in DOMAIN messages : messages[k].role = "tool" /\ messages[k].duplicate
Reminder(messages, tools) ==
    CASE DuplicateFeedback(messages) -> <<"reuse">>
      [] ~DuplicateFeedback(messages) /\ HasToolResults(messages) /\ tools # <<>> -> <<"review">>
      [] OTHER -> <<>>

-----------------------------------------------------------------------------
(* parse_model_response()                                                  *)
Refused == [accepted |-> FALSE]
Accepted(branch, calls) == [accepted |-> TRUE, branch |-> branch, calls |-> calls]

(* final: [fields, confidence, refs]; a confidence of a percent is 0..100, *)
(* and a reference is a string, an object or neither.                      *)
ParseFinal(final) ==
    IF final.fields /\ final.confidence \in 0..100 /\ \A k \in DOMAIN final.refs : final.refs[k] \in {"string", "object"}
    THEN Accepted("final", <<>>) ELSE Refused

(* tasks: a sequence of [id, fields, calls], a call [name, arguments, ok]. *)
CallHolds(call) == call.arguments = "object" /\ call.ok

ParseTask(parsed, task) ==
    IF \/ ~parsed.accepted \/ ~task.fields \/ task.id \in parsed.seen
       \/ Len(task.calls) > MAX_TOOL_CALLS
       \/ \E k \in DOMAIN task.calls : ~CallHolds(task.calls[k])
    THEN [parsed EXCEPT !.accepted = FALSE]
    ELSE [parsed EXCEPT !.seen = @ \cup {task.id}, !.calls = Append(@, [k \in DOMAIN task.calls |-> task.calls[k].name])]

ParseTasks(tasks) ==
    LET parsed == FoldLeft(ParseTask, [accepted |-> TRUE, seen |-> {}, calls |-> <<>>], tasks)
    IN IF tasks = <<>> \/ Len(tasks) > MAX_TASKS \/ ~parsed.accepted THEN Refused ELSE Accepted("tasks", parsed.calls)

(* Mutant: an answer with both branches is taken for a final one.          *)
ParseEither(answer) ==
    CASE answer.final # <<>> -> ParseFinal(answer.final[1])
      [] answer.final = <<>> /\ answer.tasks # <<>> -> ParseTasks(answer.tasks[1])
      [] OTHER -> Refused

ParseModelResponse(answer) ==
    CASE (answer.final = <<>>) = (answer.tasks = <<>>) -> Refused
      [] answer.final # <<>> /\ answer.tasks = <<>> -> ParseFinal(answer.final[1])
      [] answer.final = <<>> /\ answer.tasks # <<>> -> ParseTasks(answer.tasks[1])

-----------------------------------------------------------------------------
(* The provider's reply: [http, body, native, content, answer, usage].     *)
(* body says whether there is a message in it, and one that is an object;  *)
(* content is none, text, JSON text or an object, or a "number".           *)
Done(parsed, usage, posts) == [outcome |-> parsed.branch, calls |-> parsed.calls, usage |-> usage, posts |-> posts]
Error(code, posts) == [outcome |-> "error", code |-> code, calls |-> <<>>, usage |-> 0, posts |-> posts]

(* Native calls become one task; what parse_model_response refuses of it   *)
(* leaves complete() as it was raised, as does a content beside them that  *)
(* has no length.                                                          *)
NativeCall(tools, call) == [call EXCEPT !.name = MeantBy(tools, call.name)]
ParseNative(tools, reply) ==
    LET task == [id |-> "provider-tool-task", fields |-> TRUE,
                 calls |-> [k \in DOMAIN reply.native |-> NativeCall(tools, reply.native[k])]]
        parsed == ParseTasks(<<task>>)
    IN CASE reply.usage < 0 \/ reply.content = "number" -> Error("raised", 1)
         [] reply.usage >= 0 /\ reply.content # "number" /\ (\E k \in DOMAIN reply.native : reply.native[k].arguments = "broken") ->
                Error("invalid_provider_tool_call", 1)
         [] OTHER -> IF parsed.accepted THEN Done(parsed, reply.usage, 1) ELSE Error("raised", 1)

(* The answer is sent once more, to be put into the schema; nothing that   *)
(* fails on the way matters, a usage that could not be read included.      *)
Repair(reply, repair) ==
    LET parsed == ParseModelResponse(repair.answer)
    IN IF repair.http = "ok" /\ repair.body = "object" /\ repair.content = "json" /\ repair.usage >= 0
          /\ reply.usage >= 0 /\ parsed.accepted
       THEN Done(parsed, reply.usage + repair.usage, 2)
       ELSE Error("invalid_model_output", 2)

ParseContent(messages, reply, repair) ==
    LET parsed == ParseModelResponse(reply.answer)
    IN CASE reply.content = "none" -> Error("invalid_provider_response", 1)
         [] reply.content = "text" -> Error("invalid_provider_json", 1)
         [] reply.content \in {"json", "number"} ->
              IF reply.content = "json" /\ reply.usage >= 0 /\ parsed.accepted THEN Done(parsed, reply.usage, 1)
              ELSE IF HasToolResults(messages) THEN Repair(reply, repair)
              ELSE Error("invalid_model_output", 1)

(* A message that is no object has no get(), which nothing catches.        *)
Complete(messages, tools, reply, repair) ==
    CASE reply.http = "timeout" -> Error("model_timeout", 1)
      [] reply.http = "unreachable" -> Error("model request failed", 1)
      [] reply.http = "error" -> Error("provider_http", 1)
      [] reply.http = "ok" /\ reply.body = "none" -> Error("invalid_provider_response", 1)
      [] reply.http = "ok" /\ reply.body = "odd" -> Error("raised", 1)
      [] reply.http = "ok" /\ reply.body = "object" ->
            IF reply.native # <<>> THEN ParseNative(tools, reply) ELSE ParseContent(messages, reply, repair)

(* complete_json() of the intents: one object, or nothing; the deadline    *)
(* covers the whole of it.                                                 *)
CompleteJson(reply, timeLeft, truncated) ==
    CASE ~timeLeft \/ reply.http = "timeout" -> "timeout"
      [] timeLeft /\ reply.http = "unreachable" -> "transport"
      [] timeLeft /\ reply.http = "error" -> "http"
      [] timeLeft /\ reply.http = "ok" /\ reply.body = "odd" -> "raised"
      [] timeLeft /\ reply.http = "ok" /\ reply.body # "odd" ->
            IF reply.body = "object" /\ reply.native = <<>> /\ ~truncated /\ reply.content = "json" THEN "object" ELSE "invalid"

-----------------------------------------------------------------------------
(* The answers the schema allows.                                          *)
WellFormed(answer) ==
    \/ answer.tasks = <<>> /\ answer.final # <<>> /\
       LET f == answer.final[1] IN f.fields /\ f.confidence >= 0 /\ f.confidence <= 100 /\ ~Contains(f.refs, "neither")
    \/ answer.final = <<>> /\ answer.tasks # <<>> /\
       LET tasks == answer.tasks[1]
       IN /\ Len(tasks) \in 1..MAX_TASKS
          /\ Cardinality({tasks[k].id : k \in DOMAIN tasks}) = Len(tasks)
          /\ \A k \in DOMAIN tasks :
                /\ tasks[k].fields /\ Len(tasks[k].calls) <= MAX_TOOL_CALLS
                /\ \A c \in DOMAIN tasks[k].calls : tasks[k].calls[c].ok /\ tasks[k].calls[c].arguments = "object"

(* A reply that keeps to the schema is accepted at the first post, and     *)
(* nothing else is unless it was repaired; a repair is asked for once, for *)
(* an answer to tool results, and its tokens are counted with the others;  *)
(* a native call comes back as the tool that was offered.  Only a message  *)
(* that is no object, or one with native calls, leaves the adapter as      *)
(* another error than its own.                                             *)
ReplyIsSound(messages, tools, reply, repair) == \A result \in {Complete(messages, tools, reply, repair)} :
    LET readable == reply.http = "ok" /\ reply.body = "object" /\ reply.usage >= 0
        good(r) == r.native = <<>> /\ r.content = "json" /\ WellFormed(r.answer)
    IN /\ readable /\ good(reply) => result.outcome # "error" /\ result.posts = 1 /\ result.usage = reply.usage
       /\ result.outcome # "error" /\ result.posts = 1 => readable /\ (good(reply) \/ reply.native # <<>>)
       /\ result.posts = 2 => HasToolResults(messages) /\ reply.native = <<>> /\ reply.content \in {"json", "number"}
       /\ result.outcome # "error" /\ result.posts = 2 =>
             readable /\ ~good(reply) /\ WellFormed(repair.answer) /\ result.usage = reply.usage + repair.usage
       /\ result.outcome = "error" /\ result.code = "raised" =>
             reply.http = "ok" /\ (reply.body = "odd" \/ (reply.body = "object" /\ reply.native # <<>>))
       /\ result.outcome = "tasks" => Len(result.calls) \in 1..MAX_TASKS
       /\ \A k \in DOMAIN messages : messages[k].text \/ PostedRole(messages[k]) # "tool"
       /\ Len(Reminder(messages, tools)) <= 1

(* A JSON answer of the intents is a whole one that came in time.          *)
JsonIsWhole(reply, timeLeft, truncated) ==
    CompleteJson(reply, timeLeft, truncated) = "object" =>
        timeLeft /\ reply.http = "ok" /\ reply.body = "object" /\ ~truncated /\ reply.content = "json" /\ reply.native = <<>>

(* Tools whose names are not the same but for their dots, and that are not *)
(* named like a marked one, are told apart.                                *)
Similar(a, b) == Len(a) = Len(b) /\ \A k \in DOMAIN a : a[k] = b[k] \/ (a[k] \in {".", "_"} /\ b[k] \in {".", "_"} /\ Contains(a, ".") /\ Contains(b, "."))
ToolsAreToldApart(tools) ==
    (\A j, k \in DOMAIN tools : (j # k => ~Similar(tools[j], tools[k])) /\ (Len(tools[k]) < 2 \/ SubSeq(tools[k], 1, 2) # Prefix))
        => \A k \in DOMAIN tools : MeantBy(tools, ProviderToolName(tools[k])) = tools[k]
=============================================================================
