-------------------------- MODULE MCIntentDelivery --------------------------
(***************************************************************************)
(* Two request threads, the operator's messages and the intents they make; *)
(* or what the messages of one intent make of it, with the constraints     *)
(* they state, with the tasks they control or with the questions they      *)
(* leave open.                                                             *)
(***************************************************************************)
EXTENDS IntentDelivery, TLC

VARIABLES part, latest, stated, asked, named, question, requests

resolutionVars == <<latest, stated, asked, named, question, requests>>

Says(kind, value) == [kind |-> kind, value |-> value]

Limits == INSTANCE IntentResolution WITH
    IntentType <- {"question", "execute"}, Service <- {}, Verified <- "s", TaskId <- {}, MaxLimits <- 2, KeepsQuestions <- FALSE,
    Limit <- {Says("read_only", "true"), Says("forbid_restart", "true"), Says("other", "alias")},
    Gap <- [required : {{}}, ambiguous : {FALSE}],
    Message <- [tasks : {{}}, words : {{}}, stated : SUBSET {"read_only", "forbid_restart"}, answers : {"none", "other"}, evidence : BOOLEAN]

Controls == INSTANCE IntentResolution WITH
    IntentType <- {"task_control", "execute"}, Service <- {"s", "r"}, Verified <- "s", TaskId <- {"t", "u"}, MaxLimits <- 0, KeepsQuestions <- FALSE,
    Limit <- {}, Gap <- [required : {{}, {"service"}}, ambiguous : BOOLEAN],
    Message <- [tasks : SUBSET {"t", "u"}, words : SUBSET {"t", "u"}, stated : {{}}, answers : {"none"}, evidence : {FALSE}]

Questions == INSTANCE IntentResolution WITH
    IntentType <- {"execute"}, Service <- {"s"}, Verified <- "s", TaskId <- {}, MaxLimits <- 0, KeepsQuestions <- TRUE,
    Limit <- {}, Gap <- [required : {{}, {"service"}}, ambiguous : BOOLEAN],
    Message <- [tasks : {{}}, words : {{}}, stated : {{}}, answers : {"none", "last", "other"}, evidence : {FALSE}]

ASSUME Limits!ConstantsOK /\ Controls!ConstantsOK /\ Questions!ConstantsOK

RequestsInit == Init /\ Limits!Init /\ part \in {"delivery", "limits", "controls", "questions"}

RequestsNext ==
    /\ UNCHANGED part
    /\ \/ part = "delivery" /\ Next /\ UNCHANGED resolutionVars
       \/ part = "limits" /\ Limits!Submit /\ UNCHANGED vars
       \/ part = "controls" /\ Controls!Submit /\ UNCHANGED vars
       \/ part = "questions" /\ Questions!Next /\ UNCHANGED vars

RequestsSpec == RequestsInit /\ [][RequestsNext]_<<vars, part, resolutionVars>>

RequestSymmetry == Permutations(Caller) \cup Permutations(Message) \cup Permutations(Intent)

(* Outbox, receipts and runs agree between any two steps of the callers,   *)
(* and what is dispatched is all that was said: a prohibition stays, a     *)
(* required field is there, the task that is controlled is the one named,  *)
(* and no question is left open or asked for ever.                         *)
RequestsAgree ==
    /\ DeliveriesAgree
    /\ part = "limits" => Limits!ProhibitionsStay /\ Limits!DispatchedIsComplete
    /\ part = "controls" => Controls!DispatchedIsComplete /\ Controls!ControlsTheNamedTask
    /\ part = "questions" => Questions!QuestionsEnd /\ Questions!DispatchedIsComplete
=============================================================================
