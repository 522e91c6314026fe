------------------------------ MODULE MCMemory ------------------------------
(***************************************************************************)
(* The parts of memory, one at a time: a run begins with the part it is    *)
(* about, and the others stay as they are.                                 *)
(***************************************************************************)
EXTENDS MemoryJobs, Integers, SequencesExt

CONSTANTS j1, j2
Kinds == [j \in {j1, j2} |-> IF j = j1 THEN <<"episodic">> ELSE <<"preference">>]
Bounds == [j \in {j1, j2} |-> IF j = j1 THEN 1 ELSE 0]

CONSTANTS Object, Confidence, MaxUpserts
VARIABLES part, durable, cached, copy, todo, caching, upserts, stale

Graph == INSTANCE PreferenceGraph
graph == <<durable, cached, copy, todo, caching, upserts, stale>>

ASSUME Graph!ConstantsOK

-----------------------------------------------------------------------------
Plain == [operator |-> "o", agent |-> "a", incident |-> "i", session |-> "none", schema |-> 2, status |-> "active",
          from |-> 0, to |-> -1, confidence |-> 75, refs |-> {[type |-> "session", id |-> "s", hash |-> "none"]}, cost |-> 2]
Of(kind, content) == {[type |-> kind, id |-> "e", hash |-> content]}
Rows == {[Plain EXCEPT !.operator = "other"], [Plain EXCEPT !.incident = "none", !.cost = 1],
         [Plain EXCEPT !.session = "earlier"], [Plain EXCEPT !.session = "s"],
         [Plain EXCEPT !.status = "superseded"], [Plain EXCEPT !.schema = 1, !.status = "completed"],
         [Plain EXCEPT !.from = 1, !.to = 2], [Plain EXCEPT !.refs = Of("evidence", "h1")],
         [Plain EXCEPT !.schema = 1, !.refs = Of("evidence", "none")], [Plain EXCEPT !.confidence = 10],
         [Plain EXCEPT !.confidence = 95], [Plain EXCEPT !.agent = "other"]}

VARIABLES rows, evidence, now, place, read, ranking, gated, selected, rewritten, arrived, ranked
TrustedRecall == INSTANCE MemoryRecall WITH
    Memory <- 1..2, Evidence <- {"e"}, Hashes <- {"h1", "h2"}, DigestCost <- 1, TokenBudget <- 5, LastMoment <- 2,
    Later <- {[Plain EXCEPT !.status = "superseded"], [Plain EXCEPT !.incident = "none", !.cost = 1]}, MaxLater <- 1,
    Candidate <- 1..3, Channel <- {"lexical", "identifier", "vector"}, K <- 60, Limit <- 2,
    Scope <- [operator |-> "o", agent |-> "a", incident |-> "i", session |-> "s"]

About(id, aggregate, tool, task, turn, at) ==
    [id |-> id, aggregate |-> aggregate, tool_call |-> tool, task |-> task, turn |-> turn, session |-> "s", at |-> at, cost |-> at]
Events == {About(1, "s", "none", "none", "t1", 1), About(2, "k1", "none", "none", "none", 2), About(3, "s", "c1", "k1", "t1", 2),
           About(4, "s", "c1", "k1", "t1", 3), About(5, "t2", "none", "none", "none", 3), About(6, "s", "c2", "none", "t2", 3),
           About(8, "s", "none", "k1", "t1", 2),
           [About(7, "s2", "none", "none", "t3", 3) EXCEPT !.session = "s2"]}

Moments(times) == [k \in DOMAIN times |-> [id |-> k, at |-> times[k]]]
Ended == [s1 |-> [events |-> Moments(<<2, 1, 3>>), evidence |-> {"e1", "e2"}, status |-> "completed", concluded |-> TRUE, hinted |-> TRUE],
          s2 |-> [events |-> Moments(<<1, 1>>), evidence |-> {"e2"}, status |-> "cancelled", concluded |-> FALSE, hinted |-> TRUE],
          s3 |-> [events |-> <<>>, evidence |-> {}, status |-> "failed", concluded |-> FALSE, hinted |-> FALSE]]

VARIABLES nodes, recorded
Timeline == INSTANCE SessionTimeline WITH Event <- Events, ThisSession <- "s", DigestBudget <- 6, Results <- Ended
ASSUME Timeline!EventsAreRouted /\ "none" \notin Timeline!Run

VARIABLES turns, call
Projection == INSTANCE VectorProjection WITH
    MAX_BLOCK_CHARS <- 5, MAX_BLOCKS_PER_SESSION <- 2, MAX_BATCH_CHARS <- 8, MAX_BATCH_ITEMS <- 2,
    MAX_TURN_CHARS <- 3, MaxInputChars <- 7,
    BatchSize <- 2, MaxRetries <- 2, Phase <- 3
ASSUME Projection!ConstantsOK

-----------------------------------------------------------------------------
recalled == <<rows, evidence, now, place, read, ranking, gated, selected, rewritten, arrived>>
restVars == <<part, graph, recalled, ranked, nodes, turns, call, recorded>>

TurnLengths == UNION {[1..n -> {0, 2, 4, 6}] : n \in 0..4}

MCInit ==
    /\ part \in {"jobs", "preferences", "recall", "fusion", "timeline", "recording", "projection", "embedding"}
    /\ Init /\ Graph!Init /\ TrustedRecall!Init /\ Timeline!Init /\ Timeline!RecordInit
    /\ IF part = "fusion" THEN TrustedRecall!FusionInit ELSE ranked = <<>>
    /\ IF part = "projection" THEN turns \in TurnLengths ELSE turns = <<>>
    /\ IF part = "embedding" THEN call \in Projection!Calls(4) ELSE call = <<>>

MCNext ==
    \/ part = "jobs" /\ Next /\ UNCHANGED restVars
    \/ part = "preferences" /\ Graph!Next /\ UNCHANGED <<part, jobVars, recalled, ranked, nodes, turns, call, recorded>>
    \/ part = "recall" /\ TrustedRecall!Next /\ UNCHANGED <<part, jobVars, graph, ranked, nodes, turns, call, recorded>>
    \/ part = "fusion" /\ TrustedRecall!FusionNext /\ UNCHANGED <<part, jobVars, graph, recalled, nodes, turns, call, recorded>>
    \/ part = "timeline" /\ Timeline!Next /\ UNCHANGED <<part, jobVars, graph, recalled, ranked, turns, call, recorded>>
    \/ part = "recording" /\ Timeline!Record /\ UNCHANGED <<part, jobVars, graph, recalled, ranked, nodes, turns, call>>
    \/ part = "embedding" /\ Projection!Post /\ UNCHANGED <<part, jobVars, graph, recalled, ranked, nodes, turns, recorded>>

MCSpec ==
    /\ MCInit /\ [][MCNext]_<<jobVars, restVars>>
    /\ \A w \in Worker : WF_jobVars(part = "jobs" /\ Work(w))
    /\ \A j \in Job : WF_jobVars(part = "jobs" /\ ComesDue(j)) /\ WF_jobVars(part = "jobs" /\ Lapses(j))

(* Every part of memory but the jobs: what each module promises.           *)
MemoriesAgree ==
    /\ Graph!PreferencesAgree
    /\ TrustedRecall!RecallIsTrusted
    /\ part = "fusion" => TrustedRecall!FusionIsFair
    /\ Timeline!TimelineHolds
    /\ part = "recording" => Timeline!RecordingHolds
    /\ part = "projection" => Projection!ProjectionHolds
    /\ part = "embedding" => Projection!EmbeddingHolds
=============================================================================
