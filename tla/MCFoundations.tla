---------------------------- MODULE MCFoundations ----------------------------
(***************************************************************************)
(* What a diagnosis stands on: the code it searches, what one call of the  *)
(* model is sent and what it answers, the source it has read, the skills   *)
(* it has loaded, and the records that are kept of it.  A behaviour begins *)
(* with the part it is about, and the rest stays as it is; the functions   *)
(* are asked every input of a set in one state.                            *)
(***************************************************************************)
EXTENDS RetrievalCoordinator, Integers, Sequences


VARIABLES part,  \* what a behaviour is about
          pins, reads, done, recent, folded, sticky, saved, step, repeated, turns, resumes, shown, asked, outcome,
          active, disclosed, selected, revision, store, checkpoint, cache, disk, followup, ops,
          index, staging, written, released, builder, builds, crashed, overlapped, spoiled,
          entity, raised, stored,
          tables, versions, userVersion, process, starts,
          rows, messages, ledger, at, stage, report, saves, deaths,
          primary, file, copier, degraded, disturbed, calls

pinState == <<pins, reads, done, recent, folded, sticky, saved, step, repeated, turns, resumes, shown, asked, outcome>>
skillState == <<active, disclosed, selected, revision, store, checkpoint, cache, disk, followup, ops>>
publicationState == <<index, staging, written, released, builder, builds, crashed, overlapped, spoiled>>
entityState == <<entity, raised, stored>>
schemaState == <<tables, versions, userVersion, process, starts>>
importState == <<rows, messages, ledger, at, stage, report, saves, deaths>>
auditState == <<primary, file, copier, degraded, disturbed, calls>>

Archive == [s \in Scope |-> [r \in Revision |-> {"d1", "d2"}]]
Others == {<<"s1", "r2">>, <<"s1", "r1">>}
NoDocuments == [s \in Scope |-> [r \in Revision |-> {}]]
OldDocuments == {NoDocuments, [NoDocuments EXCEPT !["s1"]["r1"] = {"d0"}]}

TheSkills == [diagnose |-> [required |-> {"t1"}, refs |-> {"r1", "r2"}], report |-> [required |-> {"t2"}, refs |-> {"r3"}],
              repair |-> [required |-> {"t3"}, refs |-> {}]]
Sizes == [diagnose |-> 2, report |-> 1, repair |-> 1, r1 |-> 2, r2 |-> 1, r3 |-> 3]

Functions == INSTANCE CodeSearch WITH K <- 60, MAX_TOP_K <- 2, MaxChunks <- 1
Slicing == INSTANCE SourceChunks WITH MAX_CHUNK_BYTES <- 4, MAX_CHUNK_LINES <- 2

Pins == INSTANCE SourcePins WITH
    Source <- {"s1", "s2", "s3"}, Candidates <- {<<"s1">>, <<"s1", "s2">>, <<"s3", "s2">>}, Sticky <- FALSE, MaxPins <- 3,
    MaxSlices <- 2, MaxFragments <- 3, RecentLimit <- 2, MaxTurns <- 4, MaxResumes <- 1
Packing == INSTANCE ContextPack WITH MaxTokens <- 2200, ToolsCore <- 1, MaxSlices <- 2, MinTurns <- 1, DigestTokens <- 200
Adapter == INSTANCE ModelAdapter WITH MAX_TASKS <- 2, MAX_TOOL_CALLS <- 2
Catalog == INSTANCE SkillCatalog WITH
    MAX_SKILLS <- 2, MAX_REFERENCES <- 1, Builder <- {"b1", "b2"}, Content <- {"c1", "c2"}, MaxBuilds <- 3
ASSUME Catalog!ConstantsOK
Runtime == INSTANCE SkillRuntime WITH
    Skills <- TheSkills, Size <- Sizes, MaxBytes <- 4, Budget <- 2, TotalBudget <- 2, AllowedTools <- {"t1", "t2", "t4"},
    BaseTools <- {"t4", "t5"}, MaxOps <- 5, saved <- store
ASSUME Runtime!ConstantsOK

Item(kind, id, parent) == [kind |-> kind, id |-> id, parent |-> parent]
Files == <<Item("incident", "i", "none"), Item("session", "s", "i"), Item("session", "s2", "lost"), Item("result", "r", "s"),
             Item("message", "m", "s"), Item("message", "m2", "s2"), Item("event", "e", "none"), Item("memory", "mm", "none"),
             Item("span", "sp", "none")>>
Unreadable == <<Item("session", "s", "i"), Item("malformed", "x", "none"), Item("message", "m", "s")>>

Lifecycles == INSTANCE DomainLifecycles WITH Part <- {1, 2}, MaxEvents <- 6
Stores == INSTANCE SQLiteStores WITH
    Process <- {"application", "daemon"}, MaxStarts <- 3,
    Thread <- {"t1", "t2"}, Memory <- {"m1", "m2"}, MaxVersions <- 2, MaxCalls <- 4, thread <- copier
ASSUME Stores!ConstantsOK
Importing == INSTANCE LegacyImport WITH Items <- Files, MaxDeaths <- 2, step <- stage
Stopping == INSTANCE LegacyImport WITH Items <- Unreadable, MaxDeaths <- 1, step <- stage
ASSUME Importing!ConstantsOK /\ Stopping!ConstantsOK

-----------------------------------------------------------------------------
(* What a search is asked, and what it found.                              *)
Hit(doc, chunk, lo, hi, slice) == [doc |-> doc, chunk |-> chunk, file |-> "f", lo |-> lo, hi |-> hi, slice |-> slice]
Hits == {Hit(1, "c1", 0, 2, TRUE), Hit(2, "c1", 1, 3, TRUE), Hit(3, "c2", 2, 4, TRUE), [Hit(4, "c3", 0, 4, TRUE) EXCEPT !.file = "g"]}
WholeChunk == Hit(5, "c1", 0, 3, FALSE)
Lists(set, n) == UNION {[1..k -> set] : k \in 0..n}

FusionInputs == [keyword : Lists(Hits, 3), vector : Lists(Hits, 2), limit : 1..3]

SelectionInputs == [seeds : {<<>>, <<Hit(1, "c1", 0, 2, TRUE)>>, <<Hit(1, "c1", 0, 2, TRUE), Hit(3, "c2", 2, 4, TRUE)>>},
                    expanded : Lists(Hits \cup {WholeChunk}, 2),
                    parent : [1..2 -> [doc : {1, 3}, container : BOOLEAN]], limit : 1..2]

SearchInputs ==
    [mode : {"keyword", "vector", "hybrid", "graph", "hybrid_graph"}, topK : 1..2, candidateLimit : 2..3,
     w : [lexical : {"ready", "absent"}, vector : {"ready", "down", "absent"}, graph : {"ready", "down", "absent"},
          graphDegraded : BOOLEAN, graphTruncated : BOOLEAN,
          keywordHits : {<<>>, <<Hit(1, "c1", 0, 2, TRUE), Hit(3, "c2", 2, 4, TRUE)>>},
          vectorHits : {<<>>, <<Hit(2, "c1", 1, 3, TRUE)>>}, expanded : {<<>>, <<Hit(4, "c3", 5, 6, TRUE)>>}]]

ToolInputs ==
    [mode : {"keyword", "vector", "hybrid", "graph", "hybrid_graph", "exact"}, topK : 1..3, candidateLimit : 1..2,
     outcome : {"vector", "timeout", "unreachable", "http_error", "invalid"}, late : {"never", "before", "after"},
     w : [lexical : {"ready", "absent"}, vector : {"ready", "down"}, graph : {"ready", "absent"},
          graphDegraded : {FALSE}, graphTruncated : {FALSE}, expanded : {<<>>},
          keywordHits : {<<>>, <<Hit(1, "c1", 0, 2, TRUE), Hit(3, "c2", 2, 4, TRUE)>>}, vectorHits : {<<Hit(2, "c1", 1, 3, TRUE)>>}]]
SummaryInputs == [sizes : Lists(1..3, 4), head : 1..3, limit : 1..8]

Bound(session, repository, snapshot, generation) ==
    [session |-> session, repository |-> repository, snapshot |-> snapshot, generation |-> generation]
Rows == {Bound(session, place[1], place[2], place[3]) :
            session \in {"none", "a", "b"},
            place \in {<<"r1", "s1", 1>>, <<"r1", "s1", 2>>, <<"r1", "s2", 1>>, <<"r2", "s3", 1>>}}
BindingInputs ==
    [binds : Lists(Rows, 3), allowed : {{"r1"}, {"r1", "r2"}},
     asked : {<<>>, [repository |-> "r1"], [snapshot |-> "s1"]},
     shown : {<<"c1", "c2">>}, archive : {<<"c1", "c2">>, <<"c2", "c2">>, <<"c1", "gone">>}]

EvidenceInputs == [candidates : Lists(Hits \cup {WholeChunk}, 3), sizes : [1..3 -> 1..2],
                   maxFragments : 1..2, maxBytes : 1..3]

Edges == [from : 1..3, to : 0..3, holds : BOOLEAN]
SoundEdges == {e \in Edges : e.from # e.to /\ (e.to = 0 => ~e.holds)}
GraphInputs ==
    {[graph |-> [edges |-> edges, chunks |-> <<1, 0, 2>>, spoilt |-> <<0, 0, 0>>], seeds |-> seeds,
      depth |-> depth, direction |-> direction, nodes |-> nodes, budget |-> budget] :
        edges \in Lists(SoundEdges, 3), seeds \in {<<1>>, <<2, 1>>}, depth \in 1..2,
        direction \in {"outbound", "both"}, nodes \in 1..2, budget \in {2}}

SliceInputs == [widths : Lists({0, 1, 3, 4}, 4), max : 4..6]

(* Contexts to be packed.                                                  *)
Turn(plan, events, result) == [plan |-> plan, events |-> events, outcome |-> result]
Slices == {[raw |-> 0, window |-> 0, quotes |-> 0], [raw |-> 400, window |-> 400, quotes |-> 3],
           [raw |-> 900, window |-> 300, quotes |-> 1], [raw |-> 150, window |-> 150, quotes |-> 2]}

PackInputs ==
    [system : {80, 120},
     memory : {[offered |-> FALSE, head |-> 0, digest |-> 0], [offered |-> TRUE, head |-> 20, digest |-> 500]},
     source : Lists(Slices, 3),
     skill : {[kind |-> "none"], [kind |-> "catalog", items |-> <<[desc |-> 20], [desc |-> 300]>>],
              [kind |-> "loaded", items |-> <<[body |-> 300, refs |-> <<200>>], [body |-> 40, refs |-> <<100, 100>>]>>],
              [kind |-> "loaded", items |-> <<[body |-> 100, refs |-> <<700, 700>>]>>]},
     tools : {<<>>, <<[bare |-> 20, desc |-> 200], [bare |-> 30, desc |-> 300], [bare |-> 40, desc |-> 0]>>},
     working : [base : {100, 800}, digest : {0, 300}, marked : {FALSE},
                turns : {<<>>, <<Turn(100, <<60, 60>>, 100)>>,
                         <<Turn(100, <<60, 60>>, 100), Turn(100, <<>>, 50), Turn(80, <<60>>, 50)>>}]]

(* Replies of a provider.                                                  *)
Final(fields, confidence, refs) == [final |-> <<[fields |-> fields, confidence |-> confidence, refs |-> refs]>>, tasks |-> <<>>]
Call(name, arguments, ok) == [name |-> name, arguments |-> arguments, ok |-> ok]
Task(id, fields, list) == [id |-> id, fields |-> fields, calls |-> list]
Tasks(list) == [final |-> <<>>, tasks |-> <<list>>]
Read == Call(<<"read", "_", "health">>, "object", TRUE)
Answers ==
    {[final |-> <<>>, tasks |-> <<>>], Final(TRUE, 90, <<"string", "object">>), Final(TRUE, 101, <<>>), Final(TRUE, 0, <<"neither">>),
     Final(FALSE, 50, <<>>), [Final(TRUE, 90, <<>>) EXCEPT !.tasks = <<<<Task("k1", TRUE, <<Read>>)>>>>],
     Tasks(<<>>), Tasks(<<Task("k1", TRUE, <<Read>>), Task("k2", TRUE, <<>>)>>), Tasks(<<Task("k1", TRUE, <<>>), Task("k1", TRUE, <<>>)>>),
     Tasks(<<Task("k1", TRUE, <<Read, Read, Read>>)>>), Tasks(<<Task("k1", TRUE, <<Call(<<"read">>, "array", TRUE)>>)>>),
     Tasks(<<Task("k1", FALSE, <<Read>>)>>), Tasks(<<Task("k1", TRUE, <<>>), Task("k2", TRUE, <<>>), Task("k3", TRUE, <<>>)>>)}

Provided(name) == Call(name, "object", TRUE)
Natives == {<<>>, <<Provided(<<"antisentinel", "_", "skill", "_", "load">>)>>, <<Call(<<"read">>, "broken", TRUE)>>,
            <<Call(<<"read">>, "array", TRUE)>>, <<Read, Read>>, <<Read, Read, Read>>}
Unread == [http |-> "timeout", body |-> "none", native |-> <<>>, content |-> "none", answer |-> [final |-> <<>>, tasks |-> <<>>], usage |-> 0]
Bad == {[Unread EXCEPT !.http = how] : how \in {"timeout", "unreachable", "error", "ok"}}
       \cup {[Unread EXCEPT !.http = "ok", !.body = "odd"]}
Contents == [http : {"ok"}, body : {"object"}, native : {<<>>}, content : {"none", "text", "json", "number"}, answer : Answers, usage : {-1, 1}]
WithCalls == [http : {"ok"}, body : {"object"}, native : Natives \ {<<>>}, content : {"none", "number"}, answer : {Tasks(<<>>)}, usage : {-1, 1}]
Message(role, text, duplicate) == [role |-> role, text |-> text, duplicate |-> duplicate]
Conversations == {<<Message("system", TRUE, FALSE), Message("memory", FALSE, FALSE)>>,
                  <<Message("user", TRUE, FALSE), Message("tool", FALSE, FALSE)>>,
                  <<Message("tool", FALSE, TRUE), Message("source", FALSE, FALSE)>>}
Load == <<"skill", ".", "load">>
ReplyInputs ==
    [messages : Conversations, tools : {<<>>, <<Load>>}, reply : Bad \cup Contents \cup WithCalls,
     repair : Bad \cup Contents]
JsonInputs == [reply : Bad \cup Contents \cup WithCalls, time : BOOLEAN, truncated : BOOLEAN]
NameInputs ==
    Lists({Load, <<"skill", "_", "load">>, <<"skill", ".", "read">>, <<"antisentinel", "_", "skill", "_", "load">>}, 3)

(* Packages of a catalog, and arguments of a tool.                         *)
Ref(id, how) == [id |-> id, fields |-> TRUE, file |-> how]
Skill(id, plugin, how, tools, refs) == [id |-> id, plugin |-> plugin, fields |-> TRUE, file |-> how, tools |-> tools, refs |-> refs]
Manifest(id, exports, skills) == [file |-> "ok", fields |-> TRUE, id |-> id, exports |-> exports, skills |-> skills]
Plain == Skill("a", "p", "ok", {"t1"}, <<Ref("r", "ok")>>)
Manifests ==
    {Manifest("p", <<>>, <<Plain>>), Manifest("p", <<"m">>, <<Plain, [Plain EXCEPT !.id = "b", !.tools = {"t2"}]>>),
     Manifest("q", <<"m">>, <<Skill("a", "q", "ok", {"t2", "t3"}, <<>>)>>), Manifest("q", <<"n">>, <<Skill("a", "q", "ok", {}, <<>>)>>),
     Manifest("o", <<"k">>, <<Skill("a", "o", "ok", {"t3"}, <<>>)>>),
     Manifest("q", <<>>, <<Skill("a", "p", "ok", {}, <<>>)>>), Manifest("q", <<>>, <<Skill("a", "q", "missing", {}, <<>>)>>),
     Manifest("q", <<>>, <<Skill("a", "q", "ok", {}, <<Ref("r", "large")>>)>>),
     Manifest("q", <<>>, <<Skill("a", "q", "ok", {}, <<Ref("r", "ok"), Ref("s", "ok")>>)>>),
     Manifest("q", <<>>, <<Skill("a", "q", "ok", {"t9"}, <<>>)>>), Manifest("q", <<"j">>, <<Skill("a", "q", "link", {}, <<>>)>>),
     [Manifest("q", <<>>, <<Plain>>) EXCEPT !.file = "outside"], Manifest("q", <<>>, <<>>)}
Modules == [k |-> <<"t3">>, m |-> <<"t2", "t3">>, n |-> <<"t1">>]
Packages == [required : BOOLEAN, trusted : {Modules}, manifest : Manifests]
Policies == [disabled : {{}, {Plain}}, allowed : {{"t1"}, {"t1", "t2", "t3"}}, readOnly : BOOLEAN, approval : BOOLEAN]
CatalogInputs ==
    [packages : Lists(Packages, 2), policy : {[disabled |-> {}, allowed |-> {"t1", "t2"}, readOnly |-> TRUE, approval |-> FALSE]}]
    \cup [packages : {<<[required |-> TRUE, trusted |-> Modules, manifest |-> m]>> : m \in Manifests}, policy : Policies]
    \cup [policy : {[disabled |-> {}, allowed |-> {}, readOnly |-> FALSE, approval |-> FALSE]},
          packages : [1..3 -> {p \in Packages : ~p.required /\ p.manifest.exports # <<>>}]]

Parameters == [type : {"string", "integer", "number", "any", "bytes"}, optional : BOOLEAN, default : BOOLEAN]
Given == {"string", "integer", "number", "boolean", "null"}
ArgumentInputs ==
    [parameters : [{"x"} -> Parameters] \cup [{"x", "y"} -> [type : {"integer", "number"}, optional : {FALSE}, default : BOOLEAN]],
     given : UNION {[names -> Given] : names \in {{}, {"x"}, {"y"}, {"x", "y"}}}]

-----------------------------------------------------------------------------
SearchHolds ==
    /\ part = "fusion" => \A i \in FusionInputs : Functions!FusionIsSound(i.keyword, i.vector, i.limit)
    /\ part = "selection" => \A i \in SelectionInputs : Functions!SelectionIsSound(i.seeds, i.expanded, i.parent, i.limit)
    /\ part = "search" => \A i \in SearchInputs : Functions!SearchIsHonest(i.w, i.mode, i.topK, i.candidateLimit)
    /\ part = "tool" => \A i \in ToolInputs : Functions!ToolIsHonest(i.w, i.mode, i.topK, i.candidateLimit, i.outcome, i.late)
    /\ part = "summary" => \A i \in SummaryInputs : Functions!SummaryIsHonest(i.sizes, i.head, i.limit)
    /\ part = "bindings" => \A i \in BindingInputs :
          Functions!ReadsAreBound(i.binds, i.allowed, i.asked, i.shown, i.archive)
    /\ part = "evidence" =>
          \A i \in EvidenceInputs : Functions!EvidenceIsBounded(i.candidates, i.sizes, i.maxFragments, i.maxBytes)
    /\ part = "graph" =>
          \A i \in GraphInputs : Functions!ExpansionIsComplete(i.graph, i.seeds, i.depth, i.direction, i.nodes, i.budget)
    /\ part = "slices" => \A i \in SliceInputs : Slicing!SlicesAreTheText(Slicing!Encoded(i.widths), i.max)

(* The coordinator and its tables agree, and a search answers what its     *)
(* reference does.                                                         *)
SearchesAreSound == (part = "retrieval" => RetrievalIsSound) /\ SearchHolds

CatalogHolds(packages, policy) == \A catalog \in {Catalog!Assemble({"t1"}, packages)} :
    Catalog!CatalogIsSound({"t1"}, packages, catalog) /\ Catalog!AvailableIsAllowed(catalog, policy, {"t2"}, {"t3"})

(* What is packed, what a reply becomes and which tools and skills there   *)
(* are is what each function promises for its input.                       *)
RequestsAreSound ==
    /\ part = "pack" => \A i \in PackInputs : Packing!PackIsSound(i)
    /\ part = "reply" => \A i \in ReplyInputs : Adapter!ReplyIsSound(i.messages, i.tools, i.reply, i.repair)
    /\ part = "json" => \A i \in JsonInputs : Adapter!JsonIsWhole(i.reply, i.time, i.truncated)
    /\ part = "names" => \A tools \in NameInputs : Adapter!ToolsAreToldApart(tools)
    /\ part = "catalog" => \A i \in CatalogInputs : CatalogHolds(i.packages, i.policy)
    /\ part = "arguments" => \A i \in ArgumentInputs : Catalog!ArgumentsAreChecked(i.parameters, i.given)

(* The pins of a run, its skills and the packages they come from.          *)
SourcesAndSkillsAgree ==
    /\ part = "pins" => Pins!PinsAgree
    /\ part = "skills" => Runtime!SkillsAgree
    /\ part = "publication" => Catalog!PublicationIsWhole

(* The events of an entity, the schema of the database, what is imported   *)
(* into it and the copy of the memories beside it.                         *)
RecordsAgree ==
    /\ part = "entity" => Lifecycles!EventsTellTheStatus
    /\ part = "schema" => Stores!SchemaIsWhole
    /\ part = "stopping" => Stopping!ImportIsSound
    /\ part = "import" => Importing!ImportIsSound
    /\ part = "audit" => Stores!AuditIsObservable

-----------------------------------------------------------------------------

Machine == {"retrieval", "pins", "skills", "publication", "entity", "schema", "import", "stopping", "audit"}
Function ==
    {"fusion", "selection", "search", "tool", "summary", "bindings", "evidence", "graph", "slices", "pack", "reply", "json", "names", "catalog", "arguments"}

MCInit ==
    /\ Init /\ Pins!PinInit /\ Runtime!SkillInit /\ Catalog!PublicationInit /\ Stores!AuditInit
    /\ part \in Machine \cup Function
    /\ part # "retrieval" => documents = NoDocuments
    /\ IF part = "entity" THEN Lifecycles!EntityInit ELSE entity = <<>> /\ raised = FALSE /\ stored = <<>>
    /\ IF part = "schema" THEN Stores!SchemaInit
       ELSE tables = {} /\ versions = {} /\ userVersion = 0 /\ process = <<>> /\ starts = 0
    /\ IF part = "stopping" THEN Stopping!ImportInit ELSE Importing!ImportInit

contextState == <<pinState, skillState, publicationState>>
recordState == <<entityState, schemaState, importState, auditState>>

MCNext ==
    /\ UNCHANGED part
    /\ \/ part = "retrieval" /\ Next /\ UNCHANGED <<contextState, recordState>>
       \/ part = "pins" /\ Pins!PinNext /\ UNCHANGED <<coordinatorVars, skillState, publicationState, recordState>>
       \/ part = "skills" /\ Runtime!SkillNext /\ UNCHANGED <<coordinatorVars, pinState, publicationState, recordState>>
       \/ part = "publication" /\ Catalog!PublicationNext /\ UNCHANGED <<coordinatorVars, pinState, skillState, recordState>>
       \/ /\ UNCHANGED <<coordinatorVars, contextState>>
          /\ \/ part = "entity" /\ Lifecycles!EntityNext /\ UNCHANGED <<schemaState, importState, auditState>>
             \/ part = "schema" /\ Stores!SchemaNext /\ UNCHANGED <<entityState, importState, auditState>>
             \/ part = "import" /\ Importing!ImportNext /\ UNCHANGED <<entityState, schemaState, auditState>>
             \/ part = "stopping" /\ Stopping!ImportNext /\ UNCHANGED <<entityState, schemaState, auditState>>
             \/ part = "audit" /\ Stores!AuditNext /\ UNCHANGED <<entityState, schemaState, importState>>

On == part = "retrieval"
MCSpec ==
    /\ MCInit /\ [][MCNext]_<<part, coordinatorVars, contextState, recordState>>
    /\ WF_coordinatorVars(On /\ StartRuns) /\ SF_coordinatorVars(On /\ Thread)
    /\ \A q \in Query : WF_coordinatorVars(On /\ Finish(q)) /\ WF_coordinatorVars(On /\ (Enter(q) \/ WaitedTooLong(q)))
=============================================================================
