------------------------------ MODULE MCCodeMap ------------------------------
(***************************************************************************)
(* A repository with two commits, two workers and a scheduler; or the      *)
(* clone its commits are read from; or what is made of one commit and how  *)
(* it is read; or how what is published of it is searched by its vectors.  *)
(* A behaviour begins with the part it is about; a function is asked every *)
(* input of a set in one state.                                            *)
(***************************************************************************)
EXTENDS CodeMap, TLC, SequencesExt

VARIABLES part,
          current, runStatus, tasks, points, losses, embedders, mode, created, channel, publisher, collection, search,
          tip, clone, objects, fetched, pins, lock, step, commit, known, seen, synced, wrong, changes, ended

gitVars == <<tip, clone, objects, fetched, pins, lock, step, commit, known, seen, synced, wrong, changes, ended>>

Git == INSTANCE GitCache WITH
    Process <- {"scheduler", "worker"}, Ref <- {"main", "release"}, Revision <- {"x", "y"},
    Tracks <- [scheduler |-> "main", worker |-> "release"], MaxRevisions <- 2, MaxSyncs <- 4
ASSUME Git!ConstantsOK

(* Two workers on one document, and one on two; current to embedders are   *)
(* the variables of EmbeddingProjection.                                   *)
vectorVars == <<current, runStatus, tasks, points, losses, embedders, mode, created, channel, publisher, collection, search>>

Raced == INSTANCE VectorSearch WITH
    Worker <- {"e1", "e2"}, Task <- {1}, MaxAttempts <- 2, active <- current, status <- runStatus, task <- tasks,
    point <- points, lost <- losses, worker <- embedders
Partial == INSTANCE VectorSearch WITH
    Worker <- {"e1"}, Task <- {1, 2}, MaxAttempts <- 1, active <- current, status <- runStatus, task <- tasks,
    point <- points, lost <- losses, worker <- embedders

QueueSymmetry == Permutations(Worker) \cup Permutations(Commit)

-----------------------------------------------------------------------------
(* Sources of a symbol and what is before it, by the widths of their       *)
(* characters: 0 is the end of a line.                                     *)
Chunks == INSTANCE SourceChunks WITH MAX_CHUNK_BYTES <- 4, MAX_CHUNK_LINES <- 2
Lists(set, n) == UNION {[1..k -> set] : k \in 0..n}
Lines(widths) == Cardinality({k \in DOMAIN widths : widths[k] = 0}) + (IF Last(widths) = 0 THEN 0 ELSE 1)
Sources == Lists({0, 1, 3}, 6) \ {<<>>}
ChunkInputs == UNION {[widths : {w}, first : 1..Lines(w), more : 0..(Lines(w) - 1)] : w \in Sources}
SymbolsOf(i) == {[first |-> i.first, last |-> l] : l \in {i.first + i.more} \cap (1..Lines(i.widths))}

(* Contents of files.                                                      *)
Symbol(name, first, parent) ==
    [name |-> name, kind |-> "function", first |-> first, last |-> first + 1, parent |-> parent,
     pieces |-> {[from |-> first, to |-> first + 2]}]
Contents ==
    [one |-> [parses |-> TRUE, symbols |-> <<Symbol("f", 1, 0), Symbol("g", 2, 1)>>],
     two |-> [parses |-> TRUE, symbols |-> <<Symbol("f", 1, 0)>>], empty |-> [parses |-> TRUE, symbols |-> <<>>],
     broken |-> [parses |-> FALSE, symbols |-> <<>>]]
Builds == INSTANCE SnapshotBuild WITH Content <- Contents, MaxFiles <- 2, MaxFileBytes <- 3, MaxTextBytes <- 4
ASSUME Builds!ContentHolds

(* A call in a function or a class h of the file p.c, of whose names f is  *)
(* bound once, twice or elsewhere.  A definition that ends in line 4 is    *)
(* within another statement: no symbol.                                    *)
Def(name, end) == [binds |-> name, kind |-> "def", end |-> end]
From(name, module, level, as) == [binds |-> as, kind |-> "from", module |-> module, level |-> level, name |-> name]
Importing(module, as) ==
    [binds |-> IF as = "none" THEN module[1] ELSE as, kind |-> "import", module |-> module, renamed |-> as # "none"]
Other(name) == [binds |-> name, kind |-> "other"]
Statements ==
    {Def("f", 2), Def("f", 4), Other("f"), From("g", <<"p", "a">>, 0, "f"), From("f", <<>>, 1, "f"), From("*", <<"b">>, 0, "*"),
     Importing(<<"p", "a">>, "none"), Importing(<<"p", "a">>, "f"), Importing(<<"b">>, "none"), Importing(<<"b">>, "f")}
SymbolsIn(body, prefix, ids) ==
    LET defs == SelectSeq(body, LAMBDA s : s.kind = "def" /\ s.end < 4)
    IN [k \in DOMAIN defs |-> [id |-> ids + k, name |-> Append(prefix, defs[k].binds), end |-> defs[k].end]]
File(module, init, body, ids) ==
    [module |-> module, init |-> init, test |-> FALSE, body |-> body, symbols |-> SymbolsIn(body, <<>>, ids)]
Twice == File(<<"p", "a">>, FALSE, <<Def("g", 3), Other("g"), Def("f", 2)>>, 10)
Once == File(<<"p", "a">>, FALSE, <<Def("g", 3), Def("f", 2)>>, 20)
Package == File(<<"p">>, TRUE, <<Def("f", 1)>>, 30)
Module == File(<<"b">>, FALSE, <<Def("f", 1)>>, 40)
Expressions == {[kind |-> "name", base |-> "f", attr |-> "f"], [kind |-> "other", base |-> "f", attr |-> "f"]}
               \cup {[kind |-> "attribute", base |-> base, attr |-> "f"] : base \in {"f", "p", "b"}}
ResolutionInputs ==
    [module : Lists(Statements, 2), body : Lists(Statements, 1), node : {"function", "argument", "class"}, test : BOOLEAN,
     others : {<<>>, <<Once, Package>>, <<Twice, Module>>, <<Once, Once, Module>>}, expr : Expressions]
Here(i) ==
    [module |-> <<"p", "c">>, init |-> FALSE, test |-> i.test, body |-> Append(i.module, Def("h", 1)),
     symbols |-> SymbolsIn(Append(i.module, Def("h", 1)), <<>>, 0) \o SymbolsIn(i.body, <<"h">>, 5)]
Scopes(i) ==
    Builds!Nested(<<[body |-> Append(i.module, Def("h", 1)), prefix |-> <<>>]>>,
                      [class |-> i.node = "class", body |-> i.body, qualified |-> <<"h">>,
                       arguments |-> IF i.node = "argument" THEN <<"f">> ELSE <<>>])

-----------------------------------------------------------------------------
(* Trees of a commit.                                                      *)
Entry(path, language) ==
    [path : {path}, language : {language}, object : {"blob"}, size : {1}, blob : DOMAIN Contents]
    \cup {[path |-> path, language |-> language, object |-> "link", size |-> 1, blob |-> "one"]}
    \cup [path : {path}, language : {language}, object : {"blob"}, size : {3, 4}, blob : {"one"}]
Trees == Lists(Entry("a.py", "python") \cup Entry("b.py", "python") \cup Entry("c.go", "other") \cup Entry("d.md", "none"), 3)
Paths(tree) == {tree[k].path : k \in DOMAIN tree}
BuildInputs ==
    [tree : {t \in Trees : Cardinality(Paths(t)) = Len(t)}, before : {<<e>> : e \in {x \in Entry("a.py", "python") \cup Entry("b.py", "python") : x.object = "blob" /\ x.size = 1}}, multi : BOOLEAN]
BuildLease(i) == [repository |-> "r", commit |-> "later", parser |-> "v1", rules |-> "d", multi |-> i.multi]

-----------------------------------------------------------------------------
(* A published map: the last node is of another snapshot.                  *)
Querying == INSTANCE CodeMapQuery WITH MaxInspected <- 3, MaxDepth <- 2, MaxNodes <- 3, Relations <- {"calls", "imports"}
EdgeOf(from, to, relation) == [snapshot |-> 1, from |-> from, to |-> to, relation |-> relation]
Edges == {EdgeOf(from, to, "calls") : from \in 1..3, to \in 0..4} \cup {EdgeOf(1, 2, "imports")}
Maps ==
    [snapshots : {<<[repository |-> "r", status |-> "ready"], [repository |-> "r", status |-> status]>> : status \in {"ready", "building"}},
     nodes : {<<[snapshot |-> 1, name |-> "f"], [snapshot |-> 1, name |-> "g"], [snapshot |-> 1, name |-> "f"], [snapshot |-> 2, name |-> "f"]>>},
     edges : Lists(Edges, 2) \cup [1..3 -> {EdgeOf(from, to, "calls") : from, to \in 1..3}],
     chunks : {<<[snapshot |-> 1, node |-> 1, intact |-> TRUE, whole |-> whole], [snapshot |-> 1, node |-> 1, intact |-> FALSE, whole |-> whole],
                 [snapshot |-> 2, node |-> 4, intact |-> TRUE, whole |-> TRUE]>> : whole \in BOOLEAN}]
Neighbours == [direction : {"outbound", "inbound", "both"}, relations : {{"calls"}, {"calls", "imports"}}, depth : 1..2, budget : 1..3]

-----------------------------------------------------------------------------
Function == {"chunks", "relations", "builds", "queries"}

MCInit ==
    /\ Init /\ Git!GitInit /\ part \in {"queue", "git", "raced", "partial"} \cup Function /\ (part # "git" => tip["main"] = "x")
    /\ IF part = "partial" THEN Partial!SearchInit ELSE Raced!SearchInit /\ (part # "raced" => collection = "fits")
MCNext ==
    /\ UNCHANGED part
    /\ \/ part = "queue" /\ Next /\ UNCHANGED <<gitVars, vectorVars>>
       \/ part = "git" /\ Git!GitNext /\ UNCHANGED <<vars, vectorVars>>
       \/ part = "raced" /\ Raced!SearchNext /\ UNCHANGED <<vars, gitVars>>
       \/ part = "partial" /\ Partial!SearchNext /\ UNCHANGED <<vars, gitVars>>
MCSpec == MCInit /\ [][MCNext]_<<part, vars, gitVars, vectorVars>>

(* What is cut from a source, resolved, built and answered is what each    *)
(* function promises for its input; and the clone keeps what was synced.   *)
FactsAreSound ==
    /\ part = "chunks" =>
          \A i \in ChunkInputs : \A symbol \in SymbolsOf(i) : Chunks!ChunksAreTheSymbol(symbol, Chunks!Encoded(i.widths))
    /\ part = "relations" =>
          \A i \in ResolutionInputs :
              /\ Builds!ResolvedIsMeant(Append(i.others, Here(i)), Here(i), i.expr, Scopes(i), 99)
              /\ Builds!NamesAgree(Append(i.others, Here(i)), Here(i), "f", Scopes(i), 99, {"f" : k \in {i.node} \cap {"argument"}})
    /\ part = "builds" => \A i \in BuildInputs : Builds!BuildIsSound(BuildLease(i), i.before, i.tree)
    /\ part = "queries" => \A map \in Maps :
          /\ \A q \in Neighbours : Querying!QueriesAreSound(map, {"r"}, "r", 1, 1, q)
          /\ \A id \in 1..3, allowed \in {{"r"}, {}}, limit \in 1..3 :
                Querying!SymbolsAreFound(map, allowed, "r", id, "f", limit)
    /\ part = "git" => Git!CloneIsSound

(* Whoever publishes, loses or supersedes the vectors of the code: what a  *)
(* search returns is verified, and what is ready is whole.                 *)
SearchesAreVerified ==
    /\ [](part = "raced" => Raced!ReadyIsReady) /\ [](part = "partial" => Partial!ReadyIsReady)
    /\ [][part = "raced" => Raced!OthersAreLeftAlone]_vectorVars
    /\ [][part = "partial" => Partial!OthersAreLeftAlone]_vectorVars

(* A chunk is cut at line boundaries, at so many bytes and lines, and      *)
(* nothing is silently left out (docs/superpowers/plans/2026-09-07-        *)
(* prd005a-code-map.md:519): the pieces of every symbol tile it.           *)
EverySymbolIsCut ==
    part = "chunks" =>
        \A i \in ChunkInputs : \A symbol \in SymbolsOf(i) : Chunks!EveryChunkTiles(symbol, Chunks!Encoded(i.widths))
=============================================================================
