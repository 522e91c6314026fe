----------------------------- MODULE CodeSearch -----------------------------
(***************************************************************************)
(* A code search: the channels answer with hits, reciprocal rank fusion    *)
(* makes one list of them, graph neighbours take their places among it,    *)
(* and evidence is read for what came out, within a budget of bytes; the   *)
(* neighbours are found by structural expansion over the published map.    *)
(*                                                                         *)
(* A hit is a record: doc, the file and the bytes lo to hi it stands for,  *)
(* and whether it is a slice of a chunk.  Lists of hits come ranked.       *)
(***************************************************************************)
EXTENDS Integers, Sequences, FiniteSets, SequencesExt, FiniteSetsExt

CONSTANTS
    K,           \* 60, the damping of ranks
    MAX_TOP_K,   \* 5
    MaxChunks    \* 5: the chunks that are handed on of a node

(* _overlapping_source()                                                   *)
Overlap(a, b) ==
    /\ a.file = b.file /\ a.lo < a.hi /\ b.lo < b.hi
    /\ a.lo < b.hi /\ b.lo < a.hi

-----------------------------------------------------------------------------
(* ReciprocalRankFusion.combine()                                          *)

FirstRank(hits, doc) == CHOOSE r \in DOMAIN hits : hits[r].doc = doc /\ \A s \in 1..(r - 1) : hits[s].doc # doc

(* The hits of both channels, each document once in a channel, the better  *)
(* rank first and the keyword channel before the vector channel.           *)
Records(keyword, vector) ==
    LET Of(channel, hits) == {[channel |-> channel, rank |-> r, hit |-> hits[r]] :
                                  r \in {s \in DOMAIN hits : FirstRank(hits, hits[s].doc) = s}}
    IN SetToSortSeq(Of("keyword", keyword) \cup Of("vector", vector),
                    LAMBDA a, b : a.rank < b.rank \/ (a.rank = b.rank /\ a.channel = "keyword" /\ b.channel = "vector"))

(* Mutant: a record joins the group of any record it overlaps.             *)
GroupOfAny(groups, record) ==
    {g \in DOMAIN groups : \E k \in DOMAIN groups[g] : groups[g][k].hit.doc = record.hit.doc \/ Overlap(groups[g][k].hit, record.hit)}

(* A record joins the group of its document, or the first whose            *)
(* representative it overlaps.                                             *)
GroupOf(groups, record) ==
    LET same == {g \in DOMAIN groups : \E k \in DOMAIN groups[g] : groups[g][k].hit.doc = record.hit.doc}
    IN IF same # {} THEN same ELSE {g \in DOMAIN groups : Overlap(groups[g][1].hit, record.hit)}

Grouped(groups, record) ==
    IF GroupOf(groups, record) = {} THEN Append(groups, <<record>>)
    ELSE [groups EXCEPT ![Min(GroupOf(groups, record))] = Append(@, record)]

Groups(keyword, vector) == FoldLeft(Grouped, <<>>, Records(keyword, vector))

(* Scores as whole numbers, over a common multiple of the denominators.    *)
Score(group) ==
    LET Ranks(c) == {group[k].rank : k \in {j \in DOMAIN group : group[j].channel = c}}
        whole == FoldSet(LAMBDA r, p : p * (K + r), 1, 1..3)
    IN MapThenSumSet(LAMBDA c : IF Ranks(c) = {} THEN 0 ELSE whole \div (K + Min(Ranks(c))), {"keyword", "vector"})

Ordered(groups) ==
    SetToSortSeq(DOMAIN groups, LAMBDA g, h :
        Score(groups[g]) > Score(groups[h]) \/ (Score(groups[g]) = Score(groups[h]) /\ groups[g][1].hit.doc < groups[h][1].hit.doc))
Clip(s, limit) == SubSeq(s, 1, IF Len(s) < limit THEN Len(s) ELSE limit)
Shown(groups, order) == [k \in DOMAIN order |-> groups[order[k]][1].hit]
Best(groups, limit) == Shown(groups, Clip(Ordered(groups), limit))
Combine(keyword, vector, limit) == Best(Groups(keyword, vector), limit)

(* No two results show the same bytes, every hit of a channel is shown or  *)
(* shares bytes with a result or was cut by the limit, and the first of    *)
(* both channels, if they agree, is the first result.                      *)
FusionIsSound(keyword, vector, limit) ==
    \A fused \in {Combine(keyword, vector, limit)}, hits \in {ToSet(keyword) \cup ToSet(vector)} :
    /\ Len(fused) <= limit /\ ToSet(fused) \subseteq hits
    /\ \A j, k \in DOMAIN fused : j # k => fused[j].doc # fused[k].doc /\ ~Overlap(fused[j], fused[k])
    /\ Len(fused) < limit => \A h \in hits : \E k \in DOMAIN fused : fused[k].doc = h.doc \/ Overlap(fused[k], h)
    /\ keyword # <<>> /\ vector # <<>> /\ keyword[1] = vector[1] => fused[1] = keyword[1]

-----------------------------------------------------------------------------
(* _select_graph_hits(): seeds and neighbours take turns; a single place   *)
(* goes to a neighbour.                                                    *)
Interleaved(seeds, expanded) ==
    LET n == IF Len(seeds) > Len(expanded) THEN Len(seeds) ELSE Len(expanded)
        At(s, k) == IF k \in DOMAIN s THEN <<s[k]>> ELSE <<>>
    IN FlattenSeq([k \in 1..n |-> At(seeds, k) \o At(expanded, k)])

Take(unique, hit) ==
    IF \/ hit.slice /\ \E k \in DOMAIN unique : Overlap(hit, unique[k])
       \/ \E k \in DOMAIN unique : unique[k].chunk = hit.chunk /\ unique[k].slice = hit.slice
                                   /\ (hit.slice => unique[k].lo = hit.lo /\ unique[k].hi = hit.hi)
    THEN unique ELSE Append(unique, hit)

Unique(seeds, expanded, limit) ==
    FoldLeft(Take, <<>>, IF limit = 1 /\ expanded # <<>> THEN expanded \o seeds ELSE Interleaved(seeds, expanded))

(* _replace_graph_seed_hits(): a child may take its own seed's place.      *)
Replace(seeds, expanded, parent, containersOnly, limit) ==
    LET ids == {seeds[k].doc : k \in DOMAIN seeds}
        ChildrenOf(doc) == SelectSeq([k \in DOMAIN expanded |-> k], LAMBDA k :
            parent[k].doc = doc /\ expanded[k].doc \notin ids /\ (containersOnly => parent[k].container))
        Step(result, seed) ==
            LET fresh == SelectSeq(ChildrenOf(seed.doc), LAMBDA k : \A j \in DOMAIN result : result[j].doc # expanded[k].doc)
                chosen == IF fresh = <<>> THEN seed ELSE expanded[fresh[1]]
            IN IF \E j \in DOMAIN result : result[j].doc = chosen.doc THEN result ELSE Append(result, chosen)
    IN FoldLeft(Step, <<>>, Clip(seeds, limit))

(* A selection has no two slices of the same bytes, has a neighbour in it  *)
(* when there is one and a second place for a seed, and cuts nothing       *)
(* without saying so.                                                      *)
SelectionIsSound(seeds, expanded, parent, limit) ==
    LET unique == Unique(seeds, expanded, limit) selected == Clip(unique, limit)
        replaced == Replace(seeds, expanded, parent, FALSE, limit)
    IN /\ Len(selected) <= limit /\ Len(replaced) <= limit
       /\ \A j, k \in DOMAIN selected : j < k /\ selected[k].slice => ~Overlap(selected[j], selected[k])
       /\ expanded # <<>> /\ limit > 1 /\ seeds # <<>> => selected[1] = seeds[1]
       /\ \A k \in DOMAIN replaced :
             \/ Contains(seeds, replaced[k])
             \/ \E j \in DOMAIN expanded : expanded[j] = replaced[k] /\ \E i \in DOMAIN seeds : seeds[i].doc = parent[j].doc
       /\ IsInjective([k \in DOMAIN replaced |-> replaced[k].doc])
       /\ Len(unique) <= limit => \A h \in ToSet(seeds) \cup ToSet(expanded) :
             \E k \in DOMAIN selected : selected[k].chunk = h.chunk \/ Overlap(selected[k], h)

-----------------------------------------------------------------------------
(* CodeRetrievalService.search(): how the channels are is w, a record:     *)
(* lexical (ready or not), vector and graph ("ready", "down", "absent"),   *)
(* and what the expansion says of itself.                                  *)
Result(hits, statuses, error, truncated) ==
    [hits |-> hits, statuses |-> statuses, degraded |-> error # "none", error |-> error, truncated |-> truncated]

Unavailable(w, channel) == w[channel] # "ready"

Keyword(w, topK) ==
    IF Unavailable(w, "lexical") THEN Result(<<>>, [keyword |-> "unavailable"], "lexical_unavailable", FALSE)
    ELSE Result(Combine(w.keywordHits, <<>>, topK), [keyword |-> "ready"], "none", FALSE)

Vector(w, topK) ==
    IF Unavailable(w, "vector") THEN Result(<<>>, [vector |-> "unavailable"], "vector_unavailable", FALSE)
    ELSE Result(Combine(<<>>, w.vectorHits, topK), [vector |-> "ready"], "none", FALSE)

Hybrid(w, topK) ==
    IF Unavailable(w, "vector")
    THEN Result(IF Unavailable(w, "lexical") THEN <<>> ELSE Combine(w.keywordHits, <<>>, topK),
                [keyword |-> IF Unavailable(w, "lexical") THEN "unavailable" ELSE "ready", vector |-> "unavailable"],
                "vector_unavailable", FALSE)
    ELSE IF Unavailable(w, "lexical")
    THEN Result(Combine(<<>>, w.vectorHits, topK), [keyword |-> "unavailable", vector |-> "ready"], "lexical_unavailable", FALSE)
    ELSE Result(Combine(w.keywordHits, w.vectorHits, topK), [keyword |-> "ready", vector |-> "ready"], "none", FALSE)

GraphStatus(w) == IF Unavailable(w, "graph") THEN "unavailable" ELSE IF w.graphDegraded THEN "degraded" ELSE "ready"
GraphError(w) == CASE GraphStatus(w) = "unavailable" -> "graph_unavailable"
                   [] GraphStatus(w) = "degraded" -> "graph_degraded" [] OTHER -> "none"

(* Graph search, and hybrid search expanded: without the graph the base    *)
(* goes out as it is, which for the hybrid is more than was asked for.     *)
First(a, b) == IF a # "none" THEN a ELSE b
GraphSaid(statuses, status) == [c \in DOMAIN statuses \cup {"graph"} |-> IF c = "graph" THEN status ELSE statuses[c]]
Expanded(w, base, unique, topK) ==
    Result(Clip(unique, topK), GraphSaid(base.statuses, GraphStatus(w)), First(base.error, GraphError(w)),
           w.graphTruncated \/ Len(unique) > topK)
WithGraph(w, base, topK) ==
    IF Unavailable(w, "graph")
    THEN Result(base.hits, GraphSaid(base.statuses, "unavailable"), First(base.error, "graph_unavailable"), FALSE)
    ELSE Expanded(w, base, Unique(base.hits, w.expanded, topK), topK)

Graph(w, topK) ==
    IF Unavailable(w, "lexical")
    THEN Result(<<>>, [keyword |-> "unavailable", graph |-> "unavailable"], "lexical_unavailable", FALSE)
    ELSE WithGraph(w, Keyword(w, topK), topK)

HybridGraph(w, topK, candidateLimit) ==
    WithGraph(w, Hybrid(w, IF MAX_TOP_K < candidateLimit THEN MAX_TOP_K ELSE candidateLimit), topK)

Search(w, mode, topK, candidateLimit) ==
    CASE mode = "keyword" -> Keyword(w, topK) [] mode = "vector" -> Vector(w, topK) [] mode = "hybrid" -> Hybrid(w, topK)
      [] mode = "graph" -> Graph(w, topK) [] OTHER -> HybridGraph(w, topK, candidateLimit)

(* An answer that does not say it is degraded had all its channels ready;  *)
(* a channel that is down takes no hit of another away; and no more is     *)
(* answered than was asked for, save by the hybrid that lacks its graph.   *)
DegradationIsTold(r) == r.degraded <=> \E c \in DOMAIN r.statuses : r.statuses[c] # "ready"
SearchIsHonest(w, mode, topK, candidateLimit) ==
    \A r \in {Search(w, mode, topK, candidateLimit)} :
    /\ DegradationIsTold(r)
    /\ r.hits = <<>> => \/ r.degraded
                        \/ mode \in {"keyword", "graph"} /\ w.keywordHits = <<>>
                        \/ mode = "vector" /\ w.vectorHits = <<>>
                        \/ w.keywordHits = <<>> /\ w.vectorHits = <<>>
    /\ mode \in {"hybrid", "hybrid_graph"} /\ ~Unavailable(w, "lexical") /\ w.keywordHits # <<>> => r.hits # <<>>
    /\ Len(r.hits) <= (IF mode = "hybrid_graph" /\ Unavailable(w, "graph") THEN MAX_TOP_K ELSE topK)

-----------------------------------------------------------------------------
(* CodeEvidenceAssembler.select(): sizes[k] is what the source of the k-th *)
(* candidate takes; reading more than is left raises.                      *)
Nothing == [selected |-> <<>>, bytes |-> 0, truncated |-> FALSE]

SameSource(a, b) == a.chunk = b.chunk /\ a.slice = b.slice /\ (a.slice => a.lo = b.lo /\ a.hi = b.hi)

Assembled(candidates, sizes, maxFragments, maxBytes) ==
    FoldLeft(LAMBDA x, k :
        LET c == candidates[k] IN
        IF \/ \E j \in 1..(k - 1) : SameSource(candidates[j], c)
           \/ c.slice /\ \E j \in ToSet(x.selected) : Overlap(candidates[j], c)
        THEN x
        ELSE IF Len(x.selected) = maxFragments \/ x.bytes + sizes[k] > maxBytes THEN [x EXCEPT !.truncated = TRUE]
        ELSE [x EXCEPT !.selected = Append(@, k), !.bytes = @ + sizes[k]],
        Nothing, [k \in DOMAIN candidates |-> k])

(* The budgets hold, no slice repeats bytes that were selected before it,  *)
(* and what is left out for want of room is said.                          *)
EvidenceIsBounded(candidates, sizes, maxFragments, maxBytes) ==
    LET x == Assembled(candidates, sizes, maxFragments, maxBytes) IN
    /\ Len(x.selected) <= maxFragments /\ x.bytes <= maxBytes
    /\ x.bytes = FoldLeft(LAMBDA sum, k : sum + sizes[k], 0, x.selected)
    /\ \A i, j \in DOMAIN x.selected : i < j /\ candidates[x.selected[j]].slice =>
          ~Overlap(candidates[x.selected[i]], candidates[x.selected[j]])
    /\ ~x.truncated => \A k \in DOMAIN candidates : \E j \in ToSet(x.selected) :
          SameSource(candidates[j], candidates[k]) \/ Overlap(candidates[j], candidates[k])
-----------------------------------------------------------------------------
(* GraphExpander.expand(): from the nodes of the hits, along edges that    *)
(* hold up against the nodes they join, level by level, within a budget of *)
(* nodes and of edges.  A graph is a record: edges (a sequence of [from,   *)
(* to, holds], in the order of their identifiers; to is 0 where it is      *)
(* unresolved), chunks (how many chunks of each node can be read), spoilt  *)
(* (how many cannot).  A seed is a node of a hit; its place is its rank.   *)
Start(seeds) ==
    [visited |-> ToSet(seeds), items |-> <<>>, inspected |-> {}, following |-> <<>>,
     unresolved |-> 0, rejected |-> 0, truncated |-> FALSE]

Ends(graph, e, origin, direction) ==
    \/ direction \in {"outbound", "both"} /\ graph.edges[e].from = origin
    \/ direction \in {"inbound", "both"} /\ graph.edges[e].to = origin

Other(graph, e, origin, direction) ==
    IF graph.edges[e].from = origin /\ direction # "inbound" THEN graph.edges[e].to ELSE graph.edges[e].from

(* Mutant: a node that was seen is taken again.                            *)
AdmitAgain(x, node, origin, seed, e, nodeBudget) ==
    IF Len(x.items) = nodeBudget THEN [x EXCEPT !.truncated = TRUE]
    ELSE [x EXCEPT !.visited = @ \cup {node}, !.following = Append(@, [node |-> node, seed |-> seed]),
                   !.items = Append(@, [node |-> node, seed |-> seed, edge |-> e])]

(* A node that is new is an item of the answer and the next level's.       *)
Admit(x, node, origin, seed, e, nodeBudget) ==
    IF node \in x.visited THEN x
    ELSE IF Len(x.items) = nodeBudget THEN [x EXCEPT !.truncated = TRUE]
    ELSE [x EXCEPT !.visited = @ \cup {node}, !.following = Append(@, [node |-> node, seed |-> seed]),
                   !.items = Append(@, [node |-> node, seed |-> seed, edge |-> e])]

(* An edge is inspected once, from the first origin that reaches it.       *)
Inspect(graph, x, at, e, direction, nodeBudget, edgeBudget) ==
    IF x.truncated \/ ~Ends(graph, e, at.node, direction) \/ e \in x.inspected THEN x
    ELSE IF Cardinality(x.inspected) = edgeBudget THEN [x EXCEPT !.truncated = TRUE]
    ELSE LET seen == [x EXCEPT !.inspected = @ \cup {e}] IN
         IF graph.edges[e].to = 0 THEN [seen EXCEPT !.unresolved = @ + 1]
         ELSE IF ~graph.edges[e].holds THEN [seen EXCEPT !.rejected = @ + 1]
         ELSE Admit(seen, Other(graph, e, at.node, direction), at.node, at.seed, e, nodeBudget)

Level(graph, x, frontier, direction, nodeBudget, edgeBudget) ==
    FoldLeft(LAMBDA y, at : FoldLeft(LAMBDA z, e : Inspect(graph, z, at, e, direction, nodeBudget, edgeBudget),
                                     y, [e \in DOMAIN graph.edges |-> e]),
             [x EXCEPT !.following = <<>>], frontier)

(* expand(): the seeds in the order of their ranks are the first frontier. *)
Expand(graph, seeds, depth, direction, nodeBudget, edgeBudget) ==
    LET first == [Start(seeds) EXCEPT !.following = [k \in DOMAIN seeds |-> [node |-> seeds[k], seed |-> k]]]
        walk[d \in 0..depth] ==
            IF d = 0 THEN first
            ELSE IF walk[d - 1].truncated \/ walk[d - 1].following = <<>> THEN walk[d - 1]
            ELSE Level(graph, walk[d - 1], walk[d - 1].following, direction, nodeBudget, edgeBudget)
        x == walk[depth]
        found == {x.items[k].node : k \in DOMAIN x.items}
        cut == \E n \in found : graph.chunks[n] > MaxChunks
    IN [items |-> x.items, inspected |-> x.inspected, truncated |-> x.truncated \/ cut,
        incomplete |-> x.truncated \/ cut, within |-> ~x.truncated,
        degraded |-> x.unresolved + x.rejected > 0 \/ \E n \in found : graph.spoilt[n] > 0 \/ graph.chunks[n] = 0]

-----------------------------------------------------------------------------
(* What can be reached over the edges that hold.                           *)
Joins(graph, direction, n, m) == \E e \in DOMAIN graph.edges :
    /\ graph.edges[e].holds /\ graph.edges[e].to # 0
    /\ \/ direction # "inbound" /\ graph.edges[e].from = n /\ graph.edges[e].to = m
       \/ direction # "outbound" /\ graph.edges[e].to = n /\ graph.edges[e].from = m

Reach(graph, seeds, depth, direction) ==
    LET r[d \in 0..depth] == IF d = 0 THEN ToSet(seeds)
                             ELSE r[d - 1] \cup {m \in DOMAIN graph.chunks : \E n \in r[d - 1] : Joins(graph, direction, n, m)}
    IN r[depth]

(* Every node is found once, over an edge that holds and from a seed that  *)
(* leads to it; the budgets are kept; and an answer that does not say it   *)
(* was cut has found all that can be reached.                              *)
ExpansionIsComplete(graph, seeds, depth, direction, nodeBudget, edgeBudget) ==
    LET x == Expand(graph, seeds, depth, direction, nodeBudget, edgeBudget)
        found == {x.items[k].node : k \in DOMAIN x.items}
    IN /\ Cardinality(found) = Len(x.items) /\ Len(x.items) <= nodeBudget
       /\ Cardinality(x.inspected) <= edgeBudget
       /\ found \subseteq Reach(graph, seeds, depth, direction) \ ToSet(seeds)
       /\ x.within => found = Reach(graph, seeds, depth, direction) \ ToSet(seeds)
       /\ \A k \in DOMAIN x.items :
             /\ graph.edges[x.items[k].edge].holds
             /\ x.items[k].node \in Reach(graph, <<seeds[x.items[k].seed]>>, depth, direction)
       /\ ~x.degraded => \A e \in x.inspected : graph.edges[e].holds
-----------------------------------------------------------------------------
(* The tool code_retrieval.search: a service encodes the query; it answers *)
(* with a vector, takes too long, cannot be reached, or fails in another   *)
(* way; late says when the time of the search was over.                    *)
Encoded(mode) == mode \in {"vector", "hybrid", "hybrid_graph"}
Lost(outcome) == outcome \in {"timeout", "unreachable"}
ToolModes == {"keyword", "vector", "hybrid", "graph", "hybrid_graph"}

(* Mutant of Refusal: the time is not looked at after the encoding.        *)
RefusalInTime(mode, topK, candidateLimit, outcome, late) ==
    CASE mode \notin ToolModes \/ topK \notin 1..MAX_TOP_K \/ candidateLimit < topK -> "invalid_retrieval_options"
      [] Encoded(mode) /\ late = "before" -> "query_deadline_exceeded"
      [] Encoded(mode) /\ outcome \in {"http_error", "invalid"} -> outcome
      [] mode = "vector" /\ Lost(outcome) -> "vector_unavailable"
      [] OTHER -> "none"

Refusal(mode, topK, candidateLimit, outcome, late) ==
    CASE mode \notin ToolModes \/ topK \notin 1..MAX_TOP_K \/ candidateLimit < topK -> "invalid_retrieval_options"
      [] Encoded(mode) /\ late = "before" -> "query_deadline_exceeded"
      [] Encoded(mode) /\ outcome \in {"http_error", "invalid"} -> outcome
      [] late # "never" -> "query_deadline_exceeded"
      [] mode = "vector" /\ Lost(outcome) -> "vector_unavailable"
      [] OTHER -> "none"

(* Mutant of Reached: the vectors of the channel are used all the same.    *)
ReachedAnyway(w, outcome) == w

(* A search without a vector finds the vector channel unavailable.         *)
Reached(w, outcome) == IF Lost(outcome) THEN [w EXCEPT !.vector = "absent"] ELSE w

SearchTool(w, mode, topK, candidateLimit, outcome, late) ==
    IF Refusal(mode, topK, candidateLimit, outcome, late) # "none" THEN <<>>
    ELSE <<Search(Reached(w, outcome), mode, topK, candidateLimit)>>

(* compact_search_payload(): the hits take sizes bytes and the rest head,  *)
(* and what says that hits were left out takes one more.                   *)
Taken(sizes, n) == FoldLeft(LAMBDA sum, k : sum + k, 0, SubSeq(sizes, 1, n))

(* Mutant of Summary: the room of that word is forgotten.                  *)
SummaryOverfull(sizes, head, limit) ==
    IF head + Taken(sizes, Len(sizes)) <= limit THEN [kept |-> Len(sizes), truncated |-> FALSE]
    ELSE [kept |-> Max({0} \cup {n \in 0..(Len(sizes) - 1) : head + Taken(sizes, n) <= limit}), truncated |-> TRUE]

Summary(sizes, head, limit) ==
    IF head + Taken(sizes, Len(sizes)) <= limit THEN [kept |-> Len(sizes), truncated |-> FALSE]
    ELSE [kept |-> Max({0} \cup {n \in 0..(Len(sizes) - 1) : head + 1 + Taken(sizes, n) <= limit}), truncated |-> TRUE]

(* A hybrid search that has lost its vectors answers what the keywords     *)
(* find and says that it is degraded; nothing is answered out of time; and *)
(* only a search of the vectors alone is refused for want of one.          *)
ToolIsHonest(w, mode, topK, candidateLimit, outcome, late) ==
    \A answer \in {SearchTool(w, mode, topK, candidateLimit, outcome, late)} :
    /\ late # "never" => answer = <<>>
    /\ late = "never" /\ mode \in ToolModes /\ topK \in 1..MAX_TOP_K /\ topK <= candidateLimit
       /\ ~(Encoded(mode) /\ outcome \in {"http_error", "invalid"}) =>
          (answer = <<>> <=> mode = "vector" /\ Lost(outcome))
    /\ answer # <<>> /\ mode = "hybrid" /\ Lost(outcome) =>
          answer[1].degraded /\ answer[1].hits = Keyword(w, topK).hits
    /\ answer # <<>> /\ mode = "hybrid_graph" /\ Lost(outcome) => answer[1].degraded

(* What the model is told of a search: hits from the first on, as many as  *)
(* there is room for, and a word when there are more.                      *)
SummaryIsHonest(sizes, head, limit) ==
    \A summary \in {Summary(sizes, head, limit)} :
    /\ summary.truncated <=> summary.kept < Len(sizes) \/ head + Taken(sizes, Len(sizes)) > limit
    /\ summary.kept > 0 => head + (IF summary.truncated THEN 1 ELSE 0) + Taken(sizes, summary.kept) <= limit
    /\ summary.truncated /\ summary.kept + 1 < Len(sizes) => head + 1 + Taken(sizes, summary.kept + 1) > limit

-----------------------------------------------------------------------------
(* Which code the diagnoses of one incident may read.  A row of the        *)
(* bindings has a session ("none" when there is none), a repository, a     *)
(* snapshot of it and the generation it had when it was bound.             *)

(* Mutant of Bind: a row is never replaced.                                *)
BindAgain(rows, row) == rows \cup {row}

(* bind_incident(): a row of the same session and repository is replaced;  *)
(* rows without a session are not, NULL being unlike NULL.                 *)
Bind(rows, row) ==
    {r \in rows : r.session = "none" \/ r.session # row.session \/ r.repository # row.repository} \cup {row}

(* Mutant of BoundIdentity: of several generations the newest counts.      *)
NewestIdentity(rows, repository, snapshot) ==
    LET bound == {r.generation : r \in {b \in rows : b.repository = repository /\ b.snapshot = snapshot}}
    IN IF bound = {} THEN {} ELSE {Max(bound)}

(* _bound_identity(): more than one generation is ambiguous.               *)
BoundIdentity(rows, repository, snapshot) ==
    LET bound == {r.generation : r \in {b \in rows : b.repository = repository /\ b.snapshot = snapshot}}
    IN IF Cardinality(bound) = 1 THEN bound ELSE {}

Selected(rows, allowed, asked) ==
    {[repository |-> r.repository, snapshot |-> r.snapshot, generation |-> r.generation] :
        r \in {b \in rows : b.repository \in allowed /\ \A key \in DOMAIN asked : asked[key] = b[key]}}

(* Mutant of ScopeOf: one of several is taken.                             *)
AnyScopeOf(rows, allowed, asked) ==
    LET selected == Selected(rows, allowed, asked) IN IF selected = {} THEN {} ELSE {CHOOSE s \in selected : TRUE}

(* IncidentRetrievalTools.scope(): the caller may name the repository and  *)
(* the snapshot, and is refused unless that leaves one.                    *)
ScopeOf(rows, allowed, asked) ==
    LET selected == Selected(rows, allowed, asked)
    IN IF Cardinality(selected) = 1 THEN selected ELSE {}

(* rehydrate(): what evidence refers to is read again in its generation,   *)
(* which must be the one bound; archive says what is there now.            *)
Rehydrated(rows, evidence, archive) ==
    IF /\ BoundIdentity(rows, evidence.repository, evidence.snapshot) = {evidence.generation}
       /\ archive[evidence.generation] = evidence.content
    THEN {archive[evidence.generation]} ELSE {}

(* A session has of a repository one binding.                              *)
BindingsAreOne(rows) ==
    \A r, s \in rows : r.session = s.session /\ r.repository = s.repository /\ r.session # "none" => r = s

(* What a search finds in its scope can be read under the same bindings.   *)
ScopeIsReadable(rows, allowed, asked) ==
    \A scope \in ScopeOf(rows, allowed, asked) :
        /\ scope.repository \in allowed
        /\ BoundIdentity(rows, scope.repository, scope.snapshot) = {scope.generation}

(* What was shown of the scope of a search is read again while the archive *)
(* has it unchanged, until a session of the incident is bound to another   *)
(* generation of its snapshot or none is bound to it any more.             *)
EvidenceStaysReadable(rows, row, allowed, asked, shown, archive) ==
    \A scope \in ScopeOf(rows, allowed, asked) :
        LET evidence == [repository |-> scope.repository, snapshot |-> scope.snapshot,
                         generation |-> scope.generation, content |-> shown[scope.generation]]
            unchanged == archive[scope.generation] = shown[scope.generation]
            OfSnapshot(r) == r.repository = scope.repository /\ r.snapshot = scope.snapshot
            Stays(r) == row.repository = scope.repository => r.session = "none" \/ r.session # row.session
        IN /\ Rehydrated(rows, evidence, archive) # {} <=> unchanged
           /\ Rehydrated(Bind(rows, row), evidence, archive) # {} <=>
                 /\ unchanged
                 /\ OfSnapshot(row) => row.generation = scope.generation
                 /\ OfSnapshot(row) \/ \E r \in rows : OfSnapshot(r) /\ Stays(r)

(* After any bindings, of which the last one holds.                        *)
ReadsAreBound(binds, allowed, asked, shown, archive) ==
    \A rows \in {FoldLeft(Bind, {}, binds)} :
    /\ BindingsAreOne(rows) /\ ScopeIsReadable(rows, allowed, asked)
    /\ binds # <<>> =>
          /\ Last(binds) \in rows
          /\ EvidenceStaysReadable(FoldLeft(Bind, {}, Front(binds)), Last(binds), allowed, asked, shown, archive)
=============================================================================
