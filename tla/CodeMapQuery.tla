----------------------------- MODULE CodeMapQuery -----------------------------
(***************************************************************************)
(* What is read of a published snapshot: symbols by name, the neighbours   *)
(* of a symbol, the source of a chunk.                                     *)
(*                                                                         *)
(* A store is [snapshots, nodes, edges, chunks]: a snapshot has repository *)
(* and status, a node snapshot and name, a chunk snapshot, node, intact    *)
(* (its bytes still have its hash) and whole (they are whole characters),  *)
(* all by their ids, the numbers 1, 2, ..; an edge is [snapshot, from, to, *)
(* relation], to is 0 where it is not resolved.                            *)
(***************************************************************************)
EXTENDS Integers, Sequences, FiniteSets, SequencesExt, FiniteSetsExt

CONSTANTS MaxInspected,  \* 1000: the edges one query may look at
          MaxDepth, MaxNodes,  \* 3 and 200
          Relations

Refused(code) == [error |-> code, items |-> <<>>, incomplete |-> FALSE]
Answer(items, incomplete) == [error |-> "none", items |-> items, incomplete |-> incomplete]

(* _snapshot_scope_error()                                                 *)
Allowed(store, allowed, repository, snapshot) ==
    /\ repository \in allowed /\ snapshot \in DOMAIN store.snapshots
    /\ store.snapshots[snapshot].repository = repository /\ store.snapshots[snapshot].status = "ready"

NodesOf(store, snapshot) == {n \in DOMAIN store.nodes : store.nodes[n].snapshot = snapshot}
Ascending(set) == SetToSortSeq(set, LAMBDA a, b : a < b)

(* A node has a row for each of its chunks, or one without.                *)
RowsOf(store, n) ==
    LET chunks == {c \in DOMAIN store.chunks : store.chunks[c].node = n /\ store.chunks[c].snapshot = store.nodes[n].snapshot}
    IN IF chunks = {} THEN <<<<n, 0>>>> ELSE [k \in 1..Cardinality(chunks) |-> <<n, Ascending(chunks)[k]>>]

(* find_symbols(): the limit is of rows.                                   *)
FindSymbols(store, allowed, repository, snapshot, name, limit) ==
    IF ~Allowed(store, allowed, repository, snapshot) THEN Refused("scope_mismatch")
    ELSE LET named == Ascending({n \in NodesOf(store, snapshot) : store.nodes[n].name = name})
             rows == FlattenSeq([k \in DOMAIN named |-> RowsOf(store, named[k])])
         IN Answer(SubSeq(rows, 1, Min({limit, Len(rows)})), FALSE)

(* read_source(): bytes that a cut has left with a part of a character     *)
(* (SourceChunks) are decoded strictly, and the error is raised.           *)
ReadSource(store, allowed, repository, snapshot, chunk) ==
    IF ~Allowed(store, allowed, repository, snapshot) THEN Refused("scope_mismatch")
    ELSE IF chunk \notin DOMAIN store.chunks \/ store.chunks[chunk].snapshot # snapshot THEN Refused("source_not_found")
    ELSE IF ~store.chunks[chunk].intact THEN Refused("hash_mismatch")
    ELSE IF ~store.chunks[chunk].whole THEN Refused("UnicodeDecodeError")
    ELSE Answer(<<chunk>>, FALSE)

-----------------------------------------------------------------------------
(* get_neighbors()                                                         *)
Columns(direction) ==
    CASE direction = "outbound" -> <<"from">> [] direction = "inbound" -> <<"to">> [] direction = "both" -> <<"from", "to">>

(* One query: the other ends of a node's edges, a row for each edge.       *)
Found(store, snapshot, relations, source, column) ==
    LET hit == {e \in DOMAIN store.edges :
                  /\ store.edges[e].snapshot = snapshot /\ store.edges[e].relation \in relations
                  /\ store.edges[e][column] = source
                  /\ (IF column = "from" THEN store.edges[e].to ELSE store.edges[e].from) \in NodesOf(store, snapshot)}
        other(e) == IF column = "from" THEN store.edges[e].to ELSE store.edges[e].from
    IN SetToSortSeq({<<other(e), e>> : e \in hit}, LAMBDA a, b : a[1] < b[1] \/ (a[1] = b[1] /\ a[2] < b[2]))

Limited(rows, inspected) == SubSeq(rows, 1, Min({Len(rows), Max({1, MaxInspected + 1 - inspected})}))

Walk(node) == [visited |-> {node}, following |-> <<>>, items |-> <<>>, inspected |-> 0, limited |-> FALSE]

(* Mutant: a budget that is used up is not told.                           *)
VisitSilently(w, row, budget) ==
    IF w.limited \/ row[1] \in w.visited \/ Len(w.items) >= budget THEN w
    ELSE [w EXCEPT !.inspected = @ + 1, !.visited = @ \cup {row[1]}, !.following = Append(@, row[1]), !.items = Append(@, row[1])]

Visit(w, row, budget) ==
    LET looked == [w EXCEPT !.inspected = @ + 1]
    IN CASE w.limited -> w
         [] ~w.limited /\ looked.inspected > MaxInspected -> [looked EXCEPT !.limited = TRUE]
         [] ~w.limited /\ looked.inspected <= MaxInspected ->
              IF row[1] \in w.visited THEN looked
              ELSE IF Len(w.items) >= budget THEN [looked EXCEPT !.limited = TRUE]
              ELSE [looked EXCEPT !.visited = @ \cup {row[1]}, !.following = Append(@, row[1]), !.items = Append(@, row[1])]

Query(store, snapshot, relations, budget, w, source, column) ==
    IF w.limited THEN w
    ELSE FoldLeft(LAMBDA x, row : Visit(x, row, budget), w,
                  Limited(Found(store, snapshot, relations, source, column), w.inspected))

(* The nodes of a level, each in every direction that is asked for.        *)
Asked(frontier, direction) ==
    FlattenSeq([k \in DOMAIN frontier |-> [c \in DOMAIN Columns(direction) |-> <<frontier[k], Columns(direction)[c]>>]])
Level(store, snapshot, relations, direction, budget, w) ==
    FoldLeft(LAMBDA x, at : Query(store, snapshot, relations, budget, x, at[1], at[2]),
             [w EXCEPT !.following = <<>>], Asked(w.following, direction))

Levels(store, snapshot, relations, direction, budget, first, depth) ==
    FoldLeft(LAMBDA w, d : IF w.limited \/ w.following = <<>> THEN w ELSE Level(store, snapshot, relations, direction, budget, w),
             first, [d \in 1..depth |-> d])

Outcome(w) == Answer(w.items, w.limited)

GetNeighbors(store, allowed, repository, snapshot, node, q) ==
    CASE ~Allowed(store, allowed, repository, snapshot) -> Refused("scope_mismatch")
      [] OTHER ->
            IF q.depth \notin 1..MaxDepth \/ q.budget \notin 1..MaxNodes THEN Refused("invalid_arguments")
            ELSE IF q.relations = {} \/ ~q.relations \subseteq Relations THEN Refused("relation_not_available")
            ELSE IF node \notin NodesOf(store, snapshot) THEN Refused("source_not_found")
            ELSE Outcome(Levels(store, snapshot, q.relations, q.direction, q.budget,
                                [Walk(node) EXCEPT !.following = <<node>>], q.depth))

-----------------------------------------------------------------------------
(* The nodes that are at most so many edges away.                          *)
Joined(store, snapshot, q, a, b) == \E e \in ToSet(store.edges) :
    /\ e.snapshot = snapshot /\ e.relation \in q.relations
    /\ (q.direction # "inbound" /\ e.from = a /\ e.to = b) \/ (q.direction # "outbound" /\ e.to = a /\ e.from = b)
Near(store, snapshot, node, q) ==
    LET near[d \in 0..q.depth] ==
            IF d = 0 THEN {node}
            ELSE near[d - 1] \cup {b \in NodesOf(store, snapshot) : \E a \in near[d - 1] : Joined(store, snapshot, q, a, b)}
    IN near[q.depth] \ {node}

(* What a query answers is of the snapshot it was asked of, near, once     *)
(* each and within its budget; what is near and not in it, it says is      *)
(* missing; nothing is answered of a snapshot that is not ready or not of  *)
(* the repository, and no source that has changed; a source that has not   *)
(* is answered, if no character of it was cut.                             *)
QueriesAreSound(store, allowed, repository, snapshot, node, q) ==
    /\ \A answer \in {GetNeighbors(store, allowed, repository, snapshot, node, q)} :
          /\ answer.error = "none" =>
                /\ ToSet(answer.items) \subseteq Near(store, snapshot, node, q)
                /\ Cardinality(ToSet(answer.items)) = Len(answer.items) /\ Len(answer.items) <= q.budget
                /\ ~answer.incomplete => ToSet(answer.items) = Near(store, snapshot, node, q)
          /\ ~Allowed(store, allowed, repository, snapshot) => answer.error = "scope_mismatch"
    /\ \A chunk \in DOMAIN store.chunks \cup {Len(store.chunks) + 1} :
          ReadSource(store, allowed, repository, snapshot, chunk).error = "none" <=>
              /\ chunk \in DOMAIN store.chunks /\ store.chunks[chunk].intact /\ store.chunks[chunk].whole
              /\ store.chunks[chunk].snapshot = snapshot /\ Allowed(store, allowed, repository, snapshot)

(* Every symbol of a name is found when the limit has room for the rows.   *)
SymbolsAreFound(store, allowed, repository, snapshot, name, limit) ==
    \A answer \in {FindSymbols(store, allowed, repository, snapshot, name, limit)} :
        LET named == {n \in NodesOf(store, snapshot) : store.nodes[n].name = name}
            found == {answer.items[k][1] : k \in DOMAIN answer.items}
        IN /\ found \subseteq named /\ Len(answer.items) <= limit
           /\ answer.error = "none" /\ Len(answer.items) < limit => found = named
=============================================================================
