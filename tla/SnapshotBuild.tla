---------------------------- MODULE SnapshotBuild ----------------------------
(***************************************************************************)
(* The facts of one commit: which files of its tree are read, what of each *)
(* is taken from an earlier build of the same content, the rows that are   *)
(* staged for the snapshot, and what a call in a Python file is taken to   *)
(* mean, without running any of it.                                        *)
(*                                                                         *)
(* A tree is a sequence of entries [path, language, object, size, blob]:   *)
(* the language is "python", "other" (one of the supported) or "none", the *)
(* object "blob", "link", "submodule", "strange" or "badpath".  Content    *)
(* gives the facts of a blob: whether it parses, and its symbols           *)
(* [name, kind, first, last, parent, pieces], the parent a place of the    *)
(* sequence or 0.                                                          *)
(*                                                                         *)
(* A statement is [binds, kind, ...]: "def" (end), "from" (module, level,  *)
(* name), "import" (module, renamed), or "other"; a module is the sequence *)
(* of its names.  An expression is [kind, base, attr]: "name", "attribute" *)
(* or "other".  A file is [module, init, test, body, symbols], a symbol    *)
(* [id, name, end], its name the sequence of the names it is within.       *)
(***************************************************************************)
EXTENDS Integers, Sequences, FiniteSets, SequencesExt, FiniteSetsExt

CONSTANTS Content, MaxFiles, MaxFileBytes, MaxTextBytes

(* What a parser finds in a file is within a symbol of that file or in     *)
(* none; a tree has a path once; and a path says the language              *)
(* (language_for_path).                                                    *)
ContentHolds == \A blob \in DOMAIN Content : \A k \in DOMAIN Content[blob].symbols :
    Content[blob].symbols[k].parent \in {0} \cup DOMAIN Content[blob].symbols
IsTree(tree) ==
    /\ \A k \in DOMAIN tree : tree[k].blob \in DOMAIN Content
    /\ \A j, k \in DOMAIN tree : tree[j].path = tree[k].path => j = k
SameLanguages(before, tree) == \A d \in ToSet(before), e \in ToSet(tree) : d.path = e.path => d.language = e.language

-----------------------------------------------------------------------------
(* list_tree(): every blob counts, one of no language too.                 *)
Included(entry) == entry.object = "blob"
Blobs(tree) == SelectSeq(tree, Included)
TextBytes(tree) == FoldLeft(LAMBDA sum, entry : sum + entry.size, 0, Blobs(tree))
OverBudget(tree) ==
    \/ \E k \in DOMAIN Blobs(tree) : Blobs(tree)[k].size > MaxFileBytes
    \/ Len(Blobs(tree)) > MaxFiles \/ TextBytes(tree) > MaxTextBytes

(* A revision that is "python" reads no other language.                    *)
Read(tree, lease) ==
    {e \in ToSet(tree) : Included(e) /\ (e.language = "python" \/ (lease.multi /\ e.language = "other"))}

-----------------------------------------------------------------------------
(* identity.py: equal identities are equal values.                         *)
SnapshotId(lease) == <<lease.repository, lease.commit, lease.parser, lease.rules>>
NodeId(scope, path, symbol) == <<scope, path, symbol.kind, symbol.name, symbol.first, symbol.last>>
ChunkId(node, piece) == <<node, piece.from, piece.to>>

(* parse_file() of either parser: facts of a file, of no snapshot yet.     *)
FileFacts == "file-facts"
Node(scope, path, symbol) ==
    [id |-> NodeId(scope, path, symbol), scope |-> scope, path |-> path, name |-> symbol.name, kind |-> symbol.kind,
     first |-> symbol.first, last |-> symbol.last]
Parse(entry) ==
    LET facts == Content[entry.blob]
        id(k) == NodeId(FileFacts, entry.path, facts.symbols[k])
        all == IF facts.parses THEN DOMAIN facts.symbols ELSE {}
    IN [path |-> entry.path, blob |-> entry.blob, parses |-> facts.parses, tree |-> entry.language = "python",
        nodes |-> {Node(FileFacts, entry.path, facts.symbols[k]) : k \in all},
        chunks |-> UNION {{[id |-> ChunkId(id(k), piece), node |-> id(k), scope |-> FileFacts, path |-> entry.path,
                            from |-> piece.from, to |-> piece.to] : piece \in facts.symbols[k].pieces} : k \in all},
        parents |-> {<<id(k), id(facts.symbols[k].parent)>> : k \in {j \in all : facts.symbols[j].parent # 0}}]

(* Mutant: a blob has the facts of the file it was first seen in.          *)
KeyOfContent(entry, lease) == <<entry.blob, lease.parser, lease.rules>>

(* AstFactKey; module_root is always empty.                                *)
Key(entry, lease) == <<entry.blob, entry.path, lease.parser, lease.rules>>

(* get() or put(): the cache is a function of the keys it has.             *)
Facts(cache, entry, lease) == IF Key(entry, lease) \in DOMAIN cache THEN cache[Key(entry, lease)] ELSE Parse(entry)
Cached(cache, tree, lease) ==
    [key \in DOMAIN cache \cup {Key(e, lease) : e \in Read(tree, lease)} |->
        IF key \in DOMAIN cache THEN cache[key] ELSE Parse(CHOOSE e \in Read(tree, lease) : Key(e, lease) = key)]

(* _rebind(): the same facts, of a snapshot.                               *)
Rename(snapshot, id) == <<snapshot, id[2], id[3], id[4], id[5], id[6]>>
Rebind(parsed, snapshot) ==
    [parsed EXCEPT !.nodes = {[n EXCEPT !.id = Rename(snapshot, n.id), !.scope = snapshot] : n \in @},
                   !.chunks = {[c EXCEPT !.id = ChunkId(Rename(snapshot, c.node), c), !.node = Rename(snapshot, c.node),
                                         !.scope = snapshot] : c \in @},
                   !.parents = {<<Rename(snapshot, p[1]), Rename(snapshot, p[2])>> : p \in @}]

-----------------------------------------------------------------------------
(* build(): a file that does not parse is left out; relations come from    *)
(* the resolver of Python only where every file is Python.                 *)
Output(lease, tree, files, failed) ==
    [snapshot |-> SnapshotId(lease),
     nodes |-> UNION {f.nodes : f \in files}, chunks |-> UNION {f.chunks : f \in files},
     contains |-> UNION {f.parents : f \in files}, files |-> {<<f.path, f.blob>> : f \in files},
     failed |-> {f.path : f \in failed}, count |-> Cardinality(files),
     resolver |-> IF \A f \in files : f.tree THEN "RelationResolver" ELSE "MultiLanguageParser",
     status |-> IF failed # {} \/ files = {} \/ (\A f \in files : f.nodes = {}) THEN "partial" ELSE "building"]

Staged(lease, tree, parsed) == Output(lease, tree, {f \in parsed : f.parses}, {f \in parsed : ~f.parses})

Build(lease, tree, cache) ==
    IF OverBudget(tree) THEN [snapshot |-> "budget_exceeded"]
    ELSE Staged(lease, tree, {Rebind(Facts(cache, e, lease), SnapshotId(lease)) : e \in Read(tree, lease)})

NoFacts == [key \in {} |-> 0]

(* Of the facts of an earlier build, an in-process cache keeps what the    *)
(* next may use; a build that is refused read nothing.                     *)
After(lease, tree) == IF OverBudget(tree) THEN NoFacts ELSE Cached(NoFacts, tree, lease)

-----------------------------------------------------------------------------
(* What a name means: the tables of what each scope binds and the lookup   *)
(* in them.                                                                *)
Unresolved(basis) == [target |-> 0, basis |-> basis]
Resolved(target, basis) == [target |-> target, basis |-> basis]

(* bindings(): what a body binds a name to, in order.                      *)
Bindings(body, name) == SelectSeq(body, LAMBDA s : s.binds = name)

(* names[:n]; below zero n counts from the end.                            *)
Prefix(names, n) == SubSeq(names, 1, IF n >= 0 THEN n ELSE Len(names) + n)

(* The module a "from" names: a level counts packages from the file's own. *)
ImportedModule(file, statement) ==
    LET package == IF file.init THEN file.module ELSE Front(file.module)
    IN IF statement.level = 0 THEN statement.module
       ELSE Prefix(package, Len(package) - statement.level + 1) \o statement.module

(* external(): the one symbol of the one file that is the module, if the   *)
(* file binds its name once; 0 where there is no such symbol.              *)
SymbolOf(file, name) ==
    LET found == SelectSeq(file.symbols, LAMBDA s : s.name = <<name>>)
    IN IF Len(found) = 1 /\ Len(Bindings(file.body, name)) = 1 THEN found[1].id ELSE 0

External(files, module, name) ==
    LET candidates == SelectSeq(files, LAMBDA f : f.module = module)
    IN IF Len(candidates) = 1 THEN SymbolOf(candidates[1], name) ELSE 0

(* Two definitions of one name that end on one line cannot be told apart.  *)
LocalSymbol(file, name, end) ==
    LET found == SelectSeq(file.symbols, LAMBDA s : s.name = name /\ s.end = end)
    IN IF found = <<>> THEN 0 ELSE Last(found).id

Meant(files, file, expr, prefix, s) ==
    CASE s.kind = "from" /\ expr.kind = "name" /\ s.name # "*" ->
            Resolved(External(files, ImportedModule(file, s), s.name), "explicit_import_alias")
      [] s.kind = "import" /\ expr.kind = "attribute" -> Resolved(External(files, s.module, expr.attr), "module_attribute")
      [] s.kind = "def" /\ expr.kind = "name" ->
            Resolved(LocalSymbol(file, Append(prefix, expr.base), s.end), "lexical_binding")
      [] OTHER -> Unresolved("shadowed_or_dynamic")

(* Mutant: the last of several bindings is taken.                          *)
ChooseLast(files, file, expr, prefix, values) == Meant(files, file, expr, prefix, Last(values))

Choose(files, file, expr, prefix, values) ==
    IF Len(values) # 1 THEN Unresolved("ambiguous_binding") ELSE Meant(files, file, expr, prefix, values[1])

(* Within a function its own bindings and its parameters are asked first;  *)
(* what a class binds is not asked.  A scope is [body, prefix], the last   *)
(* is the innermost.                                                       *)
Argument(name) == [binds |-> name, kind |-> "other"]
Nested(scopes, node) ==
    IF node.class THEN scopes
    ELSE Append(scopes, [prefix |-> node.qualified,
                         body |-> node.body \o [k \in DOMAIN node.arguments |-> Argument(node.arguments[k])]])

(* resolve(): the innermost scope that binds the name decides.             *)
Resolve(files, file, expr, scopes) ==
    LET binding == {k \in DOMAIN scopes : expr.kind # "other" /\ Bindings(scopes[k].body, expr.base) # <<>>}
        inner == CHOOSE k \in binding : \A j \in binding : j <= k
    IN IF binding = {} THEN Unresolved("dynamic_or_unknown")
       ELSE Choose(files, file, expr, scopes[inner].prefix, Bindings(scopes[inner].body, expr.base))

(* emit() of a call: what is known of it, and from an import and in a test *)
(* two edges more.                                                         *)
Edge(from, relation, to, basis) == [from |-> from, relation |-> relation, to |-> to, basis |-> basis]
Emit(file, owner, relation, meaning) ==
    LET known == relation = "calls" /\ meaning.target # 0
    IN {Edge(owner, relation, meaning.target, meaning.basis)}
       \cup (IF known /\ meaning.basis = "explicit_import_alias" THEN {Edge(owner, "imports", meaning.target, meaning.basis)} ELSE {})
       \cup (IF known /\ file.test THEN {Edge(meaning.target, "tested_by", owner, "static_test_call")} ELSE {})

(* MultiLanguageParser.resolve_edges(), of a repository with one file that *)
(* is not Python: the last symbol of that name anywhere, whatever the file *)
(* binds it to, unless the caller has a parameter of that name.            *)
ByName(files, token, owner, parameters) ==
    LET all == FlattenSeq([k \in DOMAIN files |-> SelectSeq(files[k].symbols, LAMBDA s : s.name = <<token>>)])
    IN IF all = <<>> \/ Last(all).id = owner \/ token \in parameters THEN {}
       ELSE {Edge(owner, "calls", Last(all).id, "tree-sitter")}

-----------------------------------------------------------------------------
(* The rows of a snapshot are of it alone and hang together, and every     *)
(* file that was read is there whole or is named as one that failed.       *)
RowsAreSound(lease, tree, output) ==
    LET ids == {n.id : n \in output.nodes}
        read == {e.path : e \in Read(tree, lease)}
    IN /\ \A n \in output.nodes : n.scope = output.snapshot /\ n.id = NodeId(n.scope, n.path, n)
       /\ Cardinality(ids) = Cardinality(output.nodes)
       /\ \A c \in output.chunks : c.node \in ids /\ c.scope = output.snapshot /\ c.id[1] = c.node
       /\ \A p \in output.contains : {p[1], p[2]} \subseteq ids /\ p[1][2] = p[2][2]
       /\ {f[1] : f \in output.files} \cup output.failed = read /\ {f[1] : f \in output.files} \cap output.failed = {}
       /\ \A n \in output.nodes : n.path \notin output.failed
       /\ output.status = "building" => output.failed = {} /\ output.nodes # {}
       /\ output.resolver = "RelationResolver" =>
             \A e \in ToSet(tree) : e.language = "other" => e.path \notin {f[1] : f \in output.files}

(* What an earlier commit left in the cache changes nothing, whatever was  *)
(* added, taken away, changed or renamed since.                            *)
BuildIsSound(lease, before, tree) == \A output \in {Build(lease, tree, NoFacts)} :
    /\ Build(lease, tree, After([lease EXCEPT !.commit = "earlier"], before)) = output
    /\ IF OverBudget(tree) THEN output.snapshot = "budget_exceeded" ELSE RowsAreSound(lease, tree, output)

(* What Python means by a name: the only binding of it in the innermost    *)
(* function or module around the call that binds it.                       *)
Wanted(s, expr) == IF s.kind = "from" THEN s.name ELSE expr.attr
IsMeant(files, file, expr, scopes, target) ==
    \E k \in DOMAIN scopes : \E s \in ToSet(scopes[k].body) :
        /\ s.binds = expr.base /\ Cardinality({i \in DOMAIN scopes[k].body : scopes[k].body[i].binds = expr.base}) = 1
        /\ \A j \in (k + 1)..Len(scopes) : \A t \in ToSet(scopes[j].body) : t.binds # expr.base
        /\ \/ s.kind = "def" /\ expr.kind = "name" /\ \E y \in ToSet(file.symbols) : y.id = target /\ y.name = Append(scopes[k].prefix, expr.base)
           \/ /\ \/ s.kind = "from" /\ expr.kind = "name"
                 \/ s.kind = "import" /\ expr.kind = "attribute" /\ (s.renamed \/ Len(s.module) = 1)
              /\ \E f \in ToSet(files) :
                    /\ f.module = IF s.kind = "from" THEN ImportedModule(file, s) ELSE s.module
                    /\ \A g \in ToSet(files) : g.module = f.module => g = f
                    /\ Cardinality({i \in DOMAIN f.body : f.body[i].binds = Wanted(s, expr)}) = 1
                    /\ \E y \in ToSet(f.symbols) : y.id = target /\ y.name = <<Wanted(s, expr)>>

(* "import a.b" binds a, and is taken for a.b.                             *)
Told(scopes) == \A k \in DOMAIN scopes : \A s \in ToSet(scopes[k].body) :
    s.kind = "import" => s.renamed \/ Len(s.module) = 1

(* An edge that is said to be resolved is one the language means; a test   *)
(* is the end of no other edge than the one that says so.                  *)
ResolvedIsMeant(files, file, expr, scopes, owner) ==
    Told(scopes) => \A meaning \in {Resolve(files, file, expr, scopes)} :
        /\ meaning.target # 0 => IsMeant(files, file, expr, scopes, meaning.target)
        /\ \A relation \in {"calls", "inherits"} : \A e \in Emit(file, owner, relation, meaning) :
              IF e.relation = "tested_by" THEN file.test /\ relation = "calls" /\ e.to = owner /\ e.from # 0 /\ e.from = meaning.target
              ELSE e.from = owner /\ e.to = meaning.target /\ (e.relation = "imports" => meaning.target # 0)

(* Where a name is that of one symbol alone, and bound only where that is  *)
(* defined, going by names finds the same as going by scopes.              *)
NamesAgree(files, file, token, scopes, owner, parameters) ==
    LET symbols == FlattenSeq([k \in DOMAIN files |-> SelectSeq(files[k].symbols, LAMBDA s : s.name = <<token>>)])
        bound == {k \in DOMAIN scopes : Bindings(scopes[k].body, token) # <<>>}
        expr == [kind |-> "name", base |-> token, attr |-> token]
    IN /\ Len(symbols) = 1 /\ symbols[1] \in ToSet(file.symbols) /\ bound = {1} /\ Len(Bindings(file.body, token)) = 1
       /\ owner # symbols[1].id
       => ByName(files, token, owner, parameters) =
             IF token \in parameters THEN {} ELSE {Edge(owner, "calls", Resolve(files, file, expr, scopes).target, "tree-sitter")}
=============================================================================
