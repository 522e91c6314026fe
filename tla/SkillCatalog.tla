----------------------------- MODULE SkillCatalog -----------------------------
(***************************************************************************)
(* The catalog of skills and tools that is assembled from packages, which  *)
(* skills of it a run may use, the check of a tool's arguments, and the    *)
(* publication of a package.                                               *)
(*                                                                         *)
(* A file is "ok", "missing", "outside", "link" or "large".  A package is  *)
(* [required, trusted, manifest], its manifest [file, fields, id, exports, *)
(* skills], a skill [id, plugin, fields, file, tools, refs], a reference   *)
(* [id, fields, file]; "fields" says that the rest of a record is well     *)
(* formed.  "trusted" gives the tools each trusted module defines.         *)
(***************************************************************************)
EXTENDS Naturals, Sequences, FiniteSets, SequencesExt

CONSTANTS MAX_SKILLS, MAX_REFERENCES,
          Builder,    \* processes that publish one version of one package
          Content,    \* contents its source has had
          MaxBuilds   \* bound: builds

VARIABLES index,      \* release-lock.json of the version: a content, Absent or Torn
          staging,    \* contents with a staging directory
          written,    \* those whose staging directory is complete
          released,   \* contents with a release directory
          builder,    \* [pc, content, outcome] of each
          builds,
          crashed,    \* a builder died
          overlapped, \* two built at a time
          spoiled     \* what has failed of: the write of the "index", the "removal" of a stage

NoProblem == "none"
First(problems) == IF SelectSeq(problems, LAMBDA p : p # NoProblem) = <<>> THEN NoProblem
                   ELSE Head(SelectSeq(problems, LAMBDA p : p # NoProblem))
Unless(holds, problem) == IF holds THEN NoProblem ELSE problem
Distinct(list) == Cardinality(ToSet(list)) = Len(list)
Ids(list) == [k \in DOMAIN list |-> list[k].id]

-----------------------------------------------------------------------------
(* read_plugin_manifest()                                                  *)
ResourceProblem(file) ==
    CASE file = "ok" -> NoProblem [] file = "missing" -> "resource_missing" [] file = "large" -> "resource_too_large"
      [] file \in {"outside", "link"} -> "invalid_manifest"

ReferenceProblem(reference) ==
    IF ResourceProblem(reference.file) # NoProblem THEN ResourceProblem(reference.file) ELSE Unless(reference.fields, "invalid_manifest")

SkillProblem(plugin, skill) ==
    First(<<Unless(skill.fields /\ skill.plugin = plugin, "invalid_manifest"), ResourceProblem(skill.file),
            Unless(Len(skill.refs) <= MAX_REFERENCES, "invalid_manifest"),
            First([k \in DOMAIN skill.refs |-> ReferenceProblem(skill.refs[k])]),
            Unless(Distinct(Ids(skill.refs)), "invalid_manifest")>>)

ManifestProblem(m) ==
    First(<<ResourceProblem(m.file),
            Unless(m.fields /\ Distinct(m.exports) /\ Len(m.skills) \in 1..MAX_SKILLS, "invalid_manifest"),
            First([k \in DOMAIN m.skills |-> SkillProblem(m.id, m.skills[k])]),
            Unless(Distinct(Ids(m.skills)), "invalid_manifest")>>)

-----------------------------------------------------------------------------
(* assemble_plugins().  A module that is not trusted has no entry.         *)
Exports(package) ==
    FlattenSeq([k \in DOMAIN package.manifest.exports |-> package.trusted[package.manifest.exports[k]]])

PackageProblem(base, package) ==
    IF ManifestProblem(package.manifest) # NoProblem THEN ManifestProblem(package.manifest)
    ELSE IF ~ToSet(package.manifest.exports) \subseteq DOMAIN package.trusted THEN "invalid_manifest"
    ELSE IF ToSet(Exports(package)) \cap base # {} \/ ~Distinct(Exports(package)) THEN "invalid_manifest"
    ELSE Unless(\A k \in DOMAIN package.manifest.skills :
                    package.manifest.skills[k].tools \subseteq base \cup ToSet(Exports(package)), "missing_tool_dependency")

Names(package) ==
    {<<"plugin", package.manifest.id>>} \cup {<<"skill", package.manifest.id, id>> : id \in ToSet(Ids(package.manifest.skills))}
    \cup {<<"tool", tool>> : tool \in ToSet(Exports(package))}

(* Mutant: of two packages with a name in common the earlier is kept.      *)
ConflictsLater(packages, candidates) ==
    {k \in candidates : \E j \in candidates : j < k /\ Names(packages[j]) \cap Names(packages[k]) # {}}

(* Every package with a name that another candidate has is left out.       *)
Conflicts(packages, candidates) ==
    {k \in candidates : \E j \in candidates \ {k} : Names(packages[j]) \cap Names(packages[k]) # {}}

Sound(problems) == {k \in DOMAIN problems : problems[k] = NoProblem}

Catalog(base, packages, problems, conflicting, kept) ==
    [built |-> \A k \in DOMAIN packages : packages[k].required => k \in kept,
     problems |-> {<<packages[k], problems[k]>> : k \in DOMAIN packages \ Sound(problems)}
                  \cup {<<packages[k], "invalid_manifest">> : k \in conflicting},
     skills |-> UNION {ToSet(packages[k].manifest.skills) : k \in kept},
     tools |-> base \cup UNION {ToSet(Exports(packages[k])) : k \in kept}]

Admit(base, packages, problems, conflicting) ==
    Catalog(base, packages, problems, conflicting, Sound(problems) \ conflicting)

Resolve(base, packages, problems) == Admit(base, packages, problems, Conflicts(packages, Sound(problems)))

Assemble(base, packages) == Resolve(base, packages, [k \in DOMAIN packages |-> PackageProblem(base, packages[k])])

(* check_availability(): policy [disabled, allowed, readOnly, approval];   *)
(* of a tool it matters whether it writes and whether it asks.             *)
Reasons(catalog, skill, policy, writes, asks) ==
    LET reason(tool) ==
            CASE tool \notin catalog.tools -> "missing_tool_dependency"
              [] tool \in catalog.tools /\ tool \notin policy.allowed -> "tool_not_allowed"
              [] tool \in catalog.tools \cap policy.allowed /\ policy.readOnly /\ tool \in writes -> "read_only_required"
              [] tool \in catalog.tools \cap policy.allowed /\ ~(policy.readOnly /\ tool \in writes) ->
                    Unless(policy.approval \/ tool \notin asks, "approval_not_allowed")
    IN ({reason(tool) : tool \in skill.tools} \cup (IF skill \in policy.disabled THEN {"skill_disabled"} ELSE {})) \ {NoProblem}

-----------------------------------------------------------------------------
(* Arguments.  A parameter is [type, optional, default]: the type that is  *)
(* annotated, "any", or one that has no schema; whether it may be None;    *)
(* whether it has a default.  Parameters are a function of their names.    *)
SchemaType == {"string", "integer", "number", "boolean", "object", "array"}
HasSchema(parameters) == \A name \in DOMAIN parameters : parameters[name].type \in SchemaType \cup {"any"}

InferArgumentSchema(parameters) ==
    [properties |-> [name \in DOMAIN parameters |-> parameters[name].type],
     required |-> {name \in DOMAIN parameters : ~parameters[name].default}]

MatchesType(value, expected) == value = expected \/ (expected = "number" /\ value = "integer")

(* What is given is a function of names, of the types of the values.       *)
ValidateArguments(schema, given) ==
    {<<"missing", name>> : name \in schema.required \ DOMAIN given}
    \cup {<<"unexpected", name>> : name \in DOMAIN given \ DOMAIN schema.properties}
    \cup {<<"type", name>> : name \in {n \in DOMAIN given \cap DOMAIN schema.properties :
            schema.properties[n] # "any" /\ ~MatchesType(given[n], schema.properties[n])}}

-----------------------------------------------------------------------------
(* build_local_package(): the application publishes its skill package      *)
(* whenever a session with a skill is started, and an operator does so     *)
(* from the command line.  The files of a release are written to a staging *)
(* directory, which is renamed to the release, and the version's index     *)
(* then names it.  A release is identified by its content, so a staging    *)
(* directory is too.                                                       *)
Absent == "none"
Torn == "torn"
ConstantsOK == {Absent, Torn} \cap Content = {}

publicationVars == <<index, staging, written, released, builder, builds, crashed, overlapped, spoiled>>

Idle == [pc |-> "idle", content |-> Absent, outcome |-> Absent]

PublicationInit ==
    /\ index = Absent /\ staging = {} /\ written = {} /\ released = {}
    /\ builder = [b \in Builder |-> Idle] /\ builds = 0 /\ crashed = FALSE /\ overlapped = FALSE
    /\ spoiled = {}

Busy(b) == builder[b].pc # "idle"
At(b, pc) == builder[b].pc = pc
Go(b, pc) == builder' = [builder EXCEPT ![b].pc = pc]
Ends(b, outcome) == builder' = [builder EXCEPT ![b].pc = "idle", ![b].outcome = outcome]

StartBuild(b, content) ==
    /\ ~Busy(b) /\ builds < MaxBuilds
    /\ builder' = [builder EXCEPT ![b] = [pc |-> "index", content |-> content, outcome |-> Absent]]
    /\ builds' = builds + 1
    /\ overlapped' = (overlapped \/ \E other \in Builder \ {b} : Busy(other))
    /\ UNCHANGED <<index, staging, written, released, crashed, spoiled>>

(* Mutant: an index that names another release is published over.          *)
CheckNoIndex(b) ==
    /\ At(b, "index")
    /\ IF index = builder[b].content THEN Ends(b, "published") ELSE Go(b, "stage")
    /\ UNCHANGED <<index, staging, written, released, builds, crashed, overlapped, spoiled>>

(* The version was published before, with this content or another one.     *)
CheckIndex(b) ==
    /\ At(b, "index")
    /\ CASE index = Torn -> Ends(b, "unreadable")
         [] index = Absent -> Go(b, "stage")
         [] index \notin {Absent, Torn} ->
              Ends(b, IF index # builder[b].content THEN "same_version_content_conflict"
                      ELSE IF index \in released THEN "published" ELSE "resource_missing")
    /\ UNCHANGED <<index, staging, written, released, builds, crashed, overlapped, spoiled>>

MakeStage(b) ==
    /\ At(b, "stage")
    /\ IF builder[b].content \in staging
       THEN Ends(b, "publish_conflict") /\ UNCHANGED <<staging, written>>
       ELSE /\ staging' = staging \cup {builder[b].content} /\ written' = written \ {builder[b].content}
            /\ Go(b, "write")
    /\ UNCHANGED <<index, released, builds, crashed, overlapped, spoiled>>

(* What fails takes the staging directory of its content with it, whoever  *)
(* is at it by then, unless that fails as well.                            *)
Fails(b, outcome, marks) ==
    LET content == builder[b].content
    IN /\ Ends(b, outcome) /\ written' = written \ {content}
       /\ \/ staging' = staging \ {content} /\ spoiled' = spoiled \cup marks
          \/ content \in staging /\ staging' = staging /\ spoiled' = spoiled \cup marks \cup {"removal"}

WriteStage(b) ==
    LET content == builder[b].content
    IN /\ At(b, "write")
       /\ \/ /\ staging' = staging \cup {content} /\ written' = written \cup {content}
             /\ Go(b, "replace") /\ UNCHANGED spoiled
          \/ Fails(b, "write_failed", {})
       /\ UNCHANGED <<index, released, builds, crashed, overlapped>>

(* os.replace() takes no directory that has files in it for its target,    *)
(* and may fail for its own reasons.                                       *)
Replace(b) ==
    LET content == builder[b].content
    IN /\ At(b, "replace")
       /\ \/ /\ content \in staging \ released /\ released' = released \cup {content}
             /\ staging' = staging \ {content} /\ written' = written \ {content}
             /\ Go(b, "name") /\ UNCHANGED spoiled
          \/ Fails(b, "replace_failed", {}) /\ UNCHANGED released
       /\ UNCHANGED <<index, builds, crashed, overlapped>>

(* The index is opened, which empties it, and written.  Either may fail,   *)
(* when the release is there already and stays.                            *)
OpenIndex(b) ==
    /\ At(b, "name")
    /\ \/ index' = Torn /\ Go(b, "fill") /\ UNCHANGED <<staging, written, spoiled>>
       \/ Fails(b, "index_failed", {"index"}) /\ UNCHANGED index
    /\ UNCHANGED <<released, builds, crashed, overlapped>>

FillIndex(b) ==
    /\ At(b, "fill")
    /\ \/ index' = builder[b].content /\ Ends(b, "published") /\ UNCHANGED <<staging, written, spoiled>>
       \/ Fails(b, "index_failed", {"index"}) /\ index' \in {index, Torn}
    /\ UNCHANGED <<released, builds, crashed, overlapped>>

BuilderDies(b) ==
    /\ Busy(b)
    /\ builder' = [builder EXCEPT ![b] = Idle] /\ crashed' = TRUE
    /\ UNCHANGED <<index, staging, written, released, builds, overlapped, spoiled>>

PublicationNext ==
    \E b \in Builder :
        \/ \E content \in Content : StartBuild(b, content)
        \/ CheckIndex(b) \/ MakeStage(b) \/ WriteStage(b) \/ Replace(b) \/ OpenIndex(b) \/ FillIndex(b) \/ BuilderDies(b)

-----------------------------------------------------------------------------
(* The same packages make the same catalog in every order; a catalog that  *)
(* is built has all required packages whole and nothing of one that has a  *)
(* problem, no skill is of two packages, and each skill's tools are there. *)
CatalogIsSound(base, packages, catalog) ==
    /\ Assemble(base, Reverse(packages)) = catalog
    /\ \A skill \in catalog.skills : skill.tools \subseteq catalog.tools
    /\ \A s, t \in catalog.skills : s.id = t.id /\ s.plugin = t.plugin => s = t
    /\ \A k \in DOMAIN packages :
          LET whole == ToSet(packages[k].manifest.skills) \subseteq catalog.skills
              hasProblem == \E problem \in catalog.problems : problem[1] = packages[k]
          IN /\ hasProblem \/ whole
             /\ catalog.built /\ packages[k].required => whole /\ ~hasProblem

(* A skill that is available has every tool the policy asks for.           *)
AvailableIsAllowed(catalog, policy, writes, asks) ==
    \A skill \in catalog.skills :
        Reasons(catalog, skill, policy, writes, asks) = {} <=>
            /\ skill \notin policy.disabled /\ skill.tools \subseteq policy.allowed
            /\ policy.readOnly => skill.tools \cap writes = {}
            /\ ~policy.approval => skill.tools \cap asks = {}

(* What a handler can be called with passes the check of the schema that   *)
(* is inferred from it, but for a None; what passes, it can be called with.*)
Callable(parameters, given) ==
    /\ DOMAIN given \subseteq DOMAIN parameters
    /\ \A name \in DOMAIN parameters : name \in DOMAIN given \/ parameters[name].default
    /\ \A name \in DOMAIN given :
          LET p == parameters[name]
          IN p.type \in {"any", given[name]} \/ (p.type = "number" /\ given[name] = "integer") \/ (p.optional /\ given[name] = "null")
ArgumentsAreChecked(parameters, given) ==
    HasSchema(parameters) =>
        LET accepted == ValidateArguments(InferArgumentSchema(parameters), given) = {}
            none == \E name \in DOMAIN given \cap DOMAIN parameters : given[name] = "null" /\ parameters[name].type # "any"
        IN accepted <=> Callable(parameters, given) /\ ~none

(* What the index names is released, and what a build returned is.  As     *)
(* long as no two builds overlap and none dies, what was published is what *)
(* the index says; a version has one content only, until a write of its    *)
(* index fails; a staging directory is of the builder that is at it, until *)
(* a removal fails; and a build ends in nothing but the release, another   *)
(* content, a failure to write or to move, or what such a failure left.    *)
PublicationIsWhole ==
    /\ index \notin {Absent, Torn} => index \in released
    /\ \A b \in Builder : builder[b].outcome = "published" => builder[b].content \in released
    /\ written \subseteq staging
    /\ overlapped \/ crashed \/
          /\ "index" \in spoiled \/ Cardinality(released) <= 1
          /\ "removal" \in spoiled \/ staging \subseteq {builder[b].content : b \in {c \in Builder : Busy(c)}}
          /\ \A b \in Builder :
                /\ builder[b].outcome # "resource_missing"
                /\ builder[b].outcome \in {"index_failed", "unreadable"} => "index" \in spoiled
                /\ builder[b].outcome = "publish_conflict" => "removal" \in spoiled
                /\ builder[b].outcome = "published" => index = builder[b].content
=============================================================================
