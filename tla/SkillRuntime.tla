----------------------------- MODULE SkillRuntime -----------------------------
(***************************************************************************)
(* The skills of one run: loading a skill or one of its references reads   *)
(* its file through a bounded cache, checks it against the release, saves  *)
(* the next state and only then makes it observable.  A checkpoint of the  *)
(* run names what is active, and is restored by reading it again.  A run   *)
(* of the application begins with loading the skill it was asked for.      *)
(***************************************************************************)
EXTENDS Naturals, Sequences, FiniteSets, Folds, SequencesExt

CONSTANTS Skills,        \* the release: skill -> [required, refs], refs a set of references
          Size,          \* of each resource; a skill's instructions are named by the skill
          MaxBytes,      \* of the cache
          Budget,        \* instruction_char_budget and reference_char_budget of one resource
          TotalBudget,   \* reference_char_budget of the run
          AllowedTools, BaseTools,
          MaxOps         \* bound: calls of a run

Absent == "none"
Skill == DOMAIN Skills
Resource == DOMAIN Size
Controls == {"skill.load", "skill.read_reference"}

(* selected_skill_id is None before a skill is loaded.                     *)
ConstantsOK == Absent \notin Skill

VARIABLES active,     \* the loaded skills, in the order they were loaded
          disclosed,  \* the references read, as <<skill, reference>>
          selected,   \* selected_skill_id
          revision,
          saved,      \* what the state store holds
          checkpoint, \* skill_state of the latest checkpoint
          cache,      \* resources, least recently used first
          disk,       \* of each resource: "whole", "changed" or "missing"
          followup,   \* _allow_followup_tools
          ops

skillVars == <<active, disclosed, selected, revision, saved, checkpoint, cache, disk, followup, ops>>

Nothing == [active |-> <<>>, disclosed |-> {}, selected |-> Absent, revision |-> 0]
Current == [active |-> active, disclosed |-> disclosed, selected |-> selected, revision |-> revision]

SkillInit ==
    /\ active = <<>> /\ disclosed = {} /\ selected = Absent /\ revision = 0
    /\ saved = Nothing /\ checkpoint = Nothing
    /\ cache = <<>> /\ disk = [r \in Resource |-> "whole"] /\ followup = TRUE /\ ops = 0

Sum(resources) == FoldSet(LAMBDA r, n : n + Size[r], 0, resources)
Disclosed(pairs) == FoldSet(LAMBDA pair, n : n + Size[pair[2]], 0, pairs)

-----------------------------------------------------------------------------
(* ResourceCache.get_or_load(): [ok, cache]                                *)
Evict(kept, size) ==
    LET fits == {k \in DOMAIN kept \cup {0} : Sum(ToSet(SubSeq(kept, k + 1, Len(kept)))) + size <= MaxBytes}
    IN SubSeq(kept, (CHOOSE k \in fits : \A j \in fits : k <= j) + 1, Len(kept))

Cached(kept, r) ==
    CASE Contains(kept, r) -> [ok |-> TRUE, cache |-> Append(SelectSeq(kept, LAMBDA other : other # r), r)]
      [] ~Contains(kept, r) /\ disk[r] = "whole" /\ Size[r] <= MaxBytes ->
            [ok |-> TRUE, cache |-> Append(Evict(kept, Size[r]), r)]
      [] OTHER -> [ok |-> FALSE, cache |-> kept]

(* A resource over its budget is refused, but it is cached.                *)
Loads(kept, r) == LET read == Cached(kept, r) IN [ok |-> read.ok /\ Size[r] <= Budget, cache |-> read.cache]

Op == ops < MaxOps /\ ops' = ops + 1
Kept == UNCHANGED <<active, disclosed, selected, revision, saved>>

(* skill.load                                                              *)
Load(s) ==
    LET read == Loads(cache, s)
        next == Append(active, s)
    IN /\ Op /\ cache' = read.cache
       /\ \/ (~read.ok \/ ~Skills[s].required \subseteq AllowedTools \/ Contains(active, s)) /\ Kept
          \/ /\ read.ok /\ Skills[s].required \subseteq AllowedTools /\ ~Contains(active, s)
             /\ \/ Kept  \* the save failed
                \/ /\ saved' = [active |-> next, disclosed |-> disclosed, selected |-> s, revision |-> revision + 1]
                   /\ active' = next /\ revision' = revision + 1
                   /\ selected' = (IF selected = Absent THEN s ELSE selected)
                   /\ UNCHANGED disclosed
       /\ UNCHANGED <<checkpoint, disk, followup>>

(* Mutant: a reference counts against its own budget only.                 *)
WithinOwn(s, r) == Size[r] <= TotalBudget

WithinTotal(s, r) == Disclosed(disclosed) + Size[r] <= TotalBudget

(* skill.read_reference; with one active skill it need not be named.       *)
ReadReference(s, r) ==
    LET read == Loads(cache, r)
        new == read.ok /\ <<s, r>> \notin disclosed
    IN /\ Op /\ Contains(active, s)
       /\ IF r \in Skills[s].refs
          THEN /\ cache' = read.cache
               /\ \/ ~(new /\ WithinTotal(s, r)) /\ Kept
                  \/ /\ new /\ WithinTotal(s, r)
                     /\ \/ Kept
                        \/ /\ disclosed' = disclosed \cup {<<s, r>>} /\ revision' = revision + 1
                           /\ saved' = [Current EXCEPT !.disclosed = @ \cup {<<s, r>>}, !.revision = @ + 1]
                           /\ UNCHANGED <<active, selected>>
          ELSE Kept /\ UNCHANGED cache
       /\ UNCHANGED <<checkpoint, disk, followup>>

(* The end of a turn: note_turn_results() of the calls that succeeded, and *)
(* the run's checkpoint.                                                   *)
TurnEnds(succeeded) ==
    /\ Op
    /\ followup' = (succeeded # {} /\ succeeded \subseteq Controls)
    /\ checkpoint' = Current
    /\ UNCHANGED <<active, disclosed, selected, revision, saved, cache, disk>>

(* restore() in a new run, with a cache of its own; the first resource     *)
(* that cannot be read or is not what it was ends the run.                 *)
Restored == checkpoint.active \o SetToSeq({pair[2] : pair \in checkpoint.disclosed})
ReadAll == FoldLeft(LAMBDA acc, r : IF acc.ok THEN Loads(acc.cache, r) ELSE acc, [ok |-> TRUE, cache |-> <<>>], Restored)

Resume ==
    /\ ops < MaxOps
    /\ LET from == IF ReadAll.ok THEN checkpoint ELSE Nothing
       IN active' = from.active /\ disclosed' = from.disclosed /\ selected' = from.selected /\ revision' = from.revision
    /\ ops' = (IF ReadAll.ok THEN ops + 1 ELSE MaxOps)
    /\ saved' = Nothing /\ cache' = ReadAll.cache /\ followup' = TRUE
    /\ UNCHANGED <<checkpoint, disk>>

(* The files of a release are touched behind its back.                     *)
Touch(r) ==
    /\ Op /\ disk' \in {[disk EXCEPT ![r] = how] : how \in {"changed", "missing"} \ {disk[r]}}
    /\ UNCHANGED <<active, disclosed, selected, revision, saved, checkpoint, cache, followup>>

SkillNext ==
    \/ \E s \in Skill : Load(s) \/ \E r \in Resource : ReadReference(s, r)
    \/ \E succeeded \in {{}, {"skill.load"}, {"skill.load", "read_health"}} : TurnEnds(succeeded)
    \/ Resume
    \/ \E r \in Resource : Touch(r)

-----------------------------------------------------------------------------
(* visible_tool_names()                                                    *)
Visible ==
    {"skill.load"} \cup (BaseTools \cap AllowedTools) \cup (IF active = <<>> THEN {} ELSE {"skill.read_reference"})
    \cup UNION {Skills[active[k]].required \cap AllowedTools : k \in DOMAIN active}

(* A checkpoint, and the state before it is saved, is a state the run may  *)
(* be in: each skill once, references of active skills; its revision       *)
(* counts them.                                                            *)
Sound(state) ==
    /\ IsInjective(state.active)
    /\ \A pair \in state.disclosed : Contains(state.active, pair[1]) /\ pair[2] \in Skills[pair[1]].refs
    /\ state.revision = Len(state.active) + Cardinality(state.disclosed)

(* What is saved is never behind what can be seen, and ahead of it only in *)
(* which skill is selected, which is the first one; a visible tool is      *)
(* allowed, and all that the active skills require is visible.             *)
SkillsHold ==
    /\ Sound(Current) /\ Sound(checkpoint) /\ Sound(saved)
    /\ Current.selected = (IF active = <<>> THEN Absent ELSE Head(active))
    /\ saved # Nothing => saved.active = active /\ saved.disclosed = disclosed /\ saved.revision = revision
    /\ Visible \subseteq AllowedTools \cup Controls
    /\ \A k \in DOMAIN active : Skills[active[k]].required \subseteq Visible

(* The references of a run keep to its budget, and the cache to its size.  *)
BudgetsHold ==
    /\ \A state \in {Current, checkpoint, saved} : Disclosed(state.disclosed) <= TotalBudget
    /\ IsInjective(cache) /\ Sum(ToSet(cache)) <= MaxBytes

SkillsAgree == SkillsHold /\ BudgetsHold
=============================================================================
