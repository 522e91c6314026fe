-------------------------- MODULE SessionTimeline --------------------------
(***************************************************************************)
(* The timeline tree of one session and the texts that are projected from  *)
(* it: nodes are appended from events in whatever order they come, each    *)
(* under the node its event is nearest to, and the digest is what fits of  *)
(* them in the order of time.                                              *)
(***************************************************************************)
EXTENDS Integers, Sequences, FiniteSets, SequencesExt, FiniteSetsExt, TLC

CONSTANTS
    Event,         \* records: id, aggregate, tool_call, task, turn, session, at, cost
    ThisSession,
    DigestBudget,
    Results        \* the runs of one incident that have ended, by their sessions:
                   \* [events (of [id, at], as they came), evidence, status, concluded, hinted]

VARIABLES
    nodes,     \* _nodes in the order of insertion: [event, parent]
    recorded   \* the stores, and where each record() is

Init == nodes = <<>>

Keys == <<"tool_call", "task", "turn", "session">>

(* _find_related(): the first node that is of that object or about it.     *)
Related(key, value) ==
    SelectInSeq(nodes, LAMBDA n : n.event.aggregate = value \/ n.event[key] = value)

(* The keys of an event that name an object and lead to a node.            *)
Leading(e) == {k \in DOMAIN Keys : e[Keys[k]] # "none" /\ Related(Keys[k], e[Keys[k]]) # 0}

(* Mutant: the widest object is tried first.                               *)
WidestParent(e) == IF Leading(e) = {} THEN 0 ELSE LET k == Keys[Max(Leading(e))] IN Related(k, e[k])

ParentOf(e) == IF Leading(e) = {} THEN 0 ELSE LET k == Keys[Min(Leading(e))] IN Related(k, e[k])

Known(e) == \E k \in DOMAIN nodes : nodes[k].event.id = e.id

(* append_event(): an event that is known, or of another session, changes  *)
(* nothing.                                                                *)
AppendEvent(e) ==
    /\ ~Known(e)
    /\ e.session = ThisSession \/ e.aggregate = ThisSession
    /\ nodes' = Append(nodes, [event |-> e, parent |-> ParentOf(e)])

Next == \E e \in Event : AppendEvent(e)

-----------------------------------------------------------------------------
(* nodes(): sorted by time, and by insertion where times are equal.        *)
InTime == SortSeq([k \in DOMAIN nodes |-> k], LAMBDA j, k :
    nodes[j].event.at < nodes[k].event.at \/ (nodes[j].event.at = nodes[k].event.at /\ j < k))

Spent(n) == FoldLeft(LAMBDA sum, k : sum + nodes[k].event.cost, 0, SubSeq(InTime, 1, n))

(* digest(): the lines before the first that does not fit.                 *)
Digest == SubSeq(InTime, 1, Max({n \in 0..Len(nodes) : \A k \in 0..n : Spent(k) <= DigestBudget}))

-----------------------------------------------------------------------------
(* record(): every step is a transaction of its own, and when one raises,  *)
(* or the process dies, the rest is left undone.                           *)
Run == DOMAIN Results

(* Mutant of Steps: the job is queued before the rollout is stored.        *)
JobFirst == <<"events", "evidence", "projection", "job", "rollout", "done">>

Steps == <<"events", "evidence", "projection", "rollout", "job", "done">>

RecordInit == recorded =
    [at |-> [s \in Run |-> Steps[1]], events |-> [s \in Run |-> <<>>], evidence |-> {}, projection |-> "none",
     rollouts |-> {}, jobs |-> [s \in Run |-> <<>>]]

(* Mutant of InTimeOrder: the events are stored as they came.              *)
AsTheyCame(s) == Results[s].events

InTimeOrder(s) == SortSeq(Results[s].events, LAMBDA a, b : a.at < b.at \/ (a.at = b.at /\ a.id < b.id))

After(step) == Steps[SelectInSeq(Steps, LAMBDA x : x = step) + 1]
At(s, step) == recorded.at[s] = step
Goes(s) == [recorded.at EXCEPT ![s] = After(@)]

KeepEvent(s) ==
    /\ At(s, "events")
    /\ recorded' = IF Len(recorded.events[s]) = Len(Results[s].events) THEN [recorded EXCEPT !.at = Goes(s)]
                   ELSE [recorded EXCEPT !.events[s] = Append(@, InTimeOrder(s)[Len(@) + 1])]

(* Evidence that a tool has stored while the run went on is there already. *)
KeepEvidence(s) ==
    /\ At(s, "evidence")
    /\ \/ Results[s].evidence \subseteq recorded.evidence /\ recorded' = [recorded EXCEPT !.at = Goes(s)]
       \/ \E e \in Results[s].evidence \ recorded.evidence : recorded' = [recorded EXCEPT !.evidence = @ \cup {e}]

(* The projection is the incident's, and the last to be saved stands.      *)
SaveProjection(s) == At(s, "projection") /\ recorded' = [recorded EXCEPT !.at = Goes(s), !.projection = s]

KeepRollout(s) ==
    /\ At(s, "rollout")
    /\ recorded' = [recorded EXCEPT !.at = Goes(s), !.rollouts = @ \cup {r \in {s} : Results[s].status \in {"completed", "failed"}}]

(* RuleCandidateExtractor: a preference when the operator speaks of logs,  *)
(* and the conclusion.                                                     *)
Extracted(s) == (IF Results[s].hinted THEN <<"preference">> ELSE <<>>) \o (IF Results[s].concluded THEN <<"episodic">> ELSE <<>>)

Enqueue(s) == At(s, "job") /\ recorded' = [recorded EXCEPT !.at = Goes(s), !.jobs[s] = <<Extracted(s)>>]

Breaks(s) == recorded.at[s] \notin {"done", "broken"} /\ recorded' = [recorded EXCEPT !.at[s] = "broken"]

Record == \E s \in Run : KeepEvent(s) \/ KeepEvidence(s) \/ SaveProjection(s) \/ KeepRollout(s) \/ Enqueue(s) \/ Breaks(s)

-----------------------------------------------------------------------------
(* An event that is about the session says so (_route).                    *)
EventsAreRouted == ThisSession # "none" /\ \A e \in Event : e.aggregate = ThisSession => e.session = ThisSession

(* In whatever order the events of a session come, its timeline is one     *)
(* tree: the first node is its only root, and every other hangs under the  *)
(* first node of an object of its own, of the narrowest one that the tree  *)
(* knew, so that what is known of a call, task or turn stays together.     *)
IsAbout(j, key, value) == nodes[j].event.aggregate = value \/ nodes[j].event[key] = value
FirstAbout(j, key, value) == value # "none" /\ IsAbout(j, key, value) /\ \A i \in 1..(j - 1) : ~IsAbout(i, key, value)

TimelineIsATree ==
    \A k \in DOMAIN nodes :
        /\ nodes[k].parent < k /\ (nodes[k].parent = 0 <=> k = 1)
        /\ \A n \in DOMAIN Keys : \A j \in 1..(k - 1) : FirstAbout(j, Keys[n], nodes[k].event[Keys[n]]) =>
              \E m \in 1..n : FirstAbout(nodes[k].parent, Keys[m], nodes[k].event[Keys[m]])

(* The digest keeps its budget, and what it leaves out is later than all   *)
(* that it tells.                                                          *)
DigestIsAPrefix ==
    LET told == ToSet(Digest) IN
    /\ MapThenSumSet(LAMBDA k : nodes[k].event.cost, told) <= DigestBudget
    /\ \A j \in DOMAIN nodes \ told, k \in told : nodes[k].event.at <= nodes[j].event.at

TimelineHolds == TimelineIsATree /\ DigestIsAPrefix

(* However far the recording of a run got, what is derived from it stands  *)
(* on facts that are stored: no rollout, projection or job without all its *)
(* events and evidence, no job without the rollout of a run that ended;    *)
(* and no event is stored without those before it.                         *)
Stored(s) == Len(recorded.events[s]) = Len(Results[s].events) /\ Results[s].evidence \subseteq recorded.evidence

FactsComeFirst ==
    /\ \A s \in recorded.rollouts \cup {r \in Run : recorded.projection = r} : Stored(s)
    /\ \A s \in Run : recorded.jobs[s] # <<>> =>
          Stored(s) /\ (Results[s].status \in {"completed", "failed"} => s \in recorded.rollouts)

RecordingHolds ==
    /\ FactsComeFirst
    /\ \A s \in Run : \A e \in ToSet(recorded.events[s]), d \in ToSet(Results[s].events) :
          d.at < e.at => d \in ToSet(recorded.events[s])
=============================================================================
