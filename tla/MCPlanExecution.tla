-------------------------- MODULE MCPlanExecution --------------------------
(***************************************************************************)
(* Two machines that share nothing, one in a behaviour.  A small plan for  *)
(* PlanExecution: two reads feed a write, a gated read waits for the first *)
(* of them.  And, for what must happen eventually, the code map's queue: a *)
(* scheduler and two workers on a repository with two commits, no          *)
(* diagnosis and one fault.                                                *)
(***************************************************************************)
EXTENDS PlanExecution, TLC

CONSTANTS first, other, joined, gated

JoinNode == {first, other, joined, gated}
JoinDeps == (first :> {}) @@ (other :> {}) @@ (joined :> {first, other}) @@ (gated :> {first})

(* Callers are interchangeable.  The queue, of which alone a temporal      *)
(* property is checked, has no caller in its state.                        *)
RunnerSymmetry == Permutations(Runner)

VARIABLES machine,
          repo, job, order, slot, snapshot, archive, binding, sched, work, binder, head, pushes, commands, faults

mapVars == <<repo, job, order, slot, snapshot, archive, binding, sched, work, binder, head, pushes, commands, faults>>

Scheduler == {"scheduler"}
Worker == {"v", "w"}
Token == 1..6

Map == INSTANCE CodeMap WITH
    Repository <- {"r"}, Commit <- {"x", "y"}, Incident <- {}, MaxPushes <- 1, MaxCommands <- 1, MaxFaults <- 1

PlanRuns == machine = "plan"
MapRuns == machine = "map"

(* The map's queue may come to rest; a plan's callers never do.            *)
MCInit == Init /\ Map!Init /\ machine \in {"plan", "map"}
MCNext ==
    /\ UNCHANGED machine
    /\ \/ PlanRuns /\ Next /\ UNCHANGED mapVars
       \/ MapRuns /\ Map!Next /\ UNCHANGED vars
       \/ MapRuns /\ UNCHANGED <<vars, mapVars>>

(* The fairness is that of CodeMap's FairSpec.                             *)
MCSpec ==
    /\ MCInit /\ [][MCNext]_<<vars, mapVars, machine>>
    /\ \A w \in Worker : /\ WF_mapVars(MapRuns /\ Map!Building(w) /\ UNCHANGED <<vars, machine>>)
                         /\ WF_mapVars(MapRuns /\ Map!ClaimJob(w) /\ UNCHANGED <<vars, machine>>)
    /\ \A s \in Scheduler :
          /\ WF_mapVars(MapRuns /\ Map!Checking(s) /\ UNCHANGED <<vars, machine>>)
          /\ WF_mapVars(MapRuns /\ Map!ClaimCheck(s, "r") /\ UNCHANGED <<vars, machine>>)
    /\ WF_mapVars(MapRuns /\ Map!LapseCheck("r") /\ UNCHANGED <<vars, machine>>)
    /\ WF_mapVars(MapRuns /\ Map!DueAgain("r") /\ UNCHANGED <<vars, machine>>)
    /\ WF_mapVars(MapRuns /\ (\E t \in Token : Map!LapseJob(t)) /\ UNCHANGED <<vars, machine>>)

(* No job of the code map waits for ever, and the head of a tracked branch *)
(* is observed, whoever crashed while it held the slot or a check; and a   *)
(* repository that is paused is left alone but by a check under way.       *)
CodeMapProgresses ==
    /\ MapRuns => Map!CodeMapProgresses
    /\ [][MapRuns => Map!PauseLetsOneCheckPass]_mapVars
=============================================================================
