--------------------------- MODULE MCRuntimeLoop ---------------------------
(***************************************************************************)
(* The two machines that carry out what was planned, one in a behaviour.   *)
(*                                                                         *)
(* The runtime loop: a read of a source and a read of evidence, a call the *)
(* turn may not make and one that requires approval; replies with empty,   *)
(* repeated, failing, gated and oversized tasks.  Plan execution, for what *)
(* must happen eventually: a read feeds a write, an independent node is    *)
(* gated.                                                                  *)
(***************************************************************************)
EXTENDS RuntimeLoop

CONSTANTS a, b, unknown, gated, Caller

Tools == {a, b, unknown, gated}
UnknownTool == {unknown}
Reads == {a, b}
EvidenceReads == {b}
GatedTool == {gated}
Replies ==
    { << <<>> >>,              << <<a>> >>,
      << <<a, b>> >>,          << <<a>>, <<a>> >>,
      << <<unknown, gated>> >>, << <<b, gated>> >>,
      << <<a>>, <<b>>, <<a>> >>, << <<a, b, a>> >> }

VARIABLES machine,
          run, node, lock, cancelRequested, place, mem, cancelled, current, batch, fut, handled, lateStarts, interrupts

planVars == <<run, node, lock, cancelRequested, place, mem, cancelled, current, batch, fut, handled, lateStarts, interrupts>>

ChainNode == {"read", "write", "gated"}
ChainDeps == [n \in ChainNode |-> IF n = "write" THEN {"read"} ELSE {}]

Plans == INSTANCE PlanExecution WITH
    Node <- ChainNode, Deps <- ChainDeps, ReadOnly <- {"read", "gated"}, NeedsApproval <- {"gated"}, MaxAttempts <- 2,
    Runner <- Caller, MaxWorkers <- 1, MaxInterrupts <- 1, None <- "none", pc <- place, effects <- handled

LoopRuns == machine = "loop"
PlanRuns == machine = "plan"

MCInit == Init /\ Plans!Init /\ machine \in {"loop", "plan"}
MCNext ==
    /\ UNCHANGED machine
    /\ \/ LoopRuns /\ Next /\ UNCHANGED planVars
       \/ PlanRuns /\ Plans!Next /\ UNCHANGED vars

MCSpec ==
    /\ MCInit /\ [][MCNext]_<<vars, planVars, machine>>
    /\ WF_vars(LoopRuns /\ Loop /\ UNCHANGED <<planVars, machine>>)
    /\ \A r \in Caller : WF_planVars(PlanRuns /\ Plans!Schedule(r) /\ UNCHANGED <<vars, machine>>)
    /\ \A r \in Caller, n \in ChainNode : WF_planVars(PlanRuns /\ Plans!Tool(r, n) /\ UNCHANGED <<vars, machine>>)
    /\ WF_planVars(PlanRuns /\ (\E r \in Caller : Plans!Acquire(r)) /\ UNCHANGED <<vars, machine>>)

(* A run of the loop ends unless its process does; a call of               *)
(* PlanRuntime.run returns when its tools do; and a cancel request closes  *)
(* a plan's run, also one that is parked for an approval.                  *)
RunsSettle == (LoopRuns => RunEnds) /\ (PlanRuns => Plans!CallReturns /\ Plans!CancelSettles)
=============================================================================
