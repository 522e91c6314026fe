-------------------------- MODULE SnapshotCatalog --------------------------
(***************************************************************************)
(* What the code map promises its readers: for each build input (a         *)
(* repository at a commit) a history of published generations that only    *)
(* grows, and stops growing at the first complete one.  There are no jobs, *)
(* leases, workers or retries here.                                        *)
(***************************************************************************)
EXTENDS Naturals, Sequences

CONSTANTS Job  \* the build inputs; each has one job id and one snapshot id

VARIABLES generations,  \* generations[j]: the published generations, oldest first
          shown  \* shown[j]: the one get_snapshot shows

Quality == {"partial", "ready"}

Init == /\ generations = [j \in Job |-> <<>>]
        /\ shown = [j \in Job |-> "none"]

(* A complete snapshot is immutable; an incomplete one may be replaced, and *)
(* the replaced generation stays readable.                                  *)
Publish(j, q) == /\ shown[j] # "ready"
                 /\ generations' = [generations EXCEPT ![j] = Append(@, q)]
                 /\ shown' = [shown EXCEPT ![j] = q]

Next == \E j \in Job, q \in Quality : Publish(j, q)

Spec == Init /\ [][Next]_<<generations, shown>>
=============================================================================
