--------------------------- MODULE IntentHandoff ---------------------------
(***************************************************************************)
(* What the intent pipeline promises: an intent is a sequence of           *)
(* revisions, only the latest can take effect downstream, and it does so   *)
(* at most once.  There are no messages, callers, outbox, receipts or      *)
(* crashes here.                                                           *)
(***************************************************************************)
EXTENDS Naturals

CONSTANTS Intent, MaxRevisions

Key == Intent \X (1..MaxRevisions)

VARIABLES latest,    \* latest[i]: the latest revision of intent i, 0 before any
          effects  \* effects[k]: how often revision k has taken effect

Init == /\ latest = [i \in Intent |-> 0]
        /\ effects = [k \in Key |-> 0]

Revise(i) == /\ latest' = [latest EXCEPT ![i] = @ + 1]
             /\ UNCHANGED effects

TakeEffect(k) == /\ latest[k[1]] = k[2]
                 /\ effects[k] = 0
                 /\ effects' = [effects EXCEPT ![k] = 1]
                 /\ UNCHANGED latest

Next == \/ \E i \in Intent : Revise(i)
        \/ \E k \in Key : TakeEffect(k)

Spec == Init /\ [][Next]_<<latest, effects>>
=============================================================================
