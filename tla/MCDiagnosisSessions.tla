------------------------ MODULE MCDiagnosisSessions ------------------------
(***************************************************************************)
(* Two sessions of one incident and one client that follows either.        *)
(***************************************************************************)
EXTENDS DiagnosisSessions

CONSTANTS s1, s2, i

OneEventForTheFirst == [s \in {s1, s2} |-> IF s = s1 THEN 1 ELSE 0]
OneIncident == [s \in {s1, s2} |-> i]
=============================================================================
