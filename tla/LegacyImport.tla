----------------------------- MODULE LegacyImport -----------------------------
(***************************************************************************)
(* LegacyImporter: the records of the JSON files are saved one after the   *)
(* other, and each is entered in a ledger by a transaction of its own; an  *)
(* import that died is run again.  The application may be using the        *)
(* database meanwhile.                                                     *)
(***************************************************************************)
EXTENDS Integers, Sequences, FiniteSets, FiniteSetsExt

CONSTANTS Items,        \* what is scanned, in order: [kind, id, parent]
          MaxDeaths     \* bound: imports that die

Absent == "none"
Position == DOMAIN Items

VARIABLES rows,     \* the rows of the database: "legacy", "live" or Absent
          messages, \* how many copies of a message it holds
          ledger,   \* import_ledger
          at,       \* the item the import is at
          step,     \* "check", "save", "enter", "done", "aborted" or "dead"
          report,   \* what run() counts
          saves,    \* how often an item was saved
          deaths

importVars == <<rows, messages, ledger, at, step, report, saves, deaths>>

NoReport == [scanned |-> 0, inserted |-> 0, skipped |-> 0, failed |-> {}]
Id == {Items[k].id : k \in Position}

(* run() scans what is needed before what needs it, and a record is in one *)
(* place of the files.                                                     *)
Needing == {"session", "result", "message"}
Kind == Needing \cup {"incident", "state", "span", "event", "evidence", "memory", "malformed"}
ConstantsOK ==
    /\ Items \in Seq([kind : Kind, id : Id, parent : {Items[k].parent : k \in Position}]) /\ MaxDeaths \in Nat
    /\ \A j, k \in Position :
          /\ Items[j].id = Items[k].id => j = k
          /\ Items[k].kind \in Needing => Items[k].parent # Absent /\ (Items[j].id = Items[k].parent => j < k)

ImportInit ==
    /\ rows = [id \in Id |-> Absent] /\ messages = [id \in Id |-> 0] /\ ledger = {}
    /\ at = 1 /\ step = "check" /\ report = NoReport
    /\ saves = [k \in Position |-> 0] /\ deaths = 0

-----------------------------------------------------------------------------
(* The stores the records are saved to.                                    *)
Upserted(id) == [rows EXCEPT ![id] = "legacy"]

Exists(id) == id \in Id /\ rows[id] # Absent

(* An incident or a state is replaced; a session needs its incident, a     *)
(* result and a message their session; an event, evidence or a memory      *)
(* that is there must be the same; of two spans the first is kept.         *)
Accepts(item) ==
    CASE item.kind \in {"incident", "state", "span"} -> TRUE
      [] item.kind \in Needing -> Exists(item.parent)
      [] item.kind \in {"event", "evidence", "memory"} -> rows[item.id] # "live"

Save(item) ==
    /\ rows' = IF item.kind = "span" /\ Exists(item.id) THEN rows ELSE Upserted(item.id)
    /\ messages' = IF item.kind = "message" THEN [messages EXCEPT ![item.id] = @ + 1] ELSE messages

-----------------------------------------------------------------------------
Following == at' = at + 1 /\ step' = "check"

(* A line that is no JSON is met while the file is read, not when it is    *)
(* saved: the exception leaves run().                                      *)
Scan ==
    /\ step = "check" /\ at \in Position
    /\ IF Items[at].kind = "malformed"
       THEN step' = "aborted" /\ UNCHANGED <<at, report>>
       ELSE IF at \in ledger
       THEN Following /\ report' = [report EXCEPT !.scanned = @ + 1, !.skipped = @ + 1]
       ELSE step' = "save" /\ report' = [report EXCEPT !.scanned = @ + 1] /\ UNCHANGED at
    /\ UNCHANGED <<rows, messages, ledger, saves, deaths>>

(* Mutant: an item that could not be saved is entered too.                 *)
SaveAndEnter ==
    /\ step = "save"
    /\ IF Accepts(Items[at])
       THEN Save(Items[at]) /\ saves' = [saves EXCEPT ![at] = @ + 1] /\ step' = "enter" /\ UNCHANGED <<at, report, ledger>>
       ELSE /\ Following /\ report' = [report EXCEPT !.failed = @ \cup {at}] /\ ledger' = ledger \cup {at}
            /\ UNCHANGED <<rows, messages, saves>>
    /\ UNCHANGED deaths

SaveItem ==
    /\ step = "save"
    /\ IF Accepts(Items[at])
       THEN /\ Save(Items[at]) /\ saves' = [saves EXCEPT ![at] = @ + 1]
            /\ step' = "enter" /\ UNCHANGED <<at, report>>
       ELSE /\ Following /\ report' = [report EXCEPT !.failed = @ \cup {at}]
            /\ UNCHANGED <<rows, messages, saves>>
    /\ UNCHANGED <<ledger, deaths>>

Enter ==
    /\ step = "enter"
    /\ ledger' = ledger \cup {at} /\ report' = [report EXCEPT !.inserted = @ + 1]
    /\ Following
    /\ UNCHANGED <<rows, messages, saves, deaths>>

Done ==
    /\ step = "check" /\ at = Len(Items) + 1 /\ step' = "done"
    /\ UNCHANGED <<rows, messages, ledger, at, report, saves, deaths>>

ImportDies ==
    /\ step \in {"check", "save", "enter"} /\ deaths < MaxDeaths
    /\ step' = "dead" /\ deaths' = deaths + 1
    /\ UNCHANGED <<rows, messages, ledger, at, report, saves>>

(* The script is started again: what is in the ledger is skipped, and the  *)
(* counts are reset.                                                       *)
RunAgain ==
    /\ step \in {"dead", "done", "aborted"}
    /\ at' = 1 /\ step' = "check" /\ report' = NoReport
    /\ UNCHANGED <<rows, messages, ledger, saves, deaths>>

(* The application moves a session, an incident or a memory on.            *)
Live(k) ==
    /\ Items[k].kind \in {"incident", "session", "memory"} /\ Exists(Items[k].id)
    /\ rows' = [rows EXCEPT ![Items[k].id] = "live"]
    /\ UNCHANGED <<messages, ledger, at, step, report, saves, deaths>>

ImportNext == Scan \/ SaveItem \/ Enter \/ Done \/ ImportDies \/ RunAgain \/ \E k \in Position : Live(k)

-----------------------------------------------------------------------------
(* What the ledger holds is in the database, and was saved once for every  *)
(* import that died at most, so that without a death nothing is there      *)
(* twice and no row of the application is put back; an import that ends    *)
(* has accounted for every item, and what failed lacks its parent, or is a *)
(* memory the application replaced before a second attempt.                *)
ImportIsSound ==
    /\ \A k \in ledger : rows[Items[k].id] # Absent /\ saves[k] > 0
    /\ \A k \in Position :
          /\ saves[k] <= (IF k \in ledger \/ (step = "enter" /\ at = k) THEN 1 ELSE 0) + deaths
          /\ Items[k].kind = "message" => messages[Items[k].id] = saves[k]
    /\ step = "done" =>
          /\ report.scanned = Len(Items)
          /\ report.scanned = report.inserted + report.skipped + Cardinality(report.failed)
          /\ \A k \in report.failed : k \notin ledger /\ (Accepts(Items[k]) \/ Items[k].parent = Absent => rows[Items[k].id] = "live" /\ deaths > 0)
=============================================================================
