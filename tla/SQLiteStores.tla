----------------------------- MODULE SQLiteStores -----------------------------
(***************************************************************************)
(* The database file and the copy of its memories beside it.               *)
(*                                                                         *)
(* SQLiteDatabase.initialize(): every process that opens the file creates  *)
(* the first schema statement by statement, reads the version it is at,    *)
(* and runs the migrations that are missing, a transaction each.  The      *)
(* application and the code map daemon may do so at the same time, and     *)
(* either may die at any point.                                            *)
(*                                                                         *)
(* AuditedMemoryStore, and the JSONL file it copies every record to: the   *)
(* primary store commits, then the file is read and either appended to or  *)
(* written anew.  Threads share it without a lock, and the process may     *)
(* die at any point.                                                       *)
(***************************************************************************)
EXTENDS Integers, Sequences, FiniteSets, FiniteSetsExt, SequencesExt

CONSTANTS Process,
          MaxStarts,     \* bound: starts of all processes
          Thread, Memory,
          MaxVersions,   \* bound: versions of a record
          MaxCalls       \* bound: calls

VARIABLES tables,       \* of the file
          versions,     \* the rows of schema_migrations
          userVersion,  \* PRAGMA user_version
          process,      \* [pc, at, current] of each process
          starts,
          primary,      \* the version of each record, 0 if there is none
          file,         \* lines [id, version]; a line with id Torn is unreadable
          thread,       \* [step, op, id, version, seen] of each thread
          degraded,     \* the records on_degraded was called for
          disturbed,    \* a death, two calls for a record, or a file replaced that had changed
          calls

SCHEMA_VERSION == 5

DiagnosisTables ==
    <<"schema_migrations", "incidents", "sessions", "messages", "turns", "tasks", "tool_calls", "attempts", "events",
      "evidence", "evidence_refs", "states">>
MemoryTables ==
    <<"memory_records", "memory_vectors", "memory_records_fts", "preference_nodes", "preference_edges", "memory_conflicts",
      "memory_jobs">>
ReportTables ==
    <<"traces", "spans", "evaluation_runs", "evaluation_cases", "evaluation_results", "import_ledger">>
SCHEMA_V1 == DiagnosisTables \o MemoryTables \o ReportTables

Repositories == {"code_map_repositories", "code_map_scan_jobs", "code_map_job_attempts", "code_map_worker_slots"}
Snapshots ==
    {"code_map_snapshots", "code_map_blobs", "code_map_files", "code_map_nodes", "code_map_edges", "code_map_chunks"}
Deployments == {"code_map_deployments", "code_map_diagnosis_bindings"}
Generations == {"code_map_generations"}

MIGRATIONS(version) ==
    CASE version = 1 -> ToSet(SCHEMA_V1) [] version = 2 -> Repositories [] version = 3 -> Snapshots
      [] version = 4 -> Deployments [] version = 5 -> Generations

(* The tables a table REFERENCES.                                          *)
References(table) ==
    CASE table \in {"messages", "turns"} -> {"sessions"}
      [] table = "sessions" -> {"incidents"}
      [] table = "tasks" -> {"turns"}
      [] table = "tool_calls" -> {"tasks"}
      [] table = "attempts" -> {"tool_calls"}
      [] table = "evidence_refs" -> {"evidence"}
      [] table = "memory_vectors" -> {"memory_records"}
      [] table = "preference_edges" -> {"preference_nodes"}
      [] table = "spans" -> {"traces"}
      [] table = "evaluation_cases" -> {"evaluation_runs"}
      [] table = "evaluation_results" -> {"evaluation_runs", "evaluation_cases"}
      [] table \in {"code_map_scan_jobs", "code_map_snapshots", "code_map_deployments"} -> {"code_map_repositories"}
      [] table = "code_map_job_attempts" -> {"code_map_scan_jobs"}
      [] table \in {"code_map_files", "code_map_nodes", "code_map_generations"} -> {"code_map_snapshots"}
      [] table \in {"code_map_edges", "code_map_chunks"} -> {"code_map_snapshots", "code_map_nodes"}
      [] table = "code_map_diagnosis_bindings" -> {"code_map_repositories", "code_map_snapshots"}
      [] OTHER -> {}

UpTo(version) == UNION {MIGRATIONS(v) : v \in 1..version}
Newest == Max(versions \cup {0})

-----------------------------------------------------------------------------
(* A file is new, of an earlier version, or of a version that is unknown.  *)
SchemaInit ==
    /\ \E version \in 0..(SCHEMA_VERSION + 1) :
          /\ tables = UpTo(Min({version, SCHEMA_VERSION}))
          /\ versions = 1..version /\ userVersion = version
    /\ process = [p \in Process |-> [pc |-> "off", at |-> 1, current |-> 0]]
    /\ starts = 0

Go(p, pc) == process' = [process EXCEPT ![p].pc = pc]

Start(p) ==
    /\ process[p].pc \in {"off", "failed"} /\ starts < MaxStarts
    /\ process' = [process EXCEPT ![p] = [pc |-> "script", at |-> 1, current |-> 0]]
    /\ starts' = starts + 1
    /\ UNCHANGED <<tables, versions, userVersion>>

(* CREATE TABLE IF NOT EXISTS, each statement for itself.                  *)
Script(p) ==
    /\ process[p].pc = "script"
    /\ tables' = tables \cup {SCHEMA_V1[process[p].at]}
    /\ process' = [process EXCEPT ![p].at = @ + 1, ![p].pc = IF process[p].at = Len(SCHEMA_V1) THEN "read" ELSE "script"]
    /\ UNCHANGED <<versions, userVersion, starts>>

ReadVersion(p) ==
    /\ process[p].pc = "read"
    /\ process' = [process EXCEPT ![p].pc = "check", ![p].current = Newest]
    /\ UNCHANGED <<tables, versions, userVersion, starts>>

CheckVersion(p) ==
    /\ process[p].pc = "check"
    /\ Go(p, IF Max({process[p].current, userVersion}) > SCHEMA_VERSION THEN "refused" ELSE "migrate")
    /\ UNCHANGED <<tables, versions, userVersion, starts>>

(* The versions are a primary key, and only the last migration says CREATE *)
(* without IF NOT EXISTS.                                                  *)
Applies(version) ==
    /\ version \notin versions
    /\ version = 5 => Generations \cap tables = {}

(* Mutant: the statements run outside the transaction that records them.   *)
MigrateInSteps(p) ==
    LET version == process[p].current + 1
    IN /\ process[p].pc = "migrate" /\ version <= SCHEMA_VERSION
       /\ IF ~MIGRATIONS(version) \subseteq tables
          THEN tables' = tables \cup MIGRATIONS(version) /\ UNCHANGED <<versions, userVersion, process, starts>>
          ELSE /\ versions' = versions \cup {version} /\ userVersion' = version
               /\ process' = [process EXCEPT ![p].current = version]
               /\ UNCHANGED <<tables, starts>>

(* Version 1 only records the script.                                      *)
Migrate(p) ==
    LET version == process[p].current + 1
    IN /\ process[p].pc = "migrate" /\ version <= SCHEMA_VERSION
       /\ IF Applies(version)
          THEN /\ tables' = tables \cup MIGRATIONS(version)
               /\ versions' = versions \cup {version} /\ userVersion' = version
               /\ process' = [process EXCEPT ![p].current = version]
          ELSE Go(p, "failed") /\ UNCHANGED <<tables, versions, userVersion>>
       /\ UNCHANGED starts

Initialized(p) ==
    /\ process[p].pc = "migrate" /\ process[p].current = SCHEMA_VERSION
    /\ Go(p, "ready")
    /\ UNCHANGED <<tables, versions, userVersion, starts>>

(* The process dies; a transaction it was in is rolled back.               *)
Dies(p) ==
    /\ process[p].pc \notin {"off", "failed", "refused"}
    /\ Go(p, "off")
    /\ UNCHANGED <<tables, versions, userVersion, starts>>

SchemaNext ==
    \E p \in Process :
        Start(p) \/ Script(p) \/ ReadVersion(p) \/ CheckVersion(p) \/ Migrate(p) \/ Initialized(p) \/ Dies(p)

-----------------------------------------------------------------------------
(* Whatever the processes did and wherever they died: the file's version   *)
(* says which tables it has, no table refers to one that is missing, a     *)
(* process that is ready has the whole schema, a file of a newer version   *)
(* is not used, and a start fails only when another one got ahead of it,   *)
(* so that the migrations it lost are done.                                *)
SchemaIsWhole ==
    /\ versions = 1..userVersion
    /\ \A version \in 1..SCHEMA_VERSION :
          /\ version \in versions => MIGRATIONS(version) \subseteq tables
          /\ version \notin versions /\ version > 1 => MIGRATIONS(version) \cap tables = {}
    /\ \A table \in tables : References(table) \subseteq tables
    /\ \A p \in Process :
          /\ process[p].pc = "ready" => userVersion = SCHEMA_VERSION /\ tables = UpTo(SCHEMA_VERSION)
          /\ process[p].pc = "refused" => userVersion > SCHEMA_VERSION
          /\ process[p].pc = "failed" => process[p].current < userVersion /\ Cardinality(Process) > 1
          /\ process[p].current <= userVersion

-----------------------------------------------------------------------------
(* The copy of the memories.                                               *)
Torn == "torn"
Idle == [step |-> "idle", op |-> "none", id |-> "none", version |-> 0, seen |-> <<>>]
ConstantsOK == {Torn, Idle.id} \cap Memory = {} /\ IsFiniteSet(Process)

AuditInit ==
    /\ primary = [id \in Memory |-> 0] /\ file = <<>> /\ thread = [t \in Thread |-> Idle]
    /\ degraded = {} /\ disturbed = FALSE /\ calls = 0

Lines(lines) == {lines[k] : k \in DOMAIN lines}
Holds(lines, id) == \E line \in Lines(lines) : line.id = id
Readable(lines) == ~Holds(lines, Torn)

(* append() of what is there leaves it, replace() makes a new version; the *)
(* primary commits before the copy is begun.                               *)
Commit(t, op, id) ==
    LET version == IF op = "append" /\ primary[id] > 0 THEN primary[id] ELSE primary[id] + 1
    IN /\ thread[t].step = "idle" /\ calls < MaxCalls /\ version <= MaxVersions
       /\ primary' = [primary EXCEPT ![id] = version]
       /\ thread' = [thread EXCEPT ![t] = [Idle EXCEPT !.step = "read", !.op = op, !.id = id, !.version = version]]
       /\ calls' = calls + 1
       /\ disturbed' = (disturbed \/ \E u \in Thread : thread[u].id = id)
       /\ UNCHANGED <<file, degraded>>

(* The copy begins with reading the file; an unreadable line, or any other *)
(* failure of the copy, is only reported.                                  *)
ReadFile(t) ==
    /\ thread[t].step = "read"
    /\ \/ /\ Readable(file)
          /\ thread' = [thread EXCEPT ![t].step = "write", ![t].seen = file]
          /\ UNCHANGED degraded
       \/ /\ degraded' = degraded \cup {thread[t].id}
          /\ thread' = [thread EXCEPT ![t] = Idle]
    /\ UNCHANGED <<primary, file, disturbed, calls>>

Copy(t) == [id |-> thread[t].id, version |-> thread[t].version]

(* Mutant: a record that is there is appended again.                       *)
AppendAlways(t) == Append(file, Copy(t))

AppendedFile(t) == IF Holds(thread[t].seen, thread[t].id) THEN file ELSE Append(file, Copy(t))

(* The whole file, as it was read, with the record in it.                  *)
ReplacedFile(t) ==
    LET seen == thread[t].seen
        at == {k \in DOMAIN seen : seen[k].id = thread[t].id}
    IN IF at # {}
       THEN [seen EXCEPT ![CHOOSE k \in at : \A j \in at : k <= j] = Copy(t)]
       ELSE Append(seen, Copy(t))

Written(t) == IF thread[t].op = "append" THEN AppendedFile(t) ELSE ReplacedFile(t)

WriteFile(t) ==
    /\ thread[t].step = "write"
    /\ file' = Written(t) /\ disturbed' = (disturbed \/ (thread[t].op = "replace" /\ file # thread[t].seen))
    /\ thread' = [thread EXCEPT ![t] = Idle]
    /\ UNCHANGED <<primary, degraded, calls>>

(* The process dies; of what a thread is writing a part may be there.      *)
ProcessDies ==
    /\ \E t \in Thread : thread[t].step # "idle"
    /\ \/ UNCHANGED file
       \/ \E t \in Thread :
             LET whole == Written(t)
             IN /\ thread[t].step = "write"
                /\ \E k \in 0..(Len(whole) - 1) :
                      /\ thread[t].op = "append" => k = Len(file) /\ Len(whole) > Len(file)
                      /\ file' = Append(SubSeq(whole, 1, k), [id |-> Torn, version |-> 0])
    /\ thread' = [t \in Thread |-> Idle] /\ disturbed' = TRUE
    /\ UNCHANGED <<primary, degraded, calls>>

AuditNext ==
    \/ \E t \in Thread : ReadFile(t) \/ WriteFile(t) \/ \E id \in Memory, op \in {"append", "replace"} : Commit(t, op, id)
    \/ ProcessDies

-----------------------------------------------------------------------------
(* The copy never holds what the primary did not.  Unless the process died *)
(* over a copy, two calls for one record overlapped, or a thread replaced  *)
(* the file over a change of another one, a record whose copy is missing   *)
(* or old was reported or is being copied, and no record is there twice.   *)
AuditIsObservable ==
    /\ \A line \in Lines(file) : line.id # Torn => line.version \in 1..primary[line.id]
    /\ disturbed \/ \A id \in Memory :
          \/ primary[id] = 0
          \/ [id |-> id, version |-> primary[id]] \in Lines(file)
          \/ id \in degraded
          \/ \E t \in Thread : thread[t].step # "idle" /\ thread[t].id = id
    /\ disturbed \/ \A j, k \in DOMAIN file : file[j].id = file[k].id => j = k
=============================================================================
