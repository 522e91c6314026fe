---------------------------- MODULE MemoryRecall ----------------------------
(***************************************************************************)
(* What a session is told of earlier ones.  Three channels (full text,     *)
(* exact identifiers, vectors) each rank the active records of the         *)
(* operator and the incident, a channel that fails is bypassed, and        *)
(* reciprocal rank fusion makes one ranking of them; sums of floating      *)
(* point reciprocals are exact fractions here.  The rows of the memory     *)
(* store that are in scope are read first; then they are ranked, which may *)
(* ask an embedder over the network; then the clock is read once, and one  *)
(* copy after the other goes through the trust gates.  Those admitted are  *)
(* told, as long as the token budget lasts.  Rows and evidence are written *)
(* at any time.  A recall leaves nothing behind: a behaviour has one.      *)
(*                                                                         *)
(* A row is a record: its identity (operator, agent, incident), the        *)
(* session it names if any, in which schema it is written, its status,     *)
(* when it is valid, how sure its extraction was (in percent), what it     *)
(* refers to, and what its text costs.                                     *)
(***************************************************************************)
EXTENDS Integers, Sequences, FiniteSets, SequencesExt, FiniteSetsExt

CONSTANTS
    Memory,      \* identifiers of memory records
    Rows,        \* the rows the writers of the store make
    Evidence,    \* identifiers of evidence
    Hashes,      \* contents of evidence
    Scope,       \* the operator, agent, incident and session that recall
    DigestCost,  \* tokens of the digest of the session itself
    TokenBudget,
    LastMoment,  \* bound of the clock
    Later,       \* bound: what the rows written while a recall goes on may be,
    MaxLater,        \* and how many may be
    Candidate,   \* identifiers the channels rank, ordered as strings: natural numbers
    Channel,     \* lexical, identifier, vector
    K,           \* the damping constant, 60 in the code
    Limit        \* of the answer of a channel and of the fused one

VARIABLES
    rows,      \* memory_records
    evidence,  \* the evidence table: the content of each that is there
    now,
    place,     \* where the recall is; "gates" once it has its clock
    read,      \* raw_records: copies of the rows in scope
    ranking,   \* the copies in the order of their ranks
    gated,     \* how many of them have gone through the gates
    selected,  \* those that were admitted
    rewritten, arrived, \* history: memories and evidence written since the read
    ranked     \* what each channel answered; <<>> for one that is bypassed

storeVars == <<rows, evidence, now>>
runVars == <<place, read, ranking, gated, selected>>
recallVars == <<storeVars, runVars, rewritten, arrived>>

Smaller(a, b) == IF a < b THEN a ELSE b

Lifecycles == {"active", "superseded", "retracted", "conflict", "pending", "failed"}

Init ==
    /\ rows = <<>> /\ evidence = <<>> /\ now = 0
    /\ place = "before" /\ read = <<>> /\ ranking = <<>> /\ gated = 0 /\ selected = <<>>
    /\ rewritten = {} /\ arrived = {}

-----------------------------------------------------------------------------
(* The stores.  While the recall goes on, what is written is bounded.      *)
Reading == place # "before"
Write(m, row) ==
    /\ Reading => row \in Later /\ Cardinality(rewritten) < MaxLater
    /\ rows' = [n \in DOMAIN rows \cup {m} |-> IF n = m THEN row ELSE rows[n]]
    /\ rewritten' = IF Reading THEN rewritten \cup {m} ELSE {}
    /\ UNCHANGED <<evidence, now, runVars, arrived>>

(* append(): a record that is there already must be the same.              *)
AppendRow(m, row) == m \notin DOMAIN rows /\ Write(m, row)

(* replace(): a preference that was merged or superseded.                  *)
ReplaceRow(m, row) == m \in DOMAIN rows /\ row.operator = rows[m].operator /\ Write(m, row)

(* put_once(): evidence does not change.                                   *)
PutOnce(e, hash) ==
    /\ e \notin DOMAIN evidence
    /\ evidence' = [d \in DOMAIN evidence \cup {e} |-> IF d = e THEN hash ELSE evidence[d]]
    /\ arrived' = IF Reading THEN arrived \cup {e} ELSE {}
    /\ UNCHANGED <<rows, now, runVars, rewritten>>

(* The clock: a recall that has read it does not look at it again.         *)
Tick ==
    /\ now < LastMoment /\ place # "gates"
    /\ now' = now + 1
    /\ UNCHANGED <<rows, evidence, runVars, rewritten, arrived>>

-----------------------------------------------------------------------------
(* matches_namespace(), for the namespace of a scope, which names no type  *)
(* or visibility but does name the session; the tenant is taken with the   *)
(* agent.                                                                  *)
MatchesNamespace(row) ==
    /\ row.operator = Scope.operator /\ row.agent = Scope.agent
    /\ row.incident \in {"none", Scope.incident}
    /\ row.session \in {"none", Scope.session}

ListByScope == {m \in DOMAIN rows : MatchesNamespace(rows[m])}

(* from_legacy_or_dict(): a row of an earlier schema keeps the references  *)
(* that say what they are; evidence without its hash is unknown.  A status *)
(* that is not of a memory's life is pending.                              *)
LegacyReference(ref) == IF ref.type = "evidence" /\ ref.hash = "none" THEN [ref EXCEPT !.type = "unknown"] ELSE ref

FromLegacyOrDict(row) ==
    IF row.schema = 2 THEN row
    ELSE [row EXCEPT !.refs = {LegacyReference(ref) : ref \in row.refs},
                     !.status = IF @ \in Lifecycles THEN @ ELSE "pending"]

-----------------------------------------------------------------------------
(* TrustedMemoryRecall                                                     *)

ReferenceHolds(ref) ==
    /\ ref.type # "unknown"
    /\ ref.type = "evidence" => ref.id \in DOMAIN evidence /\ evidence[ref.id] = ref.hash

(* Mutant: the end of validity itself still counts.                        *)
StillValid(r) ==
    /\ r.operator = Scope.operator /\ r.agent = Scope.agent
    /\ r.incident \in {"none", Scope.incident}
    /\ r.status = "active"
    /\ r.from <= now /\ (r.to = -1 \/ r.to >= now)
    /\ \A ref \in r.refs : ReferenceHolds(ref)

(* _reject_reason() finds none.                                            *)
NotRejected(r) ==
    /\ r.operator = Scope.operator /\ r.agent = Scope.agent
    /\ r.incident \in {"none", Scope.incident}
    /\ r.status = "active"
    /\ r.from <= now /\ (r.to = -1 \/ r.to > now)
    /\ \A ref \in r.refs : ReferenceHolds(ref)

(* 0.6 of the trust in the source and 0.4 of the extraction, in percent.   *)
Score(r) == (IF \E ref \in r.refs : ref.type = "evidence" THEN 60 ELSE 42) + (4 * r.confidence) \div 10

Tier(r) == IF Score(r) >= 80 THEN "verified" ELSE IF Score(r) >= 50 THEN "hypothesis" ELSE "blocked"

(* A hypothesis is marked as one, which costs a token here.                *)
Cost(r) == r.cost + (IF Tier(r) = "hypothesis" THEN 1 ELSE 0)

-----------------------------------------------------------------------------
(* A recall.                                                               *)

Copy(m) == FromLegacyOrDict(read[m])

ReadRows ==
    /\ place = "before" /\ place' = "read"
    /\ read' = [m \in ListByScope |-> rows[m]]
    /\ UNCHANGED <<storeVars, ranking, gated, selected, rewritten, arrived>>

(* The channels and their fusion answer with records of the operator as    *)
(* they are by now; one that was not read is left out.                     *)
Rank ==
    /\ place = "read" /\ place' = "ranked"
    /\ \E s \in {s \in UNION {[1..n -> DOMAIN rows] : n \in 0..Cardinality(DOMAIN rows)} : IsInjective(s)} :
          ranking' = SelectSeq(s, LAMBDA m : m \in DOMAIN read)
    /\ UNCHANGED <<storeVars, read, gated, selected, rewritten, arrived>>

(* now=self.clock()                                                        *)
ReadClock ==
    /\ place = "ranked" /\ place' = "gates"
    /\ UNCHANGED <<storeVars, read, ranking, gated, selected, rewritten, arrived>>

(* The evidence of a record is looked up when its turn comes.              *)
Gate ==
    /\ place = "gates" /\ gated < Len(ranking)
    /\ gated' = gated + 1
    /\ LET m == ranking[gated'] IN
       selected' = IF NotRejected(Copy(m)) /\ Tier(Copy(m)) # "blocked" THEN Append(selected, m) ELSE selected
    /\ UNCHANGED <<storeVars, place, read, ranking, rewritten, arrived>>

Next ==
    \/ \E m \in Memory, row \in Rows : AppendRow(m, row) \/ ReplaceRow(m, row)
    \/ \E e \in Evidence, hash \in Hashes : PutOnce(e, hash)
    \/ Tick
    \/ ReadRows \/ Rank \/ ReadClock \/ Gate

(* The digest comes first, cut to the budget; then each record that still  *)
(* fits.                                                                   *)
Inject(view, m) ==
    LET r == Copy(m) IN
    IF view.used + Cost(r) <= TokenBudget
    THEN [used |-> view.used + Cost(r), memories |-> Append(view.memories, m),
          refs |-> view.refs \cup {ref.id : ref \in {x \in r.refs : x.type = "evidence"}}]
    ELSE view

View == FoldLeft(Inject, [used |-> Smaller(DigestCost, TokenBudget), memories |-> <<>>, refs |-> {}], selected)

-----------------------------------------------------------------------------
(* The channels and their fusion.                                          *)
(* What search() may answer: at most Limit records, each once.             *)
Answers == {s \in UNION {[1..n -> Candidate] : n \in 0..Limit} : IsInjective(s)}

FusionInit == ranked \in [Channel -> Answers]

(* A channel that fails answers nothing; the others go on.                 *)
Bypass(c) == ranked[c] # <<>> /\ ranked' = [ranked EXCEPT ![c] = <<>>]

FusionNext == \E c \in Channel : Bypass(c)

RankIn(c, m) == CHOOSE r \in DOMAIN ranked[c] : ranked[c][r] = m

In(m) == {c \in Channel : Contains(ranked[c], m)}

Merged == {m \in Candidate : In(m) # {}}

(* The common multiple of the denominators makes the scores whole numbers. *)
Whole == FoldSet(LAMBDA r, p : p * (K + r), 1, 1..Limit)

ScoreOf(m) == MapThenSumSet(LAMBDA c : Whole \div (K + RankIn(c, m)), In(m))

(* Mutant: the sign of the score is lost.                                  *)
Behind(m, n) == ScoreOf(m) < ScoreOf(n) \/ (ScoreOf(m) = ScoreOf(n) /\ m < n)

Before(m, n) == ScoreOf(m) > ScoreOf(n) \/ (ScoreOf(m) = ScoreOf(n) /\ m < n)

Fused == LET all == SetToSortSeq(Merged, Before) IN SubSeq(all, 1, Smaller(Len(all), Limit))

-----------------------------------------------------------------------------
(* Whatever is written to the store, superseded, or put out of date while  *)
(* a recall goes on: what a session is told is its operator's, its         *)
(* incident's or nobody's, of no other session, was active when the rows   *)
(* were read, valid when the clock was, and rests on evidence that is      *)
(* there as it was when the memory was made.  What was not written since   *)
(* the read is so in the store; what was superseded since is told.         *)
OnlyTrusted == \A m \in ToSet(View.memories) :
    LET row == read[m] IN
    /\ row.operator = Scope.operator /\ row.incident \in {"none", Scope.incident}
    /\ row.session \in {"none", Scope.session}
    /\ row.status = "active" /\ row.from <= now /\ ~(row.to # -1 /\ now >= row.to)
    /\ \A ref \in row.refs : ref.type = "evidence" => ref.id \in DOMAIN evidence /\ ref.hash = evidence[ref.id]
    /\ \A ref \in row.refs : ref.type # "unknown"
    /\ rows[m] # row => m \in rewritten

(* A memory that only a conclusion of the model backs is never told as     *)
(* verified unless its extraction was almost certain.                      *)
VerifiedRestsOnEvidence == LET view == View IN
    \A m \in ToSet(view.memories) :
    Tier(Copy(m)) = "verified" => Copy(m).confidence >= 95 \/ \E ref \in Copy(m).refs : ref.id \in view.refs

(* The budget is kept, in the order of the ranks, and a trusted memory is  *)
(* left out only when it does not fit in what is left, or rests on         *)
(* evidence that came while the recall went on.                            *)
BudgetIsKept == LET view == View IN
    /\ view.used <= TokenBudget
    /\ \A m \in {ranking[k] : k \in 1..gated} :
          NotRejected(Copy(m)) /\ Tier(Copy(m)) # "blocked" /\ (\A ref \in Copy(m).refs : ref.id \notin arrived) =>
              Contains(view.memories, m) \/ view.used + Cost(Copy(m)) > TokenBudget

RecallIsTrusted == OnlyTrusted /\ VerifiedRestsOnEvidence /\ BudgetIsKept

(* Ranked at least as well by every channel, and better by one.            *)
Dominates(m, n) ==
    /\ In(n) \subseteq In(m)
    /\ \A c \in In(n) : RankIn(c, m) <= RankIn(c, n)
    /\ In(n) # In(m) \/ \E c \in In(n) : RankIn(c, m) < RankIn(c, n)

(* No record is answered twice or out of nothing, and none is left out, or *)
(* put behind, for one that every channel ranks lower.                     *)
FusionIsFair ==
    /\ IsInjective(Fused) /\ ToSet(Fused) \subseteq Merged
    /\ Len(Fused) = Smaller(Limit, Cardinality(Merged))
    /\ \A m, n \in Merged : Dominates(m, n) /\ Contains(Fused, n) =>
          \E i, j \in DOMAIN Fused : Fused[i] = m /\ Fused[j] = n /\ i < j
=============================================================================
