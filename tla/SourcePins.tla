------------------------------ MODULE SourcePins ------------------------------
(***************************************************************************)
(* The source a session has read, and the turns it remembers.              *)
(*                                                                         *)
(* A read pins the body of a source.  The next request shows the pinned    *)
(* bodies, and ages them: what has aged stays pinned as a pointer.  The    *)
(* latest turns are remembered one by one and the older ones in a digest.  *)
(* A checkpoint at the end of a turn keeps the pins as references.  A turn *)
(* makes one call here; the bytes of read_evidence are not counted.        *)
(***************************************************************************)
EXTENDS Naturals, Sequences, FiniteSets, SequencesExt

CONSTANTS Source,       \* chunks of source
          Candidates,   \* the sequences of sources read_evidence is asked for
          Sticky,       \* source_pin_policy is "sticky_bodies"
          MaxPins,      \* max_source_pins
          MaxSlices,    \* max_source_slices of a request
          MaxFragments, \* fragments a run may hold, 4 in the code
          RecentLimit,  \* recent_turn_limit
          MaxTurns,     \* bound: max_turns of a run
          MaxResumes    \* bound: how often the session is resumed

VARIABLES
    pins,      \* source_pins: [source, evidence, ttl]
    reads,     \* how often evidence was appended; its identity
    done,      \* completed_invocations
    recent,    \* recent_turns, as their numbers
    folded,    \* compacted_turns
    sticky,    \* the source_slice_refs of the working set
    saved,     \* the latest checkpoint
    step,      \* "pack", "act", "stopped", or "over"
    repeated,  \* duplicate_only_turns
    turns,     \* turns of this run
    resumes,
    shown,     \* the sources whose bodies the last request held
    asked,     \* the sources the turn before it read, or wanted to
    outcome

pinVars == <<pins, reads, done, recent, folded, sticky, saved, step, repeated, turns, resumes, shown, asked, outcome>>

Ttl == IF Sticky THEN 64 ELSE 1
Reference(pin) == [source |-> pin.source, evidence |-> pin.evidence]
References(list) == [k \in DOMAIN list |-> Reference(list[k])]
NoCheckpoint == [pins |-> <<>>, done |-> {}, recent |-> <<>>, folded |-> 0, sticky |-> <<>>]

PinInit ==
    /\ pins = <<>> /\ reads = 0 /\ done = {} /\ recent = <<>> /\ folded = 0 /\ sticky = <<>>
    /\ saved = NoCheckpoint /\ step = "pack" /\ repeated = 0 /\ turns = 0 /\ resumes = 0
    /\ shown = {} /\ asked = {} /\ outcome = "none"

-----------------------------------------------------------------------------
(* upsert_pin()                                                            *)
Upsert(list, pin) ==
    LET out == Append(SelectSeq(list, LAMBDA p : p.evidence # pin.evidence), pin)
    IN IF Len(out) > MaxPins THEN SubSeq(out, Len(out) - MaxPins + 1, Len(out)) ELSE out

HasBody(pin) == pin.ttl > 0
Aged(pin) == IF HasBody(pin) THEN [pin EXCEPT !.ttl = @ - 1] ELSE pin

(* Mutant: what was shown is not aged.                                     *)
KeepBodies == UNCHANGED pins

Age == pins' = [k \in DOMAIN pins |-> Aged(pins[k])]

(* A request is packed: its first MaxSlices slices are the oldest pins;    *)
(* every body that was offered ages, whether it found a place or not.      *)
PackRequest ==
    /\ step = "pack" /\ turns < MaxTurns
    /\ shown' = {pins[k].source : k \in {j \in DOMAIN pins : j <= MaxSlices /\ HasBody(pins[j])}}
    /\ Age
    /\ step' = "act" /\ turns' = turns + 1
    /\ UNCHANGED <<reads, done, recent, folded, sticky, saved, repeated, resumes, asked, outcome>>

MaxTurnsReached ==
    /\ step = "pack" /\ turns = MaxTurns /\ step' = "over" /\ outcome' = "max_turns_exceeded"
    /\ UNCHANGED <<pins, reads, done, recent, folded, sticky, saved, repeated, turns, resumes, shown, asked>>

(* The model answers with a diagnosis.                                     *)
Answer ==
    /\ step = "act" /\ step' = "over" /\ outcome' = "completed"
    /\ UNCHANGED <<pins, reads, done, recent, folded, sticky, saved, repeated, turns, resumes, shown, asked>>

-----------------------------------------------------------------------------
(* One call of a turn: what it pins, whether it ran, whether it is done.   *)
Pinned(list, sources) ==
    FoldLeft(LAMBDA acc, k : Upsert(acc, [source |-> sources[k], evidence |-> reads + k, ttl |-> Ttl]), list, [k \in DOMAIN sources |-> k])

(* Mutant: the turn is remembered, but not its checkpoint's references.    *)
RememberOnly(sources) ==
    LET all == Append(recent, turns)
        over == Len(all) > RecentLimit
    IN /\ recent' = IF over THEN Tail(all) ELSE all
       /\ folded' = IF over THEN folded + 1 ELSE folded
       /\ sticky' = sticky
       /\ saved' = [pins |-> References(pins'), done |-> done', recent |-> recent', folded |-> folded', sticky |-> sticky']

(* The end of a turn: it is remembered, the oldest is folded, the pins are *)
(* referred to from the working set, and a checkpoint is saved.            *)
Remember(sources) ==
    LET all == Append(recent, turns)
        over == Len(all) > RecentLimit
    IN /\ recent' = IF over THEN Tail(all) ELSE all
       /\ folded' = IF over THEN folded + 1 ELSE folded
       /\ sticky' = IF pins' = <<>> THEN sticky ELSE References(pins')
       /\ saved' = [pins |-> References(pins'), done |-> done', recent |-> recent', folded |-> folded', sticky |-> sticky']

TurnEnds(sources, ran) ==
    /\ asked' = sources
    /\ IF ~ran /\ repeated = 1
       THEN /\ step' = "over" /\ outcome' = "model_non_convergent" /\ repeated' = 2
            /\ UNCHANGED <<recent, folded, sticky, saved>>
       ELSE /\ step' = "pack" /\ repeated' = (IF ran THEN 0 ELSE repeated + 1)
            /\ Remember(sources) /\ UNCHANGED outcome
    /\ UNCHANGED <<turns, resumes, shown>>

Runs(key, sources) ==
    \E ok \in BOOLEAN :
        /\ pins' = IF ok THEN Pinned(pins, sources) ELSE pins
        /\ reads' = IF ok THEN reads + Len(sources) ELSE reads
        /\ done' = IF ok THEN done \cup {key} ELSE done
        /\ TurnEnds(IF ok THEN ToSet(sources) ELSE {}, TRUE)

(* The call is not made; a call that counts as made is done.               *)
NotMade(key, sources, counts) ==
    /\ done' = IF counts THEN done \cup {key} ELSE done
    /\ UNCHANGED <<pins, reads>>
    /\ TurnEnds(sources, FALSE)

(* code_map.read_source                                                    *)
ReadSource(s) ==
    /\ step = "act"
    /\ IF <<s>> \in done THEN NotMade(<<s>>, {s}, FALSE) ELSE Runs(<<s>>, <<s>>)

(* code_retrieval.read_evidence: what is pinned, a pointer too, is not     *)
(* read again; the pins leave the run so many fragments.                   *)
ReadEvidence(list) ==
    LET isPinned(s) == \E k \in DOMAIN pins : pins[k].source = s
        new == SelectSeq(list, LAMBDA s : ~isPinned(s))
        room == MaxFragments - Len(pins)
        key == <<"evidence", list>>
    IN /\ step = "act"
       /\ CASE new = <<>> -> NotMade(key, ToSet(list), TRUE)
            [] new # <<>> /\ (Len(pins) >= MaxFragments \/ key \in done) -> NotMade(key, {}, FALSE)
            [] OTHER -> Runs(key, SubSeq(new, 1, IF Len(new) < room THEN Len(new) ELSE room))

(* Another tool.                                                           *)
CallOther ==
    /\ step = "act"
    /\ UNCHANGED <<pins, reads, done>>
    /\ TurnEnds({}, TRUE)

(* The run ends without an answer, or its process does.                    *)
Interrupted ==
    /\ step = "act" /\ step' = "stopped"
    /\ UNCHANGED <<pins, reads, done, recent, folded, sticky, saved, repeated, turns, resumes, shown, asked, outcome>>

(* The latest checkpoint is loaded: pointers, or the bodies read again.    *)
Resume ==
    /\ step = "stopped" /\ resumes < MaxResumes
    /\ pins' = [k \in DOMAIN saved.pins |-> [source |-> saved.pins[k].source, evidence |-> saved.pins[k].evidence,
                                             ttl |-> IF Sticky THEN 1 ELSE 0]]
    /\ done' = saved.done /\ recent' = saved.recent /\ folded' = saved.folded /\ sticky' = saved.sticky
    /\ step' = "pack" /\ repeated' = 0 /\ turns' = 0 /\ resumes' = resumes + 1 /\ asked' = {}
    /\ UNCHANGED <<reads, saved, shown, outcome>>

PinNext ==
    \/ PackRequest \/ MaxTurnsReached \/ Answer \/ CallOther \/ Interrupted \/ Resume
    \/ \E s \in Source : ReadSource(s)
    \/ \E list \in Candidates : ReadEvidence(list)

-----------------------------------------------------------------------------
(* A checkpoint accounts for every turn: the latest are remembered one by  *)
(* one and in order, and the others are in the digest.                     *)
TurnsAreAccounted ==
    /\ Len(saved.recent) <= RecentLimit
    /\ \A k \in 1..(Len(recent) - 1) : resumes = 0 => recent[k + 1] = recent[k] + 1
    /\ resumes = 0 /\ step = "pack" => Len(recent) + folded = turns

(* No evidence is pinned twice and no more than MaxPins are; a body is in  *)
(* one request only, unless bodies are sticky: the one after its read; a   *)
(* checkpoint's working set refers to what its pins do, and accounts for   *)
(* every turn.                                                             *)
PinsAgree ==
    /\ Len(pins) <= MaxPins
    /\ \A j, k \in DOMAIN pins : pins[j].evidence = pins[k].evidence => j = k
    /\ ~Sticky /\ step = "act" => shown \subseteq asked
    /\ saved.pins = saved.sticky
    /\ TurnsAreAccounted
=============================================================================
