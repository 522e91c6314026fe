-------------------------- MODULE VectorProjection --------------------------
(***************************************************************************)
(* The texts that are projected from the turns of a session: blocks for    *)
(* the vector index, their batches, and the input and output of the        *)
(* projection by a model.  A text is its length; a blank one has length 0. *)
(* And how texts get their vectors: the requests of QwenFlashEmbedder.     *)
(***************************************************************************)
EXTENDS Integers, Sequences, FiniteSets, SequencesExt, FiniteSetsExt

CONSTANTS
    MAX_BLOCK_CHARS, MAX_BLOCKS_PER_SESSION, MAX_BATCH_CHARS, MAX_BATCH_ITEMS,
    MAX_TURN_CHARS,   \* 1000: what the model is shown of a turn at most
    MaxInputChars,    \* max_input_chars
    BatchSize, MaxRetries,   \* batch_size, max_retries
    Phase             \* the moments that a query with a deadline may take

VARIABLES turns,      \* the lengths of the turns of a session
          call        \* a call of the embedder, and what it has so far

(* The limits that QwenFlashEmbedder refuses to be made with otherwise,    *)
(* and a query with some time.                                             *)
ConstantsOK == BatchSize \in Nat \ {0} /\ MaxRetries \in Nat /\ Phase \in Nat \ {0}

Smaller(a, b) == IF a < b THEN a ELSE b

-----------------------------------------------------------------------------
(* project_session(): turns are joined by a blank as long as the block has *)
(* room; the session ends early, and says so, at a turn that is longer     *)
(* than a block and when there are blocks enough.                          *)
NoBlock == [turns |-> <<>>, chars |-> 0]
Start == [blocks |-> <<>>, open |-> NoBlock, over |-> FALSE]

Closed(block, truncated) == [turns |-> block.turns, chars |-> block.chars, truncated |-> truncated]

Full(p, chars) == p.open.chars > 0 /\ p.open.chars + 1 + chars > MAX_BLOCK_CHARS

(* Mutant: the last block does not say that turns are missing.             *)
PutAwaySilently(p) ==
    LET last == Len(p.blocks) + 1 = MAX_BLOCKS_PER_SESSION
    IN [blocks |-> Append(p.blocks, Closed(p.open, FALSE)), open |-> NoBlock, over |-> last]

(* The block is put away; whether the session ends with it.                *)
PutAway(p) ==
    LET last == Len(p.blocks) + 1 = MAX_BLOCKS_PER_SESSION
    IN [blocks |-> Append(p.blocks, Closed(p.open, last)), open |-> NoBlock, over |-> last]

Fill(p, t, chars) ==
    LET gap == IF p.open.chars > 0 THEN 1 ELSE 0
        room == MAX_BLOCK_CHARS - p.open.chars - gap
        block == [turns |-> Append(p.open.turns, t), chars |-> p.open.chars + gap + Smaller(chars, room)]
    IN IF room <= 0 THEN p
       ELSE IF chars > room THEN [blocks |-> Append(p.blocks, Closed(block, TRUE)), open |-> NoBlock, over |-> TRUE]
       ELSE [p EXCEPT !.open = block]

Project(p, t) ==
    IF p.over \/ turns[t] = 0 THEN p
    ELSE IF Full(p, turns[t])
         THEN LET q == PutAway(p) IN IF q.over THEN q ELSE Fill(q, t, turns[t])
         ELSE Fill(p, t, turns[t])

Blocks ==
    LET p == FoldLeft(Project, Start, [t \in DOMAIN turns |-> t])
    IN IF p.open.chars > 0 /\ Len(p.blocks) < MAX_BLOCKS_PER_SESSION
       THEN Append(p.blocks, Closed(p.open, FALSE)) ELSE p.blocks

(* projection_batches()                                                    *)
Chars(batch) == FoldLeft(LAMBDA sum, b : sum + b.chars, 0, batch)

IntoBatch(batches, b) ==
    IF batches # <<>> /\ Len(Last(batches)) < MAX_BATCH_ITEMS /\ Chars(Last(batches)) + b.chars <= MAX_BATCH_CHARS
    THEN Append(Front(batches), Append(Last(batches), b)) ELSE Append(batches, <<b>>)

Batches(blocks) == FoldLeft(IntoBatch, <<>>, blocks)

-----------------------------------------------------------------------------
(* LLMMemoryProjector: what the model is shown of each turn ...            *)
Show(shown, t) ==
    LET available == MaxInputChars - FoldLeft(LAMBDA sum, n : sum + n, 0, shown)
    IN IF Len(shown) = t - 1 /\ available > 0
       THEN Append(shown, Smaller(turns[t], Smaller(MAX_TURN_CHARS, available))) ELSE shown

Bounded == FoldLeft(Show, <<>>, [t \in DOMAIN turns |-> t])

InputTruncated == Len(Bounded) # Len(turns) \/ \E t \in DOMAIN Bounded : Bounded[t] # turns[t]

(* ... and what is taken of its answers.  An answer is the turns that each *)
(* of its projections cites, none for one that is not well formed; there   *)
(* is one second request when the first answer is not taken.               *)
Answer == {{}} \cup {{a, b} : a, b \in SUBSET (DOMAIN turns)}

Acceptable(answer) ==
    answer # {} /\ \A cited \in answer : cited # {} /\ cited \subseteq DOMAIN Bounded

Failed == {[status |-> "failed", turns |-> {}, truncated |-> InputTruncated]}

Taken(first, repair) ==
    LET Of(answer) == {[status |-> "active", turns |-> cited, truncated |-> InputTruncated] : cited \in answer}
    IN IF Acceptable(first) THEN Of(first) ELSE IF Acceptable(repair) THEN Of(repair) ELSE Failed

-----------------------------------------------------------------------------
(* QwenFlashEmbedder: the batches of a call are asked for one by one.  A   *)
(* query with a deadline (timed) is asked once a batch, in the moments of  *)
(* its phase; another is tried again when the service is not available.    *)
Calls(maxTexts) ==
    [texts : 1..maxTexts, timed : BOOLEAN, vectors : {<<>>}, attempt : {0}, posts : {0}, spent : {0}, status : {"asking"}]

Count == Smaller(BatchSize, call.texts - Len(call.vectors))

(* What the service answers of n texts: items by their indices, of which   *)
(* n is none of the batch; vector k is the one of the k-th text.           *)
Items(n) == UNION {[1..m -> 0..n] : m \in (n - 1)..n}

(* Mutant of Parsed: the vectors come in the order of the answer.          *)
ParsedInOrder(items, n) ==
    IF Len(items) = n /\ (\A k \in DOMAIN items : items[k] < n) /\ IsInjective(items)
    THEN {[k \in 1..n |-> Len(call.vectors) + items[k] + 1]} ELSE {}

(* _parse: every index once, and the vectors by their indices.             *)
Parsed(items, n) ==
    IF Len(items) = n /\ (\A k \in DOMAIN items : items[k] < n) /\ IsInjective(items)
    THEN LET Of(index) == CHOOSE k \in DOMAIN items : items[k] = index
         IN {[k \in 1..n |-> Len(call.vectors) + items[Of(k - 1)] + 1]} ELSE {}

Ends(status) == call' = [call EXCEPT !.status = status, !.posts = @ + 1]

(* The answer is of this batch, or the whole call fails.                   *)
Answered(time) ==
    \E items \in Items(Count) :
       \/ \E vectors \in Parsed(items, Count) :
             call' = [call EXCEPT !.vectors = @ \o vectors, !.attempt = 0, !.posts = @ + 1, !.spent = @ + time,
                                  !.status = IF Len(call.vectors) + Count = call.texts THEN "done" ELSE @]
       \/ Parsed(items, Count) = {} /\ Ends("invalid")

(* Mutant of MayRetry: it tries again for as long as it takes.             *)
RetriesOn(attempt) == ~call.timed

(* _request: 408, 429, 5xx and transport errors are tried again.           *)
MayRetry(attempt) == ~call.timed /\ attempt < MaxRetries

Unavailable(status) ==
    IF MayRetry(call.attempt) THEN call' = [call EXCEPT !.attempt = @ + 1, !.posts = @ + 1] ELSE Ends(status)

(* embed, embed_query: one request and what becomes of it.                 *)
Post ==
    /\ call.status = "asking"
    /\ \/ \E time \in IF call.timed THEN 0..1 ELSE {0} :
             call.spent + time < Phase /\ Answered(time)
       \/ \E status \in {"transport_error", "http_error"} : Unavailable(status)
       \/ Ends("http_error")
       \/ call.timed /\ Ends("timeout")

(* The vectors of a call are those of its texts, in their order and all of *)
(* them or none; a batch is asked for again MaxRetries times at most, and  *)
(* not at all by a query, which is answered within its phase.              *)
Batched == (call.texts + BatchSize - 1) \div BatchSize
EmbeddingHolds ==
    /\ call.status = "done" => call.vectors = [k \in 1..call.texts |-> k]
    /\ call.posts <= Batched * (IF call.timed THEN 1 ELSE MaxRetries + 1)
    /\ call.timed => call.spent < Phase

-----------------------------------------------------------------------------
(* A block that does not say it is cut stands for whole turns, and unless  *)
(* the last one says so every turn that is not blank is in one block; the  *)
(* batches are the blocks in order; all limits are kept.                   *)
Covered == UNION {ToSet(b.turns) : b \in ToSet(Blocks)}

BlocksAreHonest ==
    /\ Len(Blocks) <= MAX_BLOCKS_PER_SESSION
    /\ \A b \in ToSet(Blocks) : b.chars <= MAX_BLOCK_CHARS
    /\ \A k \in DOMAIN Blocks : ~Blocks[k].truncated =>
          Blocks[k].chars = FoldLeft(LAMBDA sum, t : sum + turns[t], 0, Blocks[k].turns) + Len(Blocks[k].turns) - 1
    /\ (Blocks = <<>> \/ ~Last(Blocks).truncated) => Covered = {t \in DOMAIN turns : turns[t] > 0}
    /\ FlattenSeq([k \in DOMAIN Blocks |-> Blocks[k].turns]) = SelectSeq([t \in DOMAIN turns |-> t], LAMBDA t : t \in Covered)

BatchesKeepTheLimits ==
    \A n \in 1..3 : LET blocks == FlattenSeq([k \in 1..n |-> Blocks]) IN
        /\ FlattenSeq(Batches(blocks)) = blocks
        /\ \A batch \in ToSet(Batches(blocks)) :
              Len(batch) <= MAX_BATCH_ITEMS /\ (Chars(batch) <= MAX_BATCH_CHARS \/ Len(batch) = 1)

(* The model never sees more than it may, what was cut is said on every    *)
(* projection, and no projection cites a turn the model has not seen.      *)
ModelInputIsBounded ==
    /\ FoldLeft(LAMBDA sum, n : sum + n, 0, Bounded) <= MaxInputChars
    /\ \A answer \in Answer, repair \in {{}, {DOMAIN turns}} : \A p \in Taken(answer, repair) :
          /\ p.turns \subseteq DOMAIN Bounded
          /\ p.truncated <=> \E t \in DOMAIN turns : t \notin DOMAIN Bounded \/ Bounded[t] < turns[t]

ProjectionHolds == BlocksAreHonest /\ BatchesKeepTheLimits /\ ModelInputIsBounded
=============================================================================
