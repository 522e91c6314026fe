----------------------------- MODULE SourceChunks -----------------------------
(***************************************************************************)
(* How the parser cuts the source of a symbol into chunks, how a chunk     *)
(* that was archived is read as text, and how that text is cut again into  *)
(* search documents: always between whole characters.                      *)
(*                                                                         *)
(* A source is the sequence of its bytes: "lead" begins a character,       *)
(* "tail" goes on with it, "line" is a character that ends a line.         *)
(* Positions are offsets: a piece is the bytes raw[from + 1] to raw[to].   *)
(***************************************************************************)
EXTENDS Integers, Sequences, FiniteSets, SequencesExt, FiniteSetsExt

CONSTANTS MAX_CHUNK_BYTES, MAX_CHUNK_LINES  \* 16,384 and 200

Least(a, b) == IF a < b THEN a ELSE b

(* UTF-8: a character has one byte to four; a width of 0 is a line's end.  *)
Character(width) == [k \in 1..width |-> IF k = 1 THEN "lead" ELSE "tail"]
Encoded(widths) == FlattenSeq([k \in DOMAIN widths |-> IF widths[k] = 0 THEN <<"line">> ELSE Character(widths[k])])

(* _line_offsets(): where each line begins, and where the last one ends.   *)
LineOffsets(raw) ==
    SetToSortSeq({0, Len(raw)} \cup {e \in DOMAIN raw : raw[e] = "line"}, LAMBDA a, b : a < b)

(* _line_for_offset(): lines are counted from one.                         *)
LineForOffset(offsets, at) ==
    LET after == {k \in 1..(Len(offsets) - 1) : at < offsets[k + 1]}
    IN IF after # {} THEN Min(after) ELSE Max({1, Len(offsets) - 1})

(* Where the line after the line with this number begins, if there is one. *)
EndOfLine(offsets, line, otherwise) == IF line < Len(offsets) THEN offsets[line + 1] ELSE otherwise

-----------------------------------------------------------------------------
(* _chunks_for(): a symbol is [first, last], the numbers of its lines.  The *)
(* last line a piece may reach is counted from the symbol's first line.    *)
LineLimit(symbol, offsets, cursor) == Least(symbol.last, symbol.first + MAX_CHUNK_LINES - 1)

(* Mutant: a piece goes on to the symbol's end when it may have more bytes. *)
CutAnywhere(symbol, offsets, cursor, end) ==
    [from |-> cursor, to |-> Least(end, cursor + MAX_CHUNK_BYTES), partial |-> FALSE]

Cut(symbol, offsets, cursor, end) ==
    LET next == EndOfLine(offsets, LineLimit(symbol, offsets, cursor), end)
        target == Least(end, Least(next, cursor + MAX_CHUNK_BYTES))
    IN IF target = cursor
       THEN [from |-> cursor, to |-> Least(end, cursor + MAX_CHUNK_BYTES), partial |-> TRUE]
       ELSE [from |-> cursor, to |-> target, partial |-> target < end /\ target # next]

(* The pieces that are cut before one ends where an earlier one began: the *)
(* next piece depends on nothing but the cursor.                           *)
Pieces(symbol, offsets, start, end) ==
    LET from[cursor \in 0..end, left \in 0..(end + 1)] ==
            IF cursor >= end \/ left = 0 THEN <<>>
            ELSE LET piece == Cut(symbol, offsets, cursor, end) IN <<piece>> \o from[piece.to, left - 1]
    IN from[start, end + 1]

ChunksOf(symbol, raw, offsets) ==
    Pieces(symbol, offsets, offsets[symbol.first], EndOfLine(offsets, symbol.last, Len(raw)))

(* The lines a chunk says it is of.                                        *)
FirstLine(offsets, piece) == LineForOffset(offsets, piece.from)
LastLine(offsets, piece) == LineForOffset(offsets, Max({piece.from, piece.to - 1}))

-----------------------------------------------------------------------------
(* read_generation_utf8_chunk(): both ends go on to the next character.    *)
Snapped(raw, at) == Min({e \in at..Len(raw) : e = Len(raw) \/ raw[e + 1] # "tail"})

(* Mutant: only the end of a chunk is moved.                               *)
ReadEndOnly(raw, piece) == [from |-> piece.from, to |-> Snapped(raw, piece.to)]

Read(raw, piece) == [from |-> Snapped(raw, piece.from), to |-> Snapped(raw, piece.to)]

-----------------------------------------------------------------------------
(* read_source() decodes a piece as it is: both ends have to be between    *)
(* characters.                                                             *)
Between(raw, at) == at = Len(raw) \/ raw[at + 1] # "tail"
WholeText(raw, piece) == Between(raw, piece.from) /\ Between(raw, piece.to)

(* Pieces follow on one another, without an end before a beginning, and    *)
(* the last one ends where the symbol does.                                *)
Tile(pieces, start, end) ==
    /\ pieces # <<>> /\ pieces[1].from = start /\ Last(pieces).to = end
    /\ \A k \in DOMAIN pieces : pieces[k].from < pieces[k].to /\ (k > 1 => pieces[k].from = pieces[k - 1].to)

(* The symbols that are cut as they should be: after the lines one piece   *)
(* may have, what is left fits in one more.                                *)
Ends(symbol, offsets, start, end) ==
    LET reach == EndOfLine(offsets, Least(symbol.last, symbol.first + MAX_CHUNK_LINES - 1), end)
    IN end - reach <= MAX_CHUNK_BYTES

(* A piece keeps the limit of bytes, and only one that is marked ends      *)
(* within a line; what is read of the pieces is the text of the symbol, in *)
(* whole characters, none of them twice.  Only a piece that is marked, or  *)
(* follows one that is, may be cut within a character.                     *)
PiecesAreSound(pieces, raw, offsets, start, end) ==
    /\ Tile(pieces, start, end)
    /\ \A k \in DOMAIN pieces :
          /\ pieces[k].to - pieces[k].from <= MAX_CHUNK_BYTES
          /\ pieces[k].partial \/ raw[pieces[k].to] = "line" \/ pieces[k].to = end
          /\ LET read == Read(raw, pieces[k])
             IN /\ WholeText(raw, read)
                /\ k > 1 => read.from = Read(raw, pieces[k - 1]).to
          /\ WholeText(raw, pieces[k]) \/ pieces[k].partial \/ (k > 1 /\ pieces[k - 1].partial)
          /\ FirstLine(offsets, pieces[k]) <= LastLine(offsets, pieces[k])
          /\ k > 1 => LastLine(offsets, pieces[k - 1]) <= FirstLine(offsets, pieces[k])
    /\ Read(raw, pieces[1]).from = start /\ Read(raw, Last(pieces)).to = end

ChunksAreTheSymbol(symbol, raw) == \A offsets \in {LineOffsets(raw)} :
    \A start \in {offsets[symbol.first]}, end \in {EndOfLine(offsets, symbol.last, Len(raw))} :
        Ends(symbol, offsets, start, end) =>
            \A pieces \in {ChunksOf(symbol, raw, offsets)} : PiecesAreSound(pieces, raw, offsets, start, end)

(* The same of every symbol, whatever its length.                          *)
EveryChunkTiles(symbol, raw) == \A offsets \in {LineOffsets(raw)} :
    Tile(ChunksOf(symbol, raw, offsets), offsets[symbol.first], EndOfLine(offsets, symbol.last, Len(raw)))

-----------------------------------------------------------------------------
(* The text of a chunk is cut into search documents: at most so many       *)
(* bytes, after a line if there is one, and never within a character.      *)

(* Mutant: the bytes of a character are not kept together.                 *)
WithinBudget(raw, start, max) == Least(start + max, Len(raw))

(* Positions are offsets: a slice is raw[start + 1] to raw[end].           *)
Whole(raw, start, max) ==
    LET end == Least(start + max, Len(raw))
    IN IF end = Len(raw) THEN end
       ELSE Max({e \in start..end : raw[e + 1] # "tail"})

End(raw, start, max) ==
    LET end == Whole(raw, start, max)
        lines == {e \in (start + 1)..end : raw[e] = "line"}
    IN IF end < Len(raw) /\ lines # {} THEN Max(lines) ELSE end

(* slice_documents()                                                       *)
Slices(raw, max) ==
    LET from[start \in 0..Len(raw)] ==
            IF start = Len(raw) THEN <<>>
            ELSE LET end == End(raw, start, max)
                 IN <<[start |-> start, end |-> end]>> \o (IF end > start THEN from[end] ELSE <<>>)
    IN from[0]

(* The slices of a text are the text, in order and without a gap; each     *)
(* keeps the limit, holds whole characters, and, unless it must, does not  *)
(* break a line.                                                           *)
SlicesAreTheText(raw, max) == \A slices \in {Slices(raw, max)} :
    /\ raw # <<>> => slices[1].start = 0 /\ Last(slices).end = Len(raw)
    /\ \A k \in DOMAIN slices :
          /\ slices[k].start < slices[k].end /\ slices[k].end - slices[k].start <= max
          /\ raw[slices[k].start + 1] # "tail"
          /\ k > 1 => slices[k].start = slices[k - 1].end
          /\ k < Len(slices) /\ (\E e \in (slices[k].start + 1)..slices[k].end : raw[e] = "line") => raw[slices[k].end] = "line"
=============================================================================
